--------------------------- MODULE VersionsProofs ---------------------------
(***************************************************************************)
(* Proofs about Versions, for any keys, trees, levels, readers, spilled    *)
(* transactions and bounds.                                                *)
(***************************************************************************)
EXTENDS Versions, ListsProofs, FiniteSetTheorems, TLAPS

---------------------------------------------------------------------------
(* The inductive invariant.                                                *)

MemIds  == 1 .. 2 + 2 * MaxReaders
Version == [mem : MemIds, imm : {0} \cup MemIds, l0 : Seq(File), deep : [Deep -> SUBSET File]]
Reader  == [v : Version, snap : Nat]
Steps   == {"flush", "freeze", "share", "sweep", "merge", "merge0", "runs", "begin"}

\* What every variable is made of.
Types ==
    /\ cur \in Version
    /\ mems \in [MemIds -> SUBSET Entry]
    /\ last \in 0 .. MaxSeq /\ durable \in 0 .. last
    /\ dead \in [Tree -> 0 .. last] /\ sweep \in BOOLEAN
    /\ fl # None => fl \in Flushing
    /\ comp # None => comp \in Merging
    /\ readers \subseteq Reader /\ \A r \in readers : r.snap <= durable
    /\ todo \in Seq(Steps)
    /\ hist \subseteq Entry

\* There is a slot for the transaction that a call under way begins at its end.
Slots ==
    /\ IsFiniteSet(readers) /\ Cardinality(readers) <= MaxReaders
    /\ \A i \in DOMAIN todo :
         todo[i] = "begin" => i = Len(todo) /\ Cardinality(readers) < MaxReaders

\* A call that installs the runs of a spilled transaction at its end has n
\* steps behind it: no memtable has an entry when it comes to the runs.
Spilling == <<"flush", "freeze", "flush", "sweep", "merge0", "runs">>

Drains ==
    (\E i \in DOMAIN todo : todo[i] = "runs") =>
        \E n \in 0 .. 5 :
            /\ Len(todo) = 6 - n /\ \A i \in 1 .. 6 - n : todo[i] = Spilling[n + i]
            /\ n = 1 \/ n >= 3 => fl = None
            /\ n >= 2 => Mem(cur.mem) = {}

\* What a flush writes of the keys below n.
FlushOut(n) == UNION {Flushed(k) : k \in {j \in Frozen : j < n}}

\* A memtable is frozen while it is flushed, with nothing in it that a crash
\* could take, and what is written of it so far are its flushed keys; one that
\* no version holds is empty.
Memory ==
    /\ (fl = None) = (cur.imm = 0)
    /\ \A i \in MemIds : \A e \in mems[i] : e.seq <= last
    /\ \A i \in MemIds \ Held(cur, readers) : mems[i] = {}
    /\ \A v \in {cur} \cup {r.v : r \in readers} : v.imm # cur.mem
    /\ fl # None => /\ fl.upto <= durable
                    /\ \A e \in Mem(cur.imm) : e.seq <= durable
                    /\ fl.out = FlushOut(fl.at)

\* Every write has a number of its own.
History ==
    /\ \A e \in hist : e.seq <= last
    /\ \A d, e \in hist : d.key = e.key /\ d.seq = e.seq => d = e
    /\ \A i \in MemIds : mems[i] \subseteq hist
    /\ \A f \in Files(cur) : f \subseteq hist
    /\ \A r \in readers : \A f \in Files(r.v) : f \subseteq hist

\* Of one key, everything in A is newer than everything in B.
Newer(A, B) == \A d \in A, e \in B : d.key = e.key => d.seq > e.seq

\* All keys of one file are below all keys of the other.
Apart(f, g) ==
    \/ \A d \in f, e \in g : d.key < e.key
    \/ \A d \in f, e \in g : e.key < d.key

\* The order of a version's levels, under memtables M and I.
Stack(M, I, v) ==
    /\ Newer(M, I)
    /\ \A f \in Files(v) : Newer(M, f) /\ Newer(I, f)
    /\ \A i, j \in DOMAIN v.l0 : i < j => Newer(v.l0[j], v.l0[i])
    /\ \A i \in DOMAIN v.l0 : \A l \in Deep : \A g \in v.deep[l] : Newer(v.l0[i], g)
    /\ \A l, m \in Deep : l < m => \A f \in v.deep[l], g \in v.deep[m] : Newer(f, g)
    /\ \A l \in Deep : \A f, g \in v.deep[l] : f # g => Apart(f, g)

Layers(v) == Stack(Mem(v.mem), Mem(v.imm), v)

\* A paused compaction's inputs are still where it took them from, with what
\* is not an input newer above them, apart from them in the level of the
\* outputs, and older below; and it has kept so far what it should.
Inputs ==
    comp # None =>
        LET E == UNION comp.in IN
        /\ comp.in \subseteq Files(cur)
        /\ comp.rest # {} /\ comp.rest \subseteq E
        /\ comp.keep <= durable
        /\ comp.out = {d \in E \ comp.rest : Keep(comp, d)}
        /\ \A i \in DOMAIN cur.l0 : cur.l0[i] \notin comp.in => Newer(cur.l0[i], E)
        /\ \A l \in Deep : \A f \in cur.deep[l] \ comp.in :
             /\ l < comp.next => Newer(f, E)
             /\ l = comp.next => Apart(f, E)
             /\ l > comp.next => Newer(E, f)
        /\ \A l \in Deep : l > comp.next => cur.deep[l] \cap comp.in = {}
        /\ comp.bottom => Bottom(comp.next)

\* What a version has of key k at snapshot s is what the commits left there.
Contents(M, I, v) == M \cup I \cup UNION Files(v)
All(v) == Contents(Mem(v.mem), Mem(v.imm), v)

Same(A, B, k, s) == Live(Newest(A, k, s)) = Live(Newest(B, k, s))

Truth ==
    /\ \A k \in Key : \A s \in durable .. last :
         ~Gone(TreeOf[k], s) => Same(All(cur), hist, k, s)
    /\ \A r \in readers : \A k \in Key :
         ~Gone(TreeOf[k], r.snap) => Same(All(r.v), hist, k, r.snap)

IInv ==
    /\ Types /\ Slots /\ Drains /\ Memory /\ History /\ Inputs /\ FilesDurable
    /\ Layers(cur) /\ \A r \in readers : Layers(r.v)
    /\ Truth

---------------------------------------------------------------------------
(* Versions.                                                               *)

\* The fields of a version.
LEMMA Fields ==
  ASSUME NEW v \in Version
  PROVE  /\ v.mem \in MemIds /\ v.imm \in {0} \cup MemIds
         /\ v.l0 \in Seq(File) /\ v.deep \in [Deep -> SUBSET File]
         /\ Files(v) \subseteq File
<1>1. v.mem \in MemIds /\ v.imm \in {0} \cup MemIds
  BY DEF Version
<1>2. v.l0 \in Seq(File) /\ v.deep \in [Deep -> SUBSET File]
  BY DEF Version
<1>3. ToSet(v.l0) \subseteq File
  BY <1>2 DEF ToSet
<1> QED
  BY <1>1, <1>2, <1>3 DEF Files

\* The memtables of a version that the engine or a transaction holds.
LEMMA HeldVersion ==
  ASSUME Types, NEW v, v \in {cur} \cup {r.v : r \in readers}
  PROVE  /\ v \in Version /\ v.mem \in MemIds /\ v.imm \in {0} \cup MemIds
         /\ 0 \notin MemIds /\ mems \in [MemIds -> SUBSET Entry]
<1>1. cur \in Version /\ \A r \in readers : r.v \in Version
  BY DEF Types, Reader
<1>2. v \in Version
  BY <1>1
<1>3. mems \in [MemIds -> SUBSET Entry]
  BY DEF Types
<1>4. 0 \notin MemIds
  BY DEF MemIds
<1> QED
  BY <1>2, <1>3, <1>4, Fields

\* The files of a version, one by one.
LEMMA FileOf ==
  ASSUME NEW v, NEW f
  PROVE  f \in Files(v) <=> f \in ToSet(v.l0) \/ \E l \in Deep : f \in v.deep[l]
BY DEF Files

\* version_add puts files in a level.
LEMMA AddedVersion ==
  ASSUME NEW v \in Version, NEW l \in Deep, NEW F \in SUBSET File
  PROVE  /\ Added(v, l, F) \in Version
         /\ Added(v, l, F).mem = v.mem /\ Added(v, l, F).imm = v.imm
         /\ Added(v, l, F).l0 = v.l0
         /\ Added(v, l, F).deep = [v.deep EXCEPT ![l] = @ \cup F]
         /\ Files(Added(v, l, F)) = Files(v) \cup F
<1> DEFINE a == Added(v, l, F)
<1>1. /\ a.mem = v.mem /\ a.imm = v.imm /\ a.l0 = v.l0
      /\ a.deep = [v.deep EXCEPT ![l] = @ \cup F]
  BY DEF Added, Version
<1>2. a.deep \in [Deep -> SUBSET File]
  BY <1>1, Fields
<1>3. a = [v EXCEPT !.deep = a.deep]
  BY <1>1 DEF Added, Version
<1>4. a \in Version
  BY <1>2, <1>3 DEF Version
<1>5. \A k \in Deep : a.deep[k] = IF k = l THEN v.deep[k] \cup F ELSE v.deep[k]
  BY <1>1, Fields
<1> HIDE DEF a
<1>6. \A f : f \in Files(a) <=> f \in Files(v) \cup F
  <2> TAKE f
  <2>1. (\E k \in Deep : f \in a.deep[k]) <=> (\E k \in Deep : f \in v.deep[k]) \/ f \in F
    BY <1>5
  <2>2. f \in Files(a) <=> f \in ToSet(v.l0) \/ \E k \in Deep : f \in a.deep[k]
    BY <1>1, FileOf
  <2>3. f \in Files(v) <=> f \in ToSet(v.l0) \/ \E k \in Deep : f \in v.deep[k]
    BY FileOf
  <2> QED
    BY <2>1, <2>2, <2>3
<1>7. Files(a) = Files(v) \cup F
  BY <1>6
<1> QED
  BY <1>1, <1>4, <1>7 DEF a

\* version_remove takes files out of every level.
LEMMA WithoutVersion ==
  ASSUME NEW v \in Version, NEW F
  PROVE  /\ Without(v, F) \in Version
         /\ Without(v, F).mem = v.mem /\ Without(v, F).imm = v.imm
         /\ Without(v, F).l0 = Dropped(v.l0, F)
         /\ Without(v, F).deep = [l \in Deep |-> v.deep[l] \ F]
         /\ Files(Without(v, F)) = Files(v) \ F
<1> DEFINE a == Without(v, F)
<1>1. /\ a.mem = v.mem /\ a.imm = v.imm /\ a.l0 = Dropped(v.l0, F)
      /\ a.deep = [l \in Deep |-> v.deep[l] \ F]
  BY DEF Without, Version
<1>2. a.deep \in [Deep -> SUBSET File]
  BY <1>1, Fields
<1>3. a.l0 \in Seq(File) /\ ToSet(a.l0) = ToSet(v.l0) \ F
  <2>1. v.l0 \in Seq(File)
    BY Fields
  <2> QED
    BY <2>1, <1>1, DroppedSet, DroppedEmbeds
<1>4. a = [v EXCEPT !.l0 = a.l0, !.deep = a.deep]
  BY <1>1 DEF Without, Version
<1>5. a \in Version
  BY <1>2, <1>3, <1>4 DEF Version
<1>6. \A k \in Deep : a.deep[k] = v.deep[k] \ F
  BY <1>1
<1> HIDE DEF a
<1>7. \A f : f \in Files(a) <=> f \in Files(v) \ F
  BY <1>3, <1>6, FileOf
<1>8. Files(a) = Files(v) \ F
  BY <1>7
<1> QED
  BY <1>1, <1>3, <1>5, <1>8 DEF a

\* Files that come last in level 0.
Grown(v, i, s) == [v EXCEPT !.imm = i, !.l0 = v.l0 \o s]

\* The version with them, and with another frozen memtable.
LEMMA GrownVersion ==
  ASSUME NEW v \in Version, NEW s \in Seq(File), NEW i \in {0} \cup MemIds
  PROVE  /\ Grown(v, i, s) \in Version
         /\ Grown(v, i, s).mem = v.mem /\ Grown(v, i, s).imm = i
         /\ Grown(v, i, s).l0 = v.l0 \o s /\ Grown(v, i, s).deep = v.deep
         /\ Files(Grown(v, i, s)) = Files(v) \cup ToSet(s)
<1> DEFINE a == Grown(v, i, s)
<1> USE DEF Grown
<1>1. a.mem = v.mem /\ a.imm = i /\ a.l0 = v.l0 \o s /\ a.deep = v.deep
  BY DEF Version
<1>2. v.l0 \in Seq(File) /\ v.l0 \o s \in Seq(File)
  BY Fields
<1>3. a \in Version
  BY <1>2 DEF Version
<1>4. ToSet(v.l0 \o s) = ToSet(v.l0) \cup ToSet(s)
  <2>1. CASE File = {}
    <3>1. v.l0 = <<>> /\ s = <<>> /\ v.l0 \o s = <<>>
      BY <1>2, <2>1
    <3> QED
      BY <3>1
  <2>2. CASE File # {}
    BY <1>2, <2>2, GrownSet
  <2> QED
    BY <2>1, <2>2
<1> QED
  BY <1>1, <1>3, <1>4 DEF Files

---------------------------------------------------------------------------
(* What the steps make.                                                    *)

\* A spilled transaction commits, with the trees it drops.
Spilled(runs) == \E trees \in SUBSET Tree : Runs(runs, trees)

\* The steps left of a call, and the slot of the transaction it begins.
LEMMA SlotsStep ==
  ASSUME Types, Slots, [Next]_vars
  PROVE  todo' \in Seq(Steps) /\ Slots'
<1> USE DEF Types, Slots
<1>0. /\ "flush" \in Steps /\ "freeze" \in Steps /\ "share" \in Steps /\ "sweep" \in Steps
      /\ "merge" \in Steps /\ "merge0" \in Steps /\ "runs" \in Steps /\ "begin" \in Steps
  BY DEF Steps
<1>1. /\ Tail(todo) \in Seq(Steps) \/ todo = <<>>
      /\ todo # <<>> => /\ Len(Tail(todo)) = Len(todo) - 1
                       /\ \A i \in DOMAIN Tail(todo) : i + 1 \in DOMAIN todo
                                                      /\ Tail(todo)[i] = todo[i + 1]
  OBVIOUS
<1>2. ASSUME todo # <<>>, todo' = Tail(todo), UNCHANGED readers
      PROVE  todo' \in Seq(Steps) /\ Slots'
  BY <1>1, <1>2
<1>3. ASSUME todo' = <<>>, UNCHANGED readers PROVE todo' \in Seq(Steps) /\ Slots'
  BY <1>3
<1>4. ASSUME NEW full \in BOOLEAN, todo' = Shares(full), UNCHANGED readers
      PROVE  todo' \in Seq(Steps) /\ Slots'
  <2>1. CASE full
    <3> DEFINE p == <<"flush", "freeze">>
               q == <<"share", "sweep", "merge">>
    <3>1. todo' = p \o q
      BY <1>4, <2>1 DEF Shares
    <3>2. p \in Seq(Steps) /\ \A i \in 1 .. Len(p) : p[i] # "begin"
      BY <1>0
    <3>3. q \in Seq(Steps) /\ \A i \in 1 .. Len(q) : q[i] # "begin"
      BY <1>0
    <3> HIDE DEF p, q
    <3>4. todo' \in Seq(Steps) /\ \A i \in DOMAIN todo' : todo'[i] # "begin"
      BY <3>1, <3>2, <3>3
    <3> QED
      BY <3>4, <1>4
  <2>2. CASE ~full
    <3>1. todo' = <<"share", "sweep", "merge">>
      BY <1>4, <2>2 DEF Shares
    <3> QED
      BY <3>1, <1>0, <1>4
  <2> QED
    BY <2>1, <2>2
<1>5. ASSUME NEW e, NEW sync, Logged(e, sync) PROVE todo' \in Seq(Steps) /\ Slots'
  BY <1>4, <1>5 DEF Logged
<1>6. ASSUME NEW k \in Written, NEW del \in BOOLEAN, NEW sync \in BOOLEAN, Commit(k, del, sync)
      PROVE  todo' \in Seq(Steps) /\ Slots'
  BY <1>5, <1>6 DEF Commit
<1>7. ASSUME NEW t \in Tree, NEW sync \in BOOLEAN, Retire(t, sync)
      PROVE  todo' \in Seq(Steps) /\ Slots'
  BY <1>5, <1>7 DEF Retire
<1>8. ASSUME SpilledCommit \/ Flush PROVE todo' \in Seq(Steps) /\ Slots'
  <2>1. UNCHANGED readers
    BY <1>8 DEF SpilledCommit, Flush
  <2>2. CASE todo' = <<"flush", "freeze", "flush", "sweep", "merge0", "runs">>
    BY <2>1, <2>2, <1>0
  <2>3. CASE todo' = <<"flush", "freeze", "flush", "sweep", "merge0">>
    BY <2>1, <2>3, <1>0
  <2> QED
    BY <1>8, <2>2, <2>3 DEF SpilledCommit, Flush
<1>9. ASSUME NEW runs \in Spills, Spilled(runs) PROVE todo' \in Seq(Steps) /\ Slots'
  BY <1>9 DEF Spilled, Runs, Steps
<1>10. CASE RunsAborted \/ Sync \/ FlushFails \/ CompFails
  BY <1>2, <1>3, <1>10 DEF RunsAborted, Sync, FlushFails, CompFails, At
<1>11. CASE BeginRead
  <2>1. UNCHANGED readers /\ Cardinality(readers) < MaxReaders
    BY <1>11 DEF BeginRead
  <2>2. CASE todo' = <<"begin">>
    BY <2>1, <2>2, <1>0
  <2>3. CASE todo' = <<"share", "begin">>
    BY <2>1, <2>3, <1>0
  <2> QED
    BY <1>11, <2>2, <2>3 DEF BeginRead
<1>12. CASE Begin
  <2>1. todo # <<>> /\ todo[1] = "begin" /\ todo' = Tail(todo) /\ readers' = readers \cup {Pinned}
    BY <1>12 DEF Begin, At
  <2>2. Len(todo) = 1 /\ Cardinality(readers) < MaxReaders
    <3>1. 1 \in DOMAIN todo
      BY <2>1
    <3> QED
      BY <2>1, <3>1
  <2>3. todo' = <<>>
    BY <2>1, <2>2
  <2>4. Cardinality(readers) \in Nat /\ MaxReaders \in Nat
    BY FS_CardinalityType, VersionsAssumption
  <2>5. IsFiniteSet(readers') /\ Cardinality(readers') <= Cardinality(readers) + 1
    <3> DEFINE n == Cardinality(readers)
    <3>1. /\ IsFiniteSet(readers')
          /\ Cardinality(readers') = IF Pinned \in readers THEN n ELSE n + 1
      BY <2>1, FS_AddElement
    <3> HIDE DEF n
    <3>2. n \in Nat
      BY <2>4 DEF n
    <3> QED
      BY <3>1, <3>2 DEF n
  <2>6. Cardinality(readers') <= MaxReaders
    <3>1. Cardinality(readers') \in Nat
      BY <2>5, FS_CardinalityType
    <3> QED
      BY <3>1, <2>2, <2>4, <2>5
  <2> QED
    BY <2>3, <2>5, <2>6
<1>13. ASSUME NEW r \in readers, EndRead(r) PROVE todo' \in Seq(Steps) /\ Slots'
  <2>1. readers' \in SUBSET readers /\ todo = <<>> /\ UNCHANGED todo
    BY <1>13 DEF EndRead
  <2>2. IsFiniteSet(readers') /\ Cardinality(readers') <= Cardinality(readers)
    BY <2>1, FS_Subset
  <2>3. /\ Cardinality(readers') \in Nat /\ Cardinality(readers) \in Nat
        /\ MaxReaders \in Nat
    BY <2>2, FS_CardinalityType, VersionsAssumption
  <2> QED
    BY <2>1, <2>2, <2>3
<1>14. CASE Freeze \/ FlushStep \/ SweepDead \/ CompPause \/ CompDone
  BY <1>2, <1>14 DEF Freeze, FlushStep, SweepDead, CompPause, CompDone, At
<1>15. CASE CompStart
  BY <1>15 DEF CompStart
<1>16. CASE CompFinish
  <2>1. todo # <<>> /\ UNCHANGED readers
    BY <1>16 DEF CompFinish, At
  <2>2. CASE UNCHANGED todo
    BY <2>1, <2>2
  <2>3. CASE todo' = <<"merge0">> \o Tail(todo)
    <3>1. todo' \in Seq(Steps) /\ Len(todo') = Len(todo)
      BY <2>1, <2>3 DEF Steps
    <3>2. \A i \in DOMAIN todo' : todo'[i] = IF i = 1 THEN "merge0" ELSE todo[i]
      BY <2>1, <2>3
    <3> QED
      BY <2>1, <3>1, <3>2
  <2> QED
    BY <1>16, <2>2, <2>3 DEF CompFinish
<1>17. ASSUME NEW n \in 0 .. MaxSeq, Crash(n) PROVE todo' \in Seq(Steps) /\ Slots'
  <2>1. todo' = <<>> /\ readers' = {}
    BY <1>17 DEF Crash
  <2> QED
    BY <2>1, FS_EmptySet, VersionsAssumption
<1>18. CASE UNCHANGED vars
  BY <1>18 DEF vars
<1> QED
  BY <1>6, <1>7, <1>8, <1>9, <1>10, <1>11, <1>12, <1>13, <1>14, <1>15, <1>16, <1>17, <1>18 DEF Next, Spilled

\* There is a memtable to write into while another is frozen: no version holds
\* more than two.
LEMMA FreshMemtable ==
  ASSUME Types, Slots, cur.imm = 0
  PROVE  LET m == Min(DOMAIN mems \ Held(cur, readers))
         IN m \in MemIds /\ m \notin Held(cur, readers)
<1> DEFINE A == {r.v.mem : r \in readers}
           B == {r.v.imm : r \in readers}
           H == Held(cur, readers)
           n == Cardinality(readers)
<1>1. n \in Nat /\ MaxReaders \in Nat /\ n <= MaxReaders
  BY FS_CardinalityType, VersionsAssumption DEF Slots
<1>2. IsFiniteSet(A) /\ Cardinality(A) <= n
  <2>1. [r \in readers |-> r.v.mem] \in Surjection(readers, A)
    BY DEF Surjection
  <2> QED
    BY <2>1, FS_Surjection DEF Slots
<1>3. IsFiniteSet(B) /\ Cardinality(B) <= n
  <2>1. [r \in readers |-> r.v.imm] \in Surjection(readers, B)
    BY DEF Surjection
  <2> QED
    BY <2>1, FS_Surjection DEF Slots
<1>4. IsFiniteSet(A \cup B) /\ Cardinality(A \cup B) <= 2 * MaxReaders
  <2>1. IsFiniteSet(A \cap B)
    BY <1>2, FS_Subset
  <2>2. Cardinality(A) \in Nat /\ Cardinality(B) \in Nat /\ Cardinality(A \cap B) \in Nat
    BY <2>1, <1>2, <1>3, FS_CardinalityType
  <2>3. /\ IsFiniteSet(A \cup B)
        /\ Cardinality(A \cup B) = Cardinality(A) + Cardinality(B) - Cardinality(A \cap B)
    BY <1>2, <1>3, FS_Union
  <2> QED
    BY <1>1, <1>2, <1>3, <2>2, <2>3
<1>5. /\ IsFiniteSet((A \cup B) \cup {cur.mem})
      /\ Cardinality((A \cup B) \cup {cur.mem}) <= 1 + 2 * MaxReaders
  <2>1. Cardinality(A \cup B) \in Nat
    BY <1>4, FS_CardinalityType
  <2> DEFINE C == A \cup B
             c == Cardinality(C)
  <2>2. /\ IsFiniteSet(C \cup {cur.mem})
        /\ Cardinality(C \cup {cur.mem}) = IF cur.mem \in C THEN c ELSE c + 1
    BY <1>4, FS_AddElement
  <2>3. c \in Nat /\ c <= 2 * MaxReaders
    BY <1>4, <2>1
  <2> HIDE DEF C, c
  <2>4. Cardinality(C \cup {cur.mem}) <= 1 + 2 * MaxReaders
    BY <1>1, <2>2, <2>3
  <2> QED
    BY <2>2, <2>4 DEF C
<1>6. H \cap MemIds \subseteq (A \cup B) \cup {cur.mem}
  BY DEF Held, MemIds
<1>7. MemIds \ H # {}
  <2>1. SUFFICES ASSUME MemIds \subseteq H PROVE FALSE
    OBVIOUS
  <2>2. MemIds \subseteq (A \cup B) \cup {cur.mem}
    BY <2>1, <1>6
  <2>3. Cardinality(MemIds) <= Cardinality((A \cup B) \cup {cur.mem})
    BY <2>2, <1>5, FS_Subset
  <2>4. Cardinality(MemIds) = 2 + 2 * MaxReaders
    BY <1>1, FS_Interval DEF MemIds
  <2>5. Cardinality((A \cup B) \cup {cur.mem}) \in Nat
    BY <1>5, FS_CardinalityType
  <2> QED
    BY <1>1, <1>5, <2>3, <2>4, <2>5
<1>8. DOMAIN mems = MemIds /\ MemIds \subseteq Nat
  BY <1>1 DEF Types, MemIds
<1> HIDE DEF H
<1>9. Min(MemIds \ H) \in MemIds \ H
  BY <1>7, <1>8, LeastElement DEF Min
<1> QED
  BY <1>8, <1>9 DEF H

\* The files of a spilled transaction's runs.
RunFile(runs, i) == {[key |-> k, seq |-> last + i, del |-> runs[i][k]] : k \in DOMAIN runs[i]}
RunFiles(runs)   == [i \in 1 .. Len(runs) |-> RunFile(runs, i)]

\* A run is a file of entries with its number.
LEMMA RunFilesType ==
  ASSUME Types, NEW runs \in Spills, last + Len(runs) <= MaxSeq
  PROVE  /\ RunFiles(runs) \in Seq(File) /\ Len(RunFiles(runs)) = Len(runs)
         /\ Len(runs) \in Nat
         /\ \A i \in 1 .. Len(runs) : \A e \in RunFile(runs, i) :
              e.seq = last + i /\ e.key \in DOMAIN runs[i]
<1> DEFINE R == UNION {[K -> BOOLEAN] : K \in (SUBSET (0 .. MaxKey)) \ {{}}}
<1>1. runs \in Seq(R)
  BY VersionsAssumption
<1>2. Len(runs) \in Nat /\ \A i \in 1 .. Len(runs) : runs[i] \in R
  BY <1>1
<1>3. last \in Nat /\ MaxSeq \in Nat
  BY VersionsAssumption DEF Types
<1>4. ASSUME NEW i \in 1 .. Len(runs)
      PROVE  /\ RunFile(runs, i) \in File
             /\ \A e \in RunFile(runs, i) : e.seq = last + i /\ e.key \in DOMAIN runs[i]
  <2>1. PICK K \in (SUBSET (0 .. MaxKey)) \ {{}} : runs[i] \in [K -> BOOLEAN]
    BY <1>2
  <2>2. last + i \in 1 .. MaxSeq
    BY <1>2, <1>3
  <2>3. \A k \in K : [key |-> k, seq |-> last + i, del |-> runs[i][k]] \in Entry
    BY <2>1, <2>2 DEF Entry, Key
  <2>4. DOMAIN runs[i] = K
    BY <2>1
  <2>5. K # {}
    BY <2>1
  <2>6. RunFile(runs, i) \in SUBSET Entry
    BY <2>3, <2>4 DEF RunFile
  <2>7. RunFile(runs, i) # {}
    BY <2>4, <2>5 DEF RunFile
  <2>8. \A e \in RunFile(runs, i) : e.seq = last + i /\ e.key \in DOMAIN runs[i]
    BY DEF RunFile
  <2> QED
    BY <2>6, <2>7, <2>8 DEF File
<1> QED
  BY <1>2, <1>4 DEF RunFiles

---------------------------------------------------------------------------
(* The order of the levels.                                                *)

\* A smaller source keeps the order.
LEMMA NewerSub ==
  ASSUME NEW A, NEW B, NEW C, NEW D, Newer(A, B), C \subseteq A, D \subseteq B
  PROVE  Newer(C, D) /\ Newer(C, {}) /\ Newer({}, D)
BY DEF Newer

\* So do apart files.
LEMMA ApartSub ==
  ASSUME NEW A, NEW B, NEW C, NEW D, Apart(A, B), C \subseteq A, D \subseteq B
  PROVE  Apart(C, D) /\ Apart(D, C)
BY DEF Apart

\* Files that share no key are in any order.
LEMMA ApartNewer ==
  ASSUME NEW f \in SUBSET Entry, NEW g \in SUBSET Entry, Apart(f, g)
  PROVE  Newer(f, g) /\ Newer(g, f)
<1>1. \A d \in f, e \in g : d.key \in Int /\ e.key \in Int
  BY VersionsAssumption DEF Entry, Key
<1>2. \A d \in f, e \in g : d.key # e.key
  BY <1>1 DEF Apart
<1> QED
  BY <1>2 DEF Newer

\* A file that is newer than another one is another file.
LEMMA NewerOther ==
  ASSUME NEW f \in File, NEW g, Newer(f, g) PROVE f # g
<1>1. PICK e \in f : e.seq \in Int
  BY DEF File, Entry
<1> QED
  BY <1>1 DEF Newer

\* What version_remove leaves is in order.
LEMMA StackWithout ==
  ASSUME NEW M, NEW I, NEW v \in Version, Stack(M, I, v), NEW X
  PROVE  Stack(M, I, Without(v, X))
<1> DEFINE w == Without(v, X)
<1>1. /\ w.l0 = Dropped(v.l0, X) /\ w.deep = [l \in Deep |-> v.deep[l] \ X]
      /\ Files(w) \subseteq Files(v)
  BY WithoutVersion
<1>2. v.l0 \in Seq(File)
  BY Fields
<1>3. PICK g : Embeds(g, w.l0, v.l0, X)
  BY <1>1, <1>2, DroppedEmbeds
<1>4. /\ \A j \in DOMAIN w.l0 : g[j] \in DOMAIN v.l0 /\ w.l0[j] = v.l0[g[j]]
      /\ \A i, j \in DOMAIN w.l0 : i < j => g[i] < g[j]
  BY <1>3 DEF Embeds
<1>5. \A l \in Deep : w.deep[l] \subseteq v.deep[l]
  BY <1>1
<1> HIDE DEF w
<1>6. Newer(M, I) /\ \A f \in Files(w) : Newer(M, f) /\ Newer(I, f)
  BY <1>1 DEF Stack
<1>7. \A i, j \in DOMAIN w.l0 : i < j => Newer(w.l0[j], w.l0[i])
  BY <1>4 DEF Stack
<1>8. \A i \in DOMAIN w.l0 : \A l \in Deep : \A f \in w.deep[l] : Newer(w.l0[i], f)
  BY <1>4, <1>5 DEF Stack
<1>9. \A l, m \in Deep : l < m => \A f \in w.deep[l], h \in w.deep[m] : Newer(f, h)
  BY <1>5 DEF Stack
<1>10. \A l \in Deep : \A f, h \in w.deep[l] : f # h => Apart(f, h)
  BY <1>5 DEF Stack
<1> QED
  BY <1>6, <1>7, <1>8, <1>9, <1>10 DEF Stack, w

\* Where file g may be put in level l of a version.
Fits(M, I, v, l, g) ==
    /\ Newer(M, g) /\ Newer(I, g)
    /\ \A i \in DOMAIN v.l0 : Newer(v.l0[i], g)
    /\ \A m \in Deep : \A f \in v.deep[m] :
         /\ m < l => Newer(f, g)
         /\ m = l => Apart(f, g)
         /\ m > l => Newer(g, f)

\* What version_add makes is in order, if the files fit.
LEMMA StackAdded ==
  ASSUME NEW M, NEW I, NEW v \in Version, Stack(M, I, v), NEW l \in Deep, NEW G \in SUBSET File,
         \A g \in G : Fits(M, I, v, l, g), \A f, g \in G : f # g => Apart(f, g)
  PROVE  Stack(M, I, Added(v, l, G))
<1> DEFINE w == Added(v, l, G)
<1>1. /\ w.l0 = v.l0 /\ w.deep = [v.deep EXCEPT ![l] = @ \cup G]
      /\ Files(w) = Files(v) \cup G
  BY AddedVersion
<1>2. \A m \in Deep : w.deep[m] = IF m = l THEN v.deep[m] \cup G ELSE v.deep[m]
  BY <1>1, Fields
<1> HIDE DEF w
<1>3. \A m \in Deep : \A f \in w.deep[m] : f \in v.deep[m] \/ (m = l /\ f \in G)
  BY <1>2
<1>4. Newer(M, I) /\ \A f \in Files(w) : Newer(M, f) /\ Newer(I, f)
  BY <1>1 DEF Stack, Fits
<1>5. \A i, j \in DOMAIN w.l0 : i < j => Newer(w.l0[j], w.l0[i])
  BY <1>1 DEF Stack
<1>6. \A i \in DOMAIN w.l0 : \A m \in Deep : \A f \in w.deep[m] : Newer(w.l0[i], f)
  BY <1>1, <1>3 DEF Stack, Fits
<1>7. ASSUME NEW n \in Deep, NEW m \in Deep, n < m, NEW f \in w.deep[n], NEW h \in w.deep[m]
      PROVE  Newer(f, h)
  <2>1. CASE f \in v.deep[n] /\ h \in v.deep[m]
    BY <1>7, <2>1 DEF Stack
  <2>2. CASE n = l /\ f \in G /\ h \in v.deep[m]
    BY <1>7, <2>2 DEF Fits
  <2>3. CASE m = l /\ h \in G /\ f \in v.deep[n]
    BY <1>7, <2>3 DEF Fits
  <2>4. n # m
    BY <1>7 DEF Deep
  <2> QED
    BY <1>3, <2>1, <2>2, <2>3, <2>4
<1>8. ASSUME NEW m \in Deep, NEW f \in w.deep[m], NEW h \in w.deep[m], f # h PROVE Apart(f, h)
  <2>1. CASE f \in v.deep[m] /\ h \in v.deep[m]
    BY <1>8, <2>1 DEF Stack
  <2>2. CASE m = l /\ f \in G /\ h \in G
    BY <1>8, <2>2
  <2>3. CASE m = l /\ h \in G /\ f \in v.deep[m]
    BY <1>8, <2>3 DEF Fits
  <2>4. CASE m = l /\ f \in G /\ h \in v.deep[m]
    <3>1. Apart(h, f)
      BY <1>8, <2>4 DEF Fits
    <3> QED
      BY <3>1, ApartSub
  <2> QED
    BY <1>3, <2>1, <2>2, <2>3, <2>4
<1> QED
  BY <1>4, <1>5, <1>6, <1>7, <1>8 DEF Stack, w

\* What is in order when files come last in level 0, and the memtables change.
LEMMA StackGrown ==
  ASSUME NEW M, NEW I, NEW v \in Version, Stack(M, I, v), NEW N, NEW J,
         NEW i \in {0} \cup MemIds, NEW s \in Seq(File),
         Newer(N, J), \A f \in Files(v) : Newer(N, f) /\ Newer(J, f),
         \A a \in DOMAIN s : /\ Newer(N, s[a]) /\ Newer(J, s[a])
                             /\ \A f \in Files(v) : Newer(s[a], f),
         \A a, b \in DOMAIN s : a < b => Newer(s[b], s[a])
  PROVE  Stack(N, J, Grown(v, i, s))
<1> DEFINE w == Grown(v, i, s)
<1>1. /\ w.l0 = v.l0 \o s /\ w.deep = v.deep /\ v.l0 \in Seq(File)
      /\ Files(w) = Files(v) \cup ToSet(s)
  <2>1. w.l0 = v.l0 \o s /\ w.deep = v.deep /\ Files(w) = Files(v) \cup ToSet(s)
    BY GrownVersion
  <2> QED
    BY <2>1, Fields
<1>2. /\ DOMAIN v.l0 = 1 .. Len(v.l0) /\ DOMAIN s = 1 .. Len(s) /\ Len(v.l0) \in Nat /\ Len(s) \in Nat
      /\ DOMAIN w.l0 = 1 .. Len(v.l0) + Len(s)
      /\ \A a \in 1 .. Len(v.l0) : w.l0[a] = v.l0[a]
      /\ \A a \in DOMAIN w.l0 : a > Len(v.l0) => w.l0[a] = s[a - Len(v.l0)]
  BY <1>1
<1> HIDE DEF w
<1> DEFINE n == Len(v.l0)
<1>3. \A a \in DOMAIN w.l0 : \/ a \in DOMAIN v.l0 /\ w.l0[a] = v.l0[a] /\ v.l0[a] \in Files(v)
                             \/ a > n /\ a - n \in DOMAIN s /\ w.l0[a] = s[a - n]
  <2>1. \A a \in DOMAIN v.l0 : v.l0[a] \in Files(v)
    BY DEF Files, ToSet
  <2> SUFFICES ASSUME NEW a \in DOMAIN w.l0
               PROVE  \/ a \in DOMAIN v.l0 /\ w.l0[a] = v.l0[a] /\ v.l0[a] \in Files(v)
                      \/ a > n /\ a - n \in DOMAIN s /\ w.l0[a] = s[a - n]
    OBVIOUS
  <2>2. n \in Nat /\ Len(s) \in Nat /\ a \in 1 .. n + Len(s)
    BY <1>2
  <2>3. CASE a > n
    <3>1. a - n \in 1 .. Len(s)
      BY <2>2, <2>3
    <3> QED
      BY <1>2, <2>3, <3>1
  <2>4. CASE a \in 1 .. n
    BY <1>2, <2>1, <2>4
  <2> QED
    BY <2>2, <2>3, <2>4
<1>4. \A f \in Files(w) : Newer(N, f) /\ Newer(J, f)
  <2>1. \A f \in ToSet(s) : \E a \in DOMAIN s : f = s[a]
    BY DEF ToSet
  <2> QED
    BY <1>1, <2>1
<1>5. ASSUME NEW a \in DOMAIN w.l0, NEW b \in DOMAIN w.l0, a < b PROVE Newer(w.l0[b], w.l0[a])
  <2>1. CASE b \in DOMAIN v.l0
    <3>1. a \in DOMAIN v.l0
      BY <1>2, <1>5, <2>1
    <3> QED
      BY <1>2, <1>5, <2>1, <3>1 DEF Stack
  <2>2. CASE b > n /\ a > n
    <3>1. a - n \in DOMAIN s /\ b - n \in DOMAIN s /\ a - n < b - n
      BY <1>2, <1>5, <2>2
    <3>2. w.l0[a] = s[a - n] /\ w.l0[b] = s[b - n]
      BY <1>2, <2>2
    <3> QED
      BY <3>1, <3>2
  <2>3. CASE b > n /\ a \in DOMAIN v.l0
    BY <1>2, <1>3, <1>5, <2>3
  <2> QED
    BY <1>2, <1>3, <1>5, <2>1, <2>2, <2>3
<1>6. ASSUME NEW a \in DOMAIN w.l0, NEW l \in Deep, NEW g \in w.deep[l] PROVE Newer(w.l0[a], g)
  <2>1. g \in Files(v)
    BY <1>1, <1>6 DEF Files
  <2> QED
    BY <1>1, <1>3, <2>1 DEF Stack
<1>7. /\ \A l, m \in Deep : l < m => \A f \in w.deep[l], g \in w.deep[m] : Newer(f, g)
      /\ \A l \in Deep : \A f, g \in w.deep[l] : f # g => Apart(f, g)
  BY <1>1 DEF Stack
<1> QED
  BY <1>4, <1>5, <1>6, <1>7 DEF Stack, w

\* The first and the last key of a file.
LEMMA KeysOf ==
  ASSUME NEW f \in File
  PROVE  /\ Smallest(f) \in Key /\ Largest(f) \in Key
         /\ \E d \in f : d.key = Smallest(f)
         /\ \E d \in f : d.key = Largest(f)
         /\ \A d \in f : d.key \in Key /\ Smallest(f) <= d.key /\ d.key <= Largest(f)
<1> DEFINE T == {e.key : e \in f}
<1>1. MaxKey \in Nat /\ Key = 0 .. MaxKey
  BY VersionsAssumption DEF Key
<1>2. T \subseteq Key /\ \E e \in f : e.key \in T
  BY DEF File, Entry
<1>3. T \in SUBSET Nat /\ T # {} /\ \A k \in T : k <= MaxKey
  BY <1>1, <1>2
<1> HIDE DEF T
<1>4. Max(T) \in T /\ \A k \in T : k <= Max(T)
  BY <1>1, <1>3, GreatestElement
<1>5. Min(T) \in T /\ \A k \in T : Min(T) <= k
  BY <1>3, LeastElement DEF Min
<1>6. Smallest(f) = Min(T) /\ Largest(f) = Max(T)
  BY DEF Smallest, Largest, T
<1> QED
  BY <1>2, <1>4, <1>5, <1>6 DEF T

\* files_overlap compares the ranges: files that do not overlap are apart.
LEMMA OverlapApart ==
  ASSUME NEW f \in File, NEW g \in File
  PROVE  ~Overlap(f, g) <=> Apart(f, g)
<1>0. Key \subseteq Int
  BY VersionsAssumption DEF Key
<1> DEFINE a == Smallest(f)  b == Largest(f)  c == Smallest(g)  d == Largest(g)
<1>1. /\ a \in Int /\ b \in Int /\ c \in Int /\ d \in Int
      /\ \E x \in f : x.key = a
      /\ \E x \in f : x.key = b
      /\ \E x \in g : x.key = c
      /\ \E x \in g : x.key = d
      /\ \A x \in f : x.key \in Int /\ a <= x.key /\ x.key <= b
      /\ \A x \in g : x.key \in Int /\ c <= x.key /\ x.key <= d
  BY <1>0, KeysOf
<1>2. Overlap(f, g) <=> (b >= c /\ d >= a)
  BY DEF Overlap
<1> HIDE DEF a, b, c, d
<1>3. b < c => \A x \in f, y \in g : x.key < y.key
  BY <1>1
<1>4. d < a => \A x \in f, y \in g : y.key < x.key
  BY <1>1
<1>5. (\A x \in f, y \in g : x.key < y.key) => b < c
  BY <1>1
<1>6. (\A x \in f, y \in g : y.key < x.key) => d < a
  BY <1>1
<1> QED
  BY <1>1, <1>2, <1>3, <1>4, <1>5, <1>6 DEF Apart

---------------------------------------------------------------------------
(* What a snapshot sees.                                                   *)

\* The newest version of a key that a snapshot sees is one, if it sees any.
LEMMA NewestOne ==
  ASSUME NEW A \in SUBSET Entry, NEW k, NEW s \in Nat,
         \A d, e \in A : d.key = e.key /\ d.seq = e.seq => d = e
  PROVE  \/ Newest(A, k, s) = {} /\ \A e \in A : ~(e.key = k /\ e.seq <= s)
         \/ \E n \in A : /\ n.key = k /\ n.seq <= s /\ Newest(A, k, s) = {n}
                         /\ \A e \in A : e.key = k /\ e.seq <= s => e.seq <= n.seq
<1> DEFINE seen == {e \in A : e.key = k /\ e.seq <= s}
           T    == {e.seq : e \in seen}
<1>0. \A e \in A : e.seq \in Nat
  BY VersionsAssumption DEF Entry
<1>1. CASE seen = {}
  BY <1>1 DEF Newest
<1>2. CASE seen # {}
  <2>1. T \in SUBSET Nat /\ T # {} /\ \A y \in T : y <= s
    BY <1>0, <1>2
  <2>2. Max(T) \in T /\ \A y \in T : y <= Max(T)
    <3> HIDE DEF T
    <3> QED
      BY <2>1, GreatestElement
  <2>3. PICK n \in seen : n.seq = Max(T)
    BY <2>2
  <2>4. \A e \in seen : e.seq <= n.seq
    BY <2>2, <2>3
  <2>5. \A e \in seen : n.seq <= e.seq => e = n
    BY <1>0, <2>4
  <2>6. Newest(A, k, s) = {n}
    BY <2>4, <2>5 DEF Newest
  <2> QED
    BY <2>4, <2>6
<1> QED
  BY <1>1, <1>2

\* Leaving an entry out of A changes nothing when a newer one is seen, or when
\* it is a deletion and what is left of its key is newer.
LEMMA Harmless ==
  ASSUME NEW A \in SUBSET Entry, NEW B \in SUBSET A, NEW k, NEW s \in Nat,
         \A d, e \in A : d.key = e.key /\ d.seq = e.seq => d = e,
         \A e \in A : e.key = k /\ e.seq <= s =>
            \/ e \in B
            \/ \E d \in A : d.key = k /\ d.seq <= s /\ d.seq > e.seq
            \/ e.del /\ \A x \in B : x.key = k => x.seq > e.seq
  PROVE  Same(B, A, k, s)
<1>0. \A e \in A : e.seq \in Nat
  BY VersionsAssumption DEF Entry
<1>1. CASE Newest(A, k, s) = {} /\ \A e \in A : ~(e.key = k /\ e.seq <= s)
  <2>1. Newest(B, k, s) = {}
    BY <1>1 DEF Newest
  <2> QED
    BY <1>1, <2>1 DEF Same
<1>2. ASSUME NEW n \in A, n.key = k, n.seq <= s, Newest(A, k, s) = {n},
             \A e \in A : e.key = k /\ e.seq <= s => e.seq <= n.seq
      PROVE  Same(B, A, k, s)
  <2>1. CASE n \in B
    <3>1. \A e \in B : e.key = k /\ e.seq <= s /\ n.seq <= e.seq => e = n
      BY <1>0, <1>2
    <3>2. Newest(B, k, s) = {n}
      BY <1>2, <2>1, <3>1 DEF Newest
    <3> QED
      BY <1>2, <3>2 DEF Same
  <2>2. CASE n \notin B
    <3>1. ~\E d \in A : d.key = k /\ d.seq <= s /\ d.seq > n.seq
      BY <1>0, <1>2
    <3>2. n.del /\ \A x \in B : x.key = k => x.seq > n.seq
      BY <1>2, <2>2, <3>1
    <3>3. \A x \in B : ~(x.key = k /\ x.seq <= s)
      BY <1>0, <1>2, <3>2
    <3>4. Newest(B, k, s) = {}
      BY <3>3 DEF Newest
    <3>5. Live(Newest(A, k, s)) = {} /\ Live(Newest(B, k, s)) = {}
      BY <1>2, <3>2, <3>4 DEF Live
    <3> QED
      BY <3>5 DEF Same
  <2> QED
    BY <2>1, <2>2
<1> QED
  BY <1>1, <1>2, NewestOne

\* What is written later is seen alike in both.
LEMMA Later ==
  ASSUME NEW A \in SUBSET Entry, NEW B \in SUBSET Entry, NEW X \in SUBSET Entry,
         NEW k, NEW s \in Nat, Same(A, B, k, s),
         \A x \in X : \A e \in A \cup B : x.seq > e.seq
  PROVE  Same(A \cup X, B \cup X, k, s)
<1>0. \A e \in A \cup B \cup X : e.seq \in Nat
  BY VersionsAssumption DEF Entry
<1>1. CASE \E x \in X : x.key = k /\ x.seq <= s
  <2>1. Newest(A \cup X, k, s) = Newest(X, k, s)
    BY <1>0, <1>1 DEF Newest
  <2>2. Newest(B \cup X, k, s) = Newest(X, k, s)
    BY <1>0, <1>1 DEF Newest
  <2> QED
    BY <2>1, <2>2 DEF Same
<1>2. CASE ~\E x \in X : x.key = k /\ x.seq <= s
  <2>1. Newest(A \cup X, k, s) = Newest(A, k, s)
    BY <1>2 DEF Newest
  <2>2. Newest(B \cup X, k, s) = Newest(B, k, s)
    BY <1>2 DEF Newest
  <2> QED
    BY <2>1, <2>2 DEF Same
<1> QED
  BY <1>1, <1>2

\* What is written after a snapshot is not seen.
LEMMA Unseen ==
  ASSUME NEW A \in SUBSET Entry, NEW X \in SUBSET Entry, NEW k, NEW s \in Nat,
         \A x \in X : x.seq > s
  PROVE  Newest(A \cup X, k, s) = Newest(A, k, s)
<1>1. \A x \in X : ~(x.seq <= s)
  BY VersionsAssumption DEF Entry
<1> QED
  BY <1>1 DEF Newest

\* A snapshot at or after n sees of what is not newer than n what n sees.
LEMMA CutOff ==
  ASSUME NEW A \in SUBSET Entry, NEW k, NEW n \in Nat, NEW s \in Nat, n <= s
  PROVE  Newest({e \in A : e.seq <= n}, k, s) = Newest(A, k, n)
<1>1. \A e \in A : e.seq <= n => e.seq <= s
  BY VersionsAssumption DEF Entry
<1> QED
  BY <1>1 DEF Newest

---------------------------------------------------------------------------
(* lookup.                                                                 *)

\* The binary search finds the file that has the key, and takes one of the
\* level's files in any case.
LEMMA SearchedFile ==
  ASSUME NEW F \in SUBSET File, NEW k \in Key, \A f, g \in F : f # g => Apart(f, g)
  PROVE  /\ Searched(F, k) \subseteq UNION F
         /\ \A f \in F : \A e \in f : e.key = k => f \subseteq Searched(F, k)
         /\ \A d \in Searched(F, k) : d.key = k => \E f \in F : d \in f
<1>1. ASSUME NEW f \in F, NEW e \in f, e.key = k PROVE f \subseteq Searched(F, k)
  <2>0. Key \subseteq Int
    BY VersionsAssumption DEF Key
  <2>1. Largest(f) >= k /\ Largest(f) \in Int
    BY <1>1, <2>0, KeysOf
  <2>2. ASSUME NEW g \in F, Largest(g) >= k PROVE Largest(f) <= Largest(g)
    <3>1. CASE g = f
      BY <2>1, <3>1
    <3>2. CASE g # f /\ \A d \in f, y \in g : d.key < y.key
      <4>1. PICK d \in f : d.key = Largest(f)
        BY KeysOf
      <4>2. PICK y \in g : y.key = Largest(g)
        BY KeysOf
      <4>3. d.key < y.key /\ d.key \in Int /\ y.key \in Int
        BY <2>0, <3>2, <4>1, <4>2, KeysOf
      <4> QED
        BY <4>1, <4>2, <4>3
    <3>3. CASE g # f /\ \A d \in f, y \in g : y.key < d.key
      <4>1. PICK y \in g : y.key = Largest(g)
        BY KeysOf
      <4>2. Largest(g) < k
        BY <1>1, <3>3, <4>1
      <4>3. Largest(g) \in Int /\ k \in Int
        BY <2>0, KeysOf
      <4> QED
        BY <2>2, <4>2, <4>3
    <3> QED
      BY <3>1, <3>2, <3>3 DEF Apart
  <2> QED
    BY <2>1, <2>2 DEF Searched
<1>2. Searched(F, k) \subseteq UNION F
  BY DEF Searched
<1> QED
  BY <1>1, <1>2

\* Two sequences, one after the other.
LEMMA Joined ==
  ASSUME NEW S, NEW s \in Seq(S), NEW t \in Seq(S)
  PROVE  /\ s \o t \in Seq(S) /\ Len(s \o t) = Len(s) + Len(t)
         /\ \A i \in 1 .. Len(s) : (s \o t)[i] = s[i]
         /\ \A i \in 1 .. Len(t) : (s \o t)[Len(s) + i] = t[i]
OBVIOUS

\* The sources of a lookup, in their order.
LEMMA SourceAt ==
  ASSUME NEW v \in Version, NEW k
  PROVE  LET s == Sources(v, k)
             n == Len(v.l0)
         IN  /\ n \in Nat /\ DOMAIN s = 1 .. n + Levels + 1
             /\ s[1] = Mem(v.mem) /\ s[2] = Mem(v.imm)
             /\ \A i \in 1 .. n : s[n + 3 - i] = v.l0[i]
             /\ \A l \in Deep : s[n + 2 + l] = Searched(v.deep[l], k)
<1> DEFINE a == <<Mem(v.mem), Mem(v.imm)>>
           b == Reverse(v.l0)
           c == [l \in Deep |-> Searched(v.deep[l], k)]
           n == Len(v.l0)
           R == UNION {{a[i] : i \in 1 .. 2}, {b[i] : i \in 1 .. n}, {c[l] : l \in Deep}}
<1>1. v.l0 \in Seq(File) /\ n \in Nat /\ DOMAIN v.l0 = 1 .. n
  BY Fields
<1>2. b = [i \in 1 .. n |-> v.l0[n - i + 1]]
  BY DEF Reverse
<1>3. Levels \in Nat /\ Levels > 1 /\ Deep = 1 .. Levels - 1
  BY VersionsAssumption DEF Deep
<1>4. a \in Seq(R) /\ Len(a) = 2 /\ a[1] = Mem(v.mem) /\ a[2] = Mem(v.imm)
  OBVIOUS
<1>5. b \in Seq(R) /\ Len(b) = n /\ \A i \in 1 .. n : b[i] = v.l0[n - i + 1]
  <2>1. b = [i \in 1 .. n |-> b[i]] /\ \A i \in 1 .. n : b[i] \in R
    BY <1>2
  <2>2. \A i \in 1 .. n : b[i] = v.l0[n - i + 1]
    BY <1>2
  <2> HIDE DEF b, R
  <2>3. b \in Seq(R) /\ Len(b) = n
    BY <1>1, <2>1, Listed
  <2> QED
    BY <2>2, <2>3
<1>6. c \in Seq(R) /\ Len(c) = Levels - 1 /\ \A l \in Deep : c[l] = Searched(v.deep[l], k)
  BY <1>3
<1>7. Sources(v, k) = (a \o b) \o c
  BY DEF Sources
<1> HIDE DEF a, b, c, R, n
<1>8. /\ a \o b \in Seq(R) /\ Len(a \o b) = 2 + n
      /\ \A i \in 1 .. 2 : (a \o b)[i] = a[i]
      /\ \A i \in 1 .. n : (a \o b)[2 + i] = b[i]
  <2>1. a \in Seq(R) /\ b \in Seq(R)
    BY <1>4, <1>5
  <2>2. /\ a \o b \in Seq(R) /\ Len(a \o b) = Len(a) + Len(b)
        /\ \A i \in 1 .. Len(a) : (a \o b)[i] = a[i]
        /\ \A i \in 1 .. Len(b) : (a \o b)[Len(a) + i] = b[i]
    BY <2>1, Joined
  <2> QED
    BY <2>2, <1>4, <1>5
<1>d. PICK d : d = a \o b
  OBVIOUS
<1>9. /\ d \o c \in Seq(R) /\ Len(d \o c) = (2 + n) + (Levels - 1)
      /\ \A i \in 1 .. 2 + n : (d \o c)[i] = d[i]
      /\ \A l \in 1 .. Levels - 1 : (d \o c)[(2 + n) + l] = c[l]
  <2>1. d \in Seq(R) /\ Len(d) = 2 + n
    BY <1>8, <1>d
  <2>2. d \in Seq(R) /\ c \in Seq(R)
    BY <2>1, <1>6
  <2>3. /\ d \o c \in Seq(R) /\ Len(d \o c) = Len(d) + Len(c)
        /\ \A i \in 1 .. Len(d) : (d \o c)[i] = d[i]
        /\ \A i \in 1 .. Len(c) : (d \o c)[Len(d) + i] = c[i]
    BY <2>2, Joined
  <2> QED
    BY <2>1, <2>3, <1>6
<1> DEFINE s == Sources(v, k)
<1>10. s = d \o c
  BY <1>7, <1>d
<1> HIDE DEF s
<1>11. DOMAIN s = 1 .. n + Levels + 1
  <2>1. n \in Nat /\ (2 + n) + (Levels - 1) = n + Levels + 1
    BY <1>1, <1>3 DEF n
  <2>2. DOMAIN s = 1 .. Len(s) /\ Len(s) = (2 + n) + (Levels - 1)
    BY <1>9, <1>10
  <2> QED
    BY <2>1, <2>2
<1>12. s[1] = Mem(v.mem) /\ s[2] = Mem(v.imm)
  <2>1. 1 \in 1 .. 2 + n /\ 2 \in 1 .. 2 + n
    BY <1>1 DEF n
  <2>2. d[1] = a[1] /\ d[2] = a[2]
    <3>1. \A i \in 1 .. 2 : d[i] = a[i]
      BY <1>8, <1>d, Zenon
    <3> QED
      BY <3>1
  <2>3. s[1] = d[1] /\ s[2] = d[2]
    <3>1. \A i \in 1 .. 2 + n : s[i] = d[i]
      BY <1>9, <1>10, Zenon
    <3> QED
      BY <2>1, <3>1, Zenon
  <2> QED
    BY <2>2, <2>3, <1>4
<1>13. ASSUME NEW i \in 1 .. n PROVE s[n + 3 - i] = v.l0[i]
  <2>0. n \in Nat
    BY <1>1 DEF n
  <2>1. PICK j \in 1 .. n : j = n + 1 - i
    BY <2>0
  <2>2. n + 3 - i = 2 + j /\ 2 + j \in 1 .. 2 + n /\ n - j + 1 = i
    BY <2>0, <2>1
  <2>3. s[2 + j] = d[2 + j] /\ d[2 + j] = b[j]
    BY <2>2, <1>8, <1>9, <1>10, <1>d
  <2> QED
    BY <2>2, <2>3, <1>5
<1>14. ASSUME NEW l \in Deep PROVE s[n + 2 + l] = Searched(v.deep[l], k)
  <2>1. n + 2 + l = (2 + n) + l
    BY <1>1, <1>3 DEF n
  <2>2. s[(2 + n) + l] = c[l]
    BY <1>3, <1>9, <1>10
  <2> QED
    BY <2>1, <2>2, <1>6
<1>15. n \in Nat
  BY <1>1 DEF n
<1> QED
  BY <1>11, <1>12, <1>13, <1>14, <1>15 DEF n, s

\* A source is a memtable, a file of level 0 or what was found in a level.
LEMMA SourceCases ==
  ASSUME NEW v \in Version, NEW k, NEW i \in DOMAIN Sources(v, k)
  PROVE  LET n == Len(v.l0)
             s == Sources(v, k)
         IN  \/ i = 1 /\ s[i] = Mem(v.mem)
             \/ i = 2 /\ s[i] = Mem(v.imm)
             \/ \E j \in DOMAIN v.l0 : i = n + 3 - j /\ s[i] = v.l0[j]
             \/ \E l \in Deep : i = n + 2 + l /\ s[i] = Searched(v.deep[l], k)
<1> DEFINE n == Len(v.l0)
           s == Sources(v, k)
<1>1. /\ n \in Nat /\ i \in 1 .. n + Levels + 1
      /\ s[1] = Mem(v.mem) /\ s[2] = Mem(v.imm)
      /\ \A j \in 1 .. n : s[n + 3 - j] = v.l0[j]
      /\ \A l \in Deep : s[n + 2 + l] = Searched(v.deep[l], k)
  BY SourceAt
<1>2. Levels \in Nat /\ Levels > 1 /\ Deep = 1 .. Levels - 1
  BY VersionsAssumption DEF Deep
<1>3. DOMAIN v.l0 = 1 .. n
  BY Fields
<1> HIDE DEF n, s
<1>4. CASE i \in 3 .. 2 + n
  <2>1. PICK j \in 1 .. n : j = n + 3 - i /\ n + 3 - j = i
    BY <1>1, <1>4
  <2>2. s[n + 3 - j] = v.l0[j]
    BY <1>1
  <2>3. i = n + 3 - j /\ s[i] = v.l0[j] /\ j \in DOMAIN v.l0
    BY <1>3, <2>1, <2>2
  <2> QED
    BY <2>3 DEF n, s
<1>5. CASE i \in 3 + n .. n + Levels + 1
  <2>1. i - n - 2 \in Deep /\ n + 2 + (i - n - 2) = i
    BY <1>1, <1>2, <1>5
  <2> QED
    BY <1>1, <2>1 DEF n, s
<1>6. i = 1 \/ i = 2 \/ i \in 3 .. 2 + n \/ i \in 3 + n .. n + Levels + 1
  BY <1>1, <1>2
<1> QED
  BY <1>1, <1>4, <1>5, <1>6 DEF n, s

\* What every source of a version is made of.
LEMMA MemSub ==
  ASSUME Types, NEW v \in Version
  PROVE  /\ Mem(v.mem) \in SUBSET Entry /\ Mem(v.imm) \in SUBSET Entry
         /\ All(v) \in SUBSET Entry
<1>1. v.mem \in MemIds /\ v.imm \in {0} \cup MemIds /\ Files(v) \subseteq File
  BY Fields
<1>2. Mem(v.mem) \in SUBSET Entry /\ Mem(v.imm) \in SUBSET Entry
  BY <1>1 DEF Mem, Types
<1>3. UNION Files(v) \subseteq Entry
  BY <1>1 DEF File
<1> QED
  BY <1>2, <1>3 DEF All, Contents

\* Of one key, a source is newer than the sources after it.
LEMMA SourcesInOrder ==
  ASSUME Types, NEW v \in Version, Layers(v), NEW k \in Key,
         NEW i \in DOMAIN Sources(v, k), NEW j \in DOMAIN Sources(v, k), i < j
  PROVE  Newer(Sources(v, k)[i], Sources(v, k)[j])
<1> DEFINE n == Len(v.l0)
           s == Sources(v, k)
<1>0. n \in Nat /\ v.l0 \in Seq(File) /\ DOMAIN v.l0 = 1 .. n /\ v.deep \in [Deep -> SUBSET File]
  BY Fields
<1>1. \A a \in DOMAIN v.l0 : v.l0[a] \in Files(v)
  BY <1>0 DEF Files, ToSet
<1>2. \A l \in Deep : \A f \in v.deep[l] : f \in Files(v)
  BY DEF Files
<1>3. \A l \in Deep : Searched(v.deep[l], k) \subseteq UNION v.deep[l]
  BY DEF Searched
<1>4. Stack(Mem(v.mem), Mem(v.imm), v)
  BY DEF Layers
<1>5. Deep \subseteq Nat \ {0}
  BY VersionsAssumption DEF Deep
<1>6. ASSUME NEW A, NEW l \in Deep, \A f \in v.deep[l] : Newer(A, f)
      PROVE  Newer(A, Searched(v.deep[l], k))
  BY <1>3, <1>6 DEF Newer
<1>7. \/ i = 1 /\ s[i] = Mem(v.mem)
      \/ i = 2 /\ s[i] = Mem(v.imm)
      \/ \E a \in DOMAIN v.l0 : i = n + 3 - a /\ s[i] = v.l0[a]
      \/ \E l \in Deep : i = n + 2 + l /\ s[i] = Searched(v.deep[l], k)
  BY SourceCases
<1>8. \/ j = 1 /\ s[j] = Mem(v.mem)
      \/ j = 2 /\ s[j] = Mem(v.imm)
      \/ \E b \in DOMAIN v.l0 : j = n + 3 - b /\ s[j] = v.l0[b]
      \/ \E m \in Deep : j = n + 2 + m /\ s[j] = Searched(v.deep[m], k)
  BY SourceCases
<1> HIDE DEF n, s
<1>9. CASE j = 1 /\ s[j] = Mem(v.mem)
  <2>1. i \notin {1, 2}
    BY <1>9
  <2> QED
    BY <1>0, <1>5, <1>7, <1>9
<1>10. CASE j = 2 /\ s[j] = Mem(v.imm)
  <2>1. i = 1 /\ s[i] = Mem(v.mem)
    BY <1>0, <1>5, <1>7, <1>10
  <2> QED
    BY <1>4, <1>10, <2>1 DEF Stack, s
<1>11. ASSUME NEW b \in DOMAIN v.l0, j = n + 3 - b, s[j] = v.l0[b] PROVE Newer(s[i], s[j])
  <2>1. CASE i \in {1, 2} /\ s[i] \in {Mem(v.mem), Mem(v.imm)}
    BY <1>1, <1>4, <1>11, <2>1 DEF Stack
  <2>2. ASSUME NEW a \in DOMAIN v.l0, i = n + 3 - a, s[i] = v.l0[a] PROVE Newer(s[i], s[j])
    <3>1. b < a
      BY <1>0, <1>11, <2>2
    <3> QED
      BY <1>4, <1>11, <2>2, <3>1 DEF Stack
  <2>3. ASSUME NEW l \in Deep, i = n + 2 + l PROVE FALSE
    BY <1>0, <1>5, <1>11, <2>3
  <2> QED
    BY <1>7, <2>1, <2>2, <2>3
<1>12. ASSUME NEW m \in Deep, j = n + 2 + m, s[j] = Searched(v.deep[m], k)
       PROVE  Newer(s[i], s[j])
  <2>1. CASE i \in {1, 2} /\ s[i] \in {Mem(v.mem), Mem(v.imm)}
    <3>1. \A f \in v.deep[m] : Newer(s[i], f)
      BY <1>2, <1>4, <2>1 DEF Stack
    <3> QED
      BY <1>6, <1>12, <3>1
  <2>2. ASSUME NEW a \in DOMAIN v.l0, i = n + 3 - a, s[i] = v.l0[a] PROVE Newer(s[i], s[j])
    <3>1. \A f \in v.deep[m] : Newer(s[i], f)
      BY <1>4, <2>2 DEF Stack
    <3> QED
      BY <1>6, <1>12, <3>1
  <2>3. ASSUME NEW l \in Deep, i = n + 2 + l, s[i] = Searched(v.deep[l], k)
        PROVE  Newer(s[i], s[j])
    <3>1. l < m
      BY <1>0, <1>5, <1>12, <2>3
    <3>2. \A f \in v.deep[l], g \in v.deep[m] : Newer(f, g)
      BY <1>4, <3>1 DEF Stack
    <3> QED
      BY <1>3, <1>12, <2>3, <3>2 DEF Newer
  <2> QED
    BY <1>7, <2>1, <2>2, <2>3
<1> QED
  BY <1>8, <1>9, <1>10, <1>11, <1>12 DEF s

\* What the sources have of a key is what the version has of it.
LEMMA SourcesComplete ==
  ASSUME Types, NEW v \in Version, Layers(v), NEW k \in Key, NEW e, e.key = k
  PROVE  e \in All(v) <=> \E i \in DOMAIN Sources(v, k) : e \in Sources(v, k)[i]
<1> DEFINE n == Len(v.l0)
           s == Sources(v, k)
<1>0. n \in Nat /\ v.l0 \in Seq(File) /\ DOMAIN v.l0 = 1 .. n /\ v.deep \in [Deep -> SUBSET File]
  BY Fields
<1>1. /\ DOMAIN s = 1 .. n + Levels + 1
      /\ s[1] = Mem(v.mem) /\ s[2] = Mem(v.imm)
      /\ \A a \in 1 .. n : s[n + 3 - a] = v.l0[a]
      /\ \A l \in Deep : s[n + 2 + l] = Searched(v.deep[l], k)
  BY SourceAt
<1>2. Levels \in Nat /\ Levels > 1 /\ Deep = 1 .. Levels - 1
  BY VersionsAssumption DEF Deep
<1>3. \A l \in Deep : /\ Searched(v.deep[l], k) \subseteq UNION v.deep[l]
                      /\ \A f \in v.deep[l] : e \in f => e \in Searched(v.deep[l], k)
  <2> TAKE l \in Deep
  <2>1. v.deep[l] \in SUBSET File /\ \A f, g \in v.deep[l] : f # g => Apart(f, g)
    BY <1>0 DEF Layers, Stack
  <2> QED
    BY <2>1, SearchedFile
<1>4. ASSUME NEW i \in DOMAIN s, e \in s[i] PROVE e \in All(v)
  <2>1. \/ i = 1 /\ s[i] = Mem(v.mem)
        \/ i = 2 /\ s[i] = Mem(v.imm)
        \/ \E a \in DOMAIN v.l0 : i = n + 3 - a /\ s[i] = v.l0[a]
        \/ \E l \in Deep : i = n + 2 + l /\ s[i] = Searched(v.deep[l], k)
    BY SourceCases
  <2> HIDE DEF n, s
  <2>2. ASSUME NEW a \in DOMAIN v.l0, s[i] = v.l0[a] PROVE e \in All(v)
    BY <1>4, <2>2 DEF All, Contents, Files, ToSet
  <2>3. ASSUME NEW l \in Deep, s[i] = Searched(v.deep[l], k) PROVE e \in All(v)
    <3>1. PICK f \in v.deep[l] : e \in f
      BY <1>3, <1>4, <2>3
    <3> QED
      BY <3>1 DEF All, Contents, Files
  <2> QED
    BY <1>4, <2>1, <2>2, <2>3 DEF All, Contents
<1>5. ASSUME e \in All(v) PROVE \E i \in DOMAIN s : e \in s[i]
  <2>1. CASE e \in Mem(v.mem) \/ e \in Mem(v.imm)
    <3>1. 1 \in DOMAIN s /\ 2 \in DOMAIN s
      BY <1>0, <1>1, <1>2
    <3> QED
      BY <1>1, <2>1, <3>1
  <2>2. ASSUME NEW a \in DOMAIN v.l0, e \in v.l0[a] PROVE \E i \in DOMAIN s : e \in s[i]
    <3>1. n + 3 - a \in DOMAIN s
      BY <1>0, <1>1, <1>2
    <3>2. s[n + 3 - a] = v.l0[a]
      BY <1>0, <1>1
    <3> QED
      BY <2>2, <3>1, <3>2
  <2>3. ASSUME NEW l \in Deep, NEW f \in v.deep[l], e \in f PROVE \E i \in DOMAIN s : e \in s[i]
    <3>1. n + 2 + l \in DOMAIN s
      BY <1>0, <1>1, <1>2
    <3>2. s[n + 2 + l] = Searched(v.deep[l], k)
      BY <1>1
    <3> QED
      BY <1>3, <2>3, <3>1, <3>2
  <2>4. \A f \in Files(v) : (\E a \in DOMAIN v.l0 : f = v.l0[a]) \/ \E l \in Deep : f \in v.deep[l]
    BY DEF Files, ToSet
  <2>5. e \in Mem(v.mem) \/ e \in Mem(v.imm) \/ \E f \in Files(v) : e \in f
    BY <1>5 DEF All, Contents
  <2> HIDE DEF n, s
  <2> QED
    BY <2>1, <2>2, <2>3, <2>4, <2>5
<1> QED
  BY <1>4, <1>5

\* A point lookup and a cursor read the newest version there is.
LEMMA LookupScan ==
  ASSUME Types, NEW v \in Version, Layers(v), NEW k \in Key, NEW snap \in Nat
  PROVE  /\ Lookup(v, k, snap) = Live(Newest(All(v), k, snap))
         /\ Scan(v, k, snap) = Live(Newest(All(v), k, snap))
<1> DEFINE s  == Sources(v, k)
           at == {i \in DOMAIN s : \E e \in s[i] : e.key = k /\ e.seq <= snap}
<1>1. Scan(v, k, snap) = Live(Newest(All(v), k, snap))
  BY DEF Scan, All, Contents
<1>2. DOMAIN s \subseteq Nat
  <2>1. DOMAIN s = 1 .. Len(v.l0) + Levels + 1
    BY SourceAt
  <2> QED
    BY <2>1
<1>3. \A e \in All(v) : e.seq \in Int
  BY MemSub, VersionsAssumption DEF Entry
<1>4. \A e : e.key = k => (e \in All(v) <=> \E i \in DOMAIN s : e \in s[i])
  BY SourcesComplete
<1>5. \A i, j \in DOMAIN s : i < j => Newer(s[i], s[j])
  BY SourcesInOrder
<1>6. Lookup(v, k, snap) = IF at = {} THEN {} ELSE Live(Newest(s[Min(at)], k, snap))
  BY DEF Lookup
<1> HIDE DEF s
<1>7. CASE at = {}
  <2>1. Newest(All(v), k, snap) = {}
    BY <1>4, <1>7 DEF Newest
  <2> QED
    BY <1>1, <1>6, <1>7, <2>1 DEF Live
<1>8. CASE at # {}
  <2>1. Min(at) \in at /\ \A j \in at : Min(at) <= j
    BY <1>2, <1>8, LeastElement DEF Min
  <2>2. PICK m : m = Min(at)
    OBVIOUS
  <2>3. m \in DOMAIN s /\ (\E e \in s[m] : e.key = k /\ e.seq <= snap) /\ \A j \in at : m <= j
    BY <2>1, <2>2
  <2>4. \A e \in s[m] : e.key = k => e \in All(v)
    BY <1>4, <2>3
  <2>5. \A e \in All(v) : e.key = k /\ e.seq <= snap =>
          \/ e \in s[m]
          \/ \A d \in s[m] : d.key = k => d.seq > e.seq
    <3> TAKE e \in All(v)
    <3> HAVE e.key = k /\ e.seq <= snap
    <3>1. PICK j \in DOMAIN s : e \in s[j]
      BY <1>4
    <3>2. j \in at
      BY <3>1
    <3>3. j = m \/ m < j
      BY <1>2, <2>3, <3>2
    <3> QED
      BY <1>5, <2>3, <3>1, <3>3 DEF Newer
  <2>6. Newest(s[m], k, snap) = Newest(All(v), k, snap)
    <3>1. ASSUME NEW x \in Newest(All(v), k, snap) PROVE x \in Newest(s[m], k, snap)
      <4>1. PICK d \in s[m] : d.key = k /\ d.seq <= snap
        BY <2>3
      <4>2. x \in All(v) /\ x.key = k /\ x.seq <= snap /\ d.seq <= x.seq
        BY <2>4, <4>1 DEF Newest
      <4>3. x \in s[m]
        BY <1>3, <2>4, <2>5, <4>1, <4>2
      <4> QED
        BY <2>4, <4>2, <4>3 DEF Newest
    <3>2. ASSUME NEW x \in Newest(s[m], k, snap) PROVE x \in Newest(All(v), k, snap)
      <4>1. /\ x \in s[m] /\ x.key = k /\ x.seq <= snap /\ x \in All(v)
            /\ \A d \in s[m] : d.key = k /\ d.seq <= snap => d.seq <= x.seq
        BY <2>4 DEF Newest
      <4>2. \A d \in All(v) : d.key = k /\ d.seq <= snap => d.seq <= x.seq
        BY <1>3, <2>5, <4>1
      <4> QED
        BY <4>1, <4>2 DEF Newest
    <3> QED
      BY <3>1, <3>2
  <2> QED
    BY <1>1, <1>6, <1>8, <2>2, <2>6
<1> QED
  BY <1>7, <1>8

---------------------------------------------------------------------------
(* What the invariant says of the reads.                                   *)

\* The invariant is what the runs check.
LEMMA InvHolds ==
  ASSUME IInv
  PROVE  TypeOK /\ SnapshotReads /\ FilesDurable /\ Layered
<1>1. TypeOK
  <2>1. \A v \in {cur} \cup {r.v : r \in readers} : v \in Version
    BY DEF IInv, Types, Reader
  <2>2. DOMAIN mems = MemIds /\ mems \in Seq(SUBSET Entry)
    <3>1. 2 + 2 * MaxReaders \in Nat
      BY VersionsAssumption
    <3> QED
      BY <3>1 DEF IInv, Types, MemIds
  <2>3. \A v \in {cur} \cup {r.v : r \in readers} :
          v.mem \in DOMAIN mems /\ v.imm \in {0} \cup DOMAIN mems /\ Files(v) \subseteq File
    BY <2>1, <2>2, Fields
  <2>4. \A r \in readers : r.snap \in 0 .. durable
    BY VersionsAssumption DEF IInv, Types, Reader
  <2>5. comp # None => comp.in \subseteq Files(cur) /\ comp.rest # {}
    BY DEF IInv, Inputs
  <2> QED
    BY <2>2, <2>3, <2>4, <2>5 DEF TypeOK, IInv, Types, Memory
<1>2. SnapshotReads
  <2>1. ASSUME NEW t \in Serve, NEW k \in Key, ~Gone(TreeOf[k], t.snap)
        PROVE  /\ Lookup(t.v, k, t.snap) = Live(Newest(hist, k, t.snap))
               /\ Scan(t.v, k, t.snap) = Live(Newest(hist, k, t.snap))
    <3>1. t.v \in Version /\ Layers(t.v) /\ t.snap \in Nat
          /\ Same(All(t.v), hist, k, t.snap)
      <4>1. CASE t \in readers
        BY <2>1, <4>1 DEF IInv, Types, Reader, Truth
      <4>2. CASE t.v = cur /\ t.snap \in {durable, last}
        <5>1. durable \in durable .. last /\ last \in durable .. last /\ durable \in Nat /\ last \in Nat
          BY VersionsAssumption DEF IInv, Types
        <5> QED
          BY <2>1, <4>2, <5>1 DEF IInv, Types, Truth
      <4> QED
        BY <4>1, <4>2 DEF Serve
    <3> QED
      BY <3>1, LookupScan DEF Same, IInv
  <2> QED
    BY <2>1 DEF SnapshotReads
<1>3. Layered
  <2>1. \A l \in Deep : \A f, g \in cur.deep[l] : f # g => ~Overlap(f, g)
    <3> TAKE l \in Deep
    <3> TAKE f, g \in cur.deep[l]
    <3> HAVE f # g
    <3>1. Apart(f, g)
      BY DEF IInv, Layers, Stack
    <3>2. f \in File /\ g \in File
      BY Fields DEF IInv, Types
    <3> QED
      BY <3>1, <3>2, OverlapApart
  <2>2. ASSUME NEW k \in Key, NEW i \in DOMAIN Sources(cur, k), NEW d \in Sources(cur, k)[i], d.key = k,
               NEW j \in i + 1 .. Len(Sources(cur, k)), NEW e \in Sources(cur, k)[j], e.key = k
        PROVE  d.seq > e.seq
    <3>1. DOMAIN Sources(cur, k) = 1 .. Len(cur.l0) + Levels + 1 /\ Len(cur.l0) \in Nat
      BY SourceAt DEF IInv, Types
    <3>2. Levels \in Nat
      BY VersionsAssumption
    <3>3. Len(Sources(cur, k)) = Len(cur.l0) + Levels + 1
      BY <3>1, <3>2 DEF Sources
    <3>4. j \in DOMAIN Sources(cur, k) /\ i < j
      BY <3>1, <3>2, <3>3
    <3>5. Newer(Sources(cur, k)[i], Sources(cur, k)[j])
      BY <3>4, SourcesInOrder DEF IInv, Types
    <3> QED
      BY <2>2, <3>5 DEF Newer
  <2> QED
    BY <2>1, <2>2 DEF Layered
<1> QED
  BY <1>1, <1>2, <1>3 DEF IInv

---------------------------------------------------------------------------
(* What the steps do to the version.                                       *)

\* What flush_install puts in level 0.
OneFile(out) == IF out = {} THEN <<>> ELSE <<out>>

\* Runs installs the runs at the end of level 0.
LEMMA RunsEffect ==
  ASSUME Types, NEW runs \in Spills, Spilled(runs)
  PROVE  /\ cur' = Grown(cur, cur.imm, RunFiles(runs))
         /\ hist' = hist \cup UNION ToSet(RunFiles(runs))
         /\ last' = last + Len(runs) /\ durable' = last'
         /\ last + Len(runs) <= MaxSeq
         /\ \A i \in 1 .. Len(runs) : RunFiles(runs)[i] = RunFile(runs, i)
         /\ dead' \in [Tree -> 0 .. last'] /\ sweep' \in BOOLEAN
         /\ \A x \in Tree : \/ dead'[x] = dead[x]
                            \/ dead[x] = 0 /\ dead'[x] = last' /\ last < last'
<1>1. cur' = [cur EXCEPT !.l0 = @ \o RunFiles(runs)]
  BY DEF Spilled, Runs, RunFiles, RunFile
<1>2. cur' = Grown(cur, cur.imm, RunFiles(runs))
  BY <1>1 DEF Grown, Types, Version
<1>3. hist' = hist \cup UNION {RunFile(runs, i) : i \in 1 .. Len(runs)}
  BY DEF Spilled, Runs, RunFile
<1>4. ToSet(RunFiles(runs)) = {RunFile(runs, i) : i \in 1 .. Len(runs)}
  BY DEF ToSet, RunFiles
<1>5. PICK trees \in SUBSET Tree : Runs(runs, trees)
  BY DEF Spilled
<1>6. /\ last \in Nat /\ Len(runs) \in Nat /\ last' = last + Len(runs)
      /\ dead \in [Tree -> 0 .. last] /\ sweep \in BOOLEAN
  BY <1>5, RunFilesType, VersionsAssumption DEF Runs, Types
<1>7. trees # {} => last < last'
  <2>1. trees # {} => \E i \in DOMAIN runs : TRUE
    BY <1>5 DEF Runs, DropsTree
  <2>2. runs \in Seq(UNION {[K -> BOOLEAN] : K \in (SUBSET (0 .. MaxKey)) \ {{}}})
    BY VersionsAssumption
  <2>3. DOMAIN runs = 1 .. Len(runs)
    BY <2>2
  <2> QED
    BY <1>6, <2>1, <2>3
<1>8. dead' = [t \in Tree |-> IF t \in trees THEN last' ELSE dead[t]]
  BY <1>5, <1>6 DEF Runs
<1>9. \A x \in Tree : \/ dead'[x] = dead[x]
                      \/ dead[x] = 0 /\ dead'[x] = last' /\ last < last'
  BY <1>5, <1>7, <1>8 DEF Runs
<1>10. dead' \in [Tree -> 0 .. last']
  <2>1. \A x \in Tree : dead'[x] \in 0 .. last'
    BY <1>6, <1>8
  <2> QED
    BY <1>8, <2>1
<1>11. sweep' \in BOOLEAN
  BY <1>5, <1>6 DEF Runs
<1> QED
  BY <1>2, <1>3, <1>4, <1>9, <1>10, <1>11 DEF Spilled, Runs, RunFiles

\* A flush goes on from key to key, or ends.
LEMMA FlushEffect ==
  ASSUME Types, Memory, FlushStep, fl # None
  PROVE  /\ FlushOut(fl.at) = fl.out
         /\ \/ /\ cur' = cur
               /\ \E n \in Key : fl' = [at |-> n + 1, upto |-> fl.upto, out |-> FlushOut(n + 1)]
            \/ /\ fl' = None
               /\ cur' = Grown(cur, 0, OneFile(UNION {Flushed(k) : k \in Frozen}))
<1>0. Key \subseteq Nat
  BY VersionsAssumption DEF Key
<1>1. Frozen \subseteq Key
  BY DEF Frozen, Mem, Types, Version, Entry
<1>2. PICK n \in Frozen : n >= fl.at /\ FlushTo(n)
  BY DEF FlushStep
<1>3. fl \in Flushing /\ fl.out = FlushOut(fl.at)
  BY DEF Types, Memory
<1> DEFINE out == fl.out \cup UNION {Flushed(k) : k \in Frozen \cap fl.at .. n}
<1>4. out = FlushOut(n + 1)
  <2>1. fl.at \in Nat /\ n \in Nat
    BY <1>0, <1>1, <1>3 DEF Flushing
  <2>2. \A k \in Frozen : k < n + 1 <=> k < fl.at \/ k \in fl.at .. n
    BY <1>0, <1>1, <1>2, <2>1
  <2>3. {k \in Frozen : k < n + 1} = {k \in Frozen : k < fl.at} \cup (Frozen \cap fl.at .. n)
    BY <2>2
  <2> QED
    BY <1>3, <2>3 DEF FlushOut
<1>5. CASE \E k \in Frozen : k > n
  <2>1. fl' = [fl EXCEPT !.at = n + 1, !.out = out] /\ cur' = cur
    BY <1>2, <1>5 DEF FlushTo
  <2>2. fl' = [at |-> n + 1, upto |-> fl.upto, out |-> out]
    BY <1>3, <2>1 DEF Flushing
  <2> QED
    BY <1>1, <1>3, <1>4, <2>1, <2>2
<1>6. CASE ~\E k \in Frozen : k > n
  <2>1. fl' = None /\ cur' = [cur EXCEPT !.imm = 0, !.l0 = IF out = {} THEN @ ELSE Append(@, out)]
    BY <1>2, <1>6 DEF FlushTo
  <2>2. \A k \in Frozen : k < n + 1
    BY <1>0, <1>1, <1>6
  <2>3. {k \in Frozen : k < n + 1} = Frozen
    BY <2>2
  <2>4. out = UNION {Flushed(k) : k \in Frozen}
    BY <1>4, <2>3 DEF FlushOut
  <2> HIDE DEF out
  <2>5. (IF out = {} THEN cur.l0 ELSE Append(cur.l0, out)) = cur.l0 \o OneFile(out)
    <3>1. cur.l0 \in Seq(File)
      BY DEF Types, Version
    <3>2. cur.l0 \o <<>> = cur.l0 /\ cur.l0 \o <<out>> = Append(cur.l0, out)
      BY <3>1
    <3> QED
      BY <3>2 DEF OneFile
  <2>6. cur' = Grown(cur, 0, OneFile(out))
    BY <2>1, <2>5 DEF Grown, Types, Version
  <2> QED
    BY <1>3, <2>1, <2>4, <2>6
<1> QED
  BY <1>5, <1>6

\* What a flush writes is in the frozen memtable.
LEMMA FlushedSub ==
  ASSUME Types
  PROVE  /\ \A k \in Frozen : Flushed(k) \subseteq Mem(cur.imm)
         /\ \A n : FlushOut(n) \subseteq Mem(cur.imm)
         /\ UNION {Flushed(k) : k \in Frozen} \subseteq Mem(cur.imm)
         /\ Mem(cur.imm) \in SUBSET Entry
<1>1. \A k \in Frozen : Flushed(k) \subseteq Mem(cur.imm)
  BY DEF Flushed, Newest
<1>2. Mem(cur.imm) \in SUBSET Entry
  BY MemSub DEF Types
<1> QED
  BY <1>1, <1>2 DEF FlushOut

\* The file of a flush is a file.
LEMMA OneFileType ==
  ASSUME NEW out \in SUBSET Entry
  PROVE  /\ OneFile(out) \in Seq(File)
         /\ \A i \in DOMAIN OneFile(out) : OneFile(out)[i] = out
         /\ ToSet(OneFile(out)) = IF out = {} THEN {} ELSE {out}
         /\ UNION ToSet(OneFile(out)) = out
<1>1. CASE out = {}
  <2>1. OneFile(out) = <<>>
    BY <1>1 DEF OneFile
  <2>2. \A i : i \notin DOMAIN <<>>
    OBVIOUS
  <2>3. ToSet(OneFile(out)) = {}
    BY <2>1, <2>2 DEF ToSet
  <2>4. OneFile(out) \in Seq(File)
    BY <2>1
  <2>5. \A i \in DOMAIN OneFile(out) : OneFile(out)[i] = out
    BY <2>1, <2>2
  <2>6. UNION ToSet(OneFile(out)) = out
    BY <1>1, <2>3
  <2> QED
    BY <1>1, <2>3, <2>4, <2>5, <2>6
<1>2. CASE out # {}
  <2>1. OneFile(out) = <<out>> /\ out \in File
    BY <1>2 DEF OneFile, File
  <2>2. ToSet(<<out>>) = {out}
    BY DEF ToSet
  <2> QED
    BY <1>2, <2>1, <2>2
<1> QED
  BY <1>1, <1>2

\* Freeze begins a flush of the memtable in a new version.
LEMMA FreezeEffect ==
  ASSUME Types, Slots, Memory, Freeze, ~UNCHANGED <<cur, durable, fl>>
  PROVE  /\ fl = None /\ cur.imm = 0 /\ Mem(cur.mem) # {}
         /\ durable' = last /\ fl' = [at |-> 0, upto |-> last, out |-> {}]
         /\ cur' \in Version
         /\ cur'.mem \in MemIds /\ cur'.mem \notin Held(cur, readers)
         /\ cur'.imm = cur.mem /\ cur'.l0 = cur.l0 /\ cur'.deep = cur.deep
         /\ Files(cur') = Files(cur) /\ mems[cur'.mem] = {}
<1> DEFINE m == Min(DOMAIN mems \ Held(cur, readers))
<1>1. fl = None /\ Mem(cur.mem) # {}
  BY DEF Freeze
<1>2. cur.imm = 0
  BY <1>1 DEF Memory
<1>3. m \in MemIds /\ m \notin Held(cur, readers)
  BY <1>2, FreshMemtable
<1>4. /\ durable' = last /\ cur' = [cur EXCEPT !.imm = cur.mem, !.mem = m]
      /\ fl' = [at |-> 0, upto |-> last, out |-> {}]
  BY <1>1 DEF Freeze, FrozenDurable
<1> HIDE DEF m
<1>5. cur.mem \in MemIds
  BY DEF Types, Version
<1>6. cur' \in Version
  BY <1>3, <1>4, <1>5 DEF Types, Version
<1>7. cur'.mem = m /\ cur'.imm = cur.mem /\ cur'.l0 = cur.l0 /\ cur'.deep = cur.deep
  BY <1>4 DEF Types, Version
<1>8. mems[m] = {}
  BY <1>3 DEF Memory
<1> QED
  BY <1>1, <1>2, <1>3, <1>4, <1>6, <1>7, <1>8 DEF Files

\* The files a compaction of level 0 moves as they are, and those it is for.
Alone0 == {cur.l0[i] : i \in {i \in DOMAIN cur.l0 : L0Alone(i)}}
Below0 == {f \in cur.deep[1] : Overlap(f, UNION ToSet(cur.l0))}
Below(l, f) == {g \in cur.deep[l + 1] : Overlap(f, g)}

\* A compaction begins with files moved down as they are, or with its inputs.
LEMMA StartEffect ==
  ASSUME Types, CompStart
  PROVE  /\ comp = None
         /\ \/ cur' = Added(Without(cur, Alone0), 1, Alone0) /\ comp' = None
            \/ /\ cur' = cur /\ Alone0 = {} /\ cur.l0 # <<>>
               /\ comp' = Compaction(0, 1, ToSet(cur.l0), Below0)
            \/ \E l \in Deep \ {Levels - 1} : \E f \in cur.deep[l] :
                 \/ /\ Below(l, f) = {} /\ comp' = None
                    /\ cur' = Added(Without(cur, {f}), l + 1, {f})
                 \/ cur' = cur /\ comp' = Compaction(l, l + 1, {f}, Below(l, f))
            \/ \E l \in Deep : \E f \in cur.deep[l] :
                 cur' = cur /\ comp' = Compaction(l, l, {f}, {})
<1>1. comp = None
  BY DEF CompStart
<1>2. ASSUME Start0, cur.l0 # <<>>
      PROVE  \/ cur' = Added(Without(cur, Alone0), 1, Alone0) /\ comp' = None
             \/ /\ cur' = cur /\ Alone0 = {} /\ cur.l0 # <<>>
                /\ comp' = Compaction(0, 1, ToSet(cur.l0), Below0)
  BY <1>1, <1>2 DEF Start0, Alone0, Below0
<1>3. Wanted0 => cur.l0 # <<>>
  BY VersionsAssumption DEF Wanted0
<1>4. ASSUME NEW l \in Deep \ {Levels - 1}, NEW f \in cur.deep[l], StartOf(l, f)
      PROVE  \/ /\ Below(l, f) = {} /\ comp' = None
                /\ cur' = Added(Without(cur, {f}), l + 1, {f})
             \/ cur' = cur /\ comp' = Compaction(l, l + 1, {f}, Below(l, f))
  BY <1>1, <1>4 DEF StartOf, Below
<1> QED
  BY <1>1, <1>2, <1>3, <1>4 DEF CompStart, GcStart

\* The types of the inputs.
LEMMA InputsType ==
  ASSUME Types
  PROVE  /\ Alone0 \in SUBSET File /\ Alone0 \subseteq ToSet(cur.l0)
         /\ ToSet(cur.l0) \in SUBSET File /\ Below0 \in SUBSET File
         /\ \A l \in Deep \ {Levels - 1} : l + 1 \in Deep /\ l < l + 1
              /\ \A f : Below(l, f) \in SUBSET File
         /\ \A l \in Deep : cur.deep[l] \in SUBSET File
         /\ 1 \in Deep /\ \A l \in Deep : l \in Nat /\ l >= 1
<1>1. cur.l0 \in Seq(File) /\ cur.deep \in [Deep -> SUBSET File]
  BY DEF Types, Version
<1>2. 1 \in Deep /\ \A l \in Deep : l \in Nat /\ l >= 1
  BY VersionsAssumption DEF Deep
<1>3. \A l \in Deep \ {Levels - 1} : l + 1 \in Deep /\ l < l + 1
  BY VersionsAssumption DEF Deep
<1> QED
  BY <1>1, <1>2, <1>3 DEF Alone0, Below0, Below, ToSet

\* What a merge through entry e leaves and keeps.
LEMMA MergedFields ==
  ASSUME comp \in Merging, NEW e
  PROVE  LET c == Merged(e)
             done == {d \in comp.rest : d = e \/ Before(d, e)}
         IN  /\ c \in Merging
             /\ c.in = comp.in /\ c.next = comp.next /\ c.keep = comp.keep
             /\ c.bottom = comp.bottom /\ c.level = comp.level
             /\ c.rest = comp.rest \ done
             /\ c.out = comp.out \cup {d \in done : Keep(comp, d)}
BY DEF Merged, Merging

\* A set of entries has a last one.
LEMMA LastEntry ==
  ASSUME NEW S \in SUBSET Entry, S # {},
         \A d, e \in S : d.key = e.key /\ d.seq = e.seq => d = e
  PROVE  \E x \in S : \A d \in S : d = x \/ Before(d, x)
<1> DEFINE K == {e.key : e \in S}
<1>0. MaxKey \in Nat /\ \A e \in S : e.key \in Nat /\ e.key <= MaxKey /\ e.seq \in Nat
  BY VersionsAssumption DEF Entry, Key
<1>1. K \in SUBSET Nat /\ K # {} /\ \A k \in K : k <= MaxKey
  BY <1>0
<1>2. PICK m \in K : \A k \in K : k <= m
  <2> HIDE DEF K
  <2> QED
    BY <1>0, <1>1, GreatestElement
<1> DEFINE T == {e.seq : e \in {d \in S : d.key = m}}
<1>3. T \in SUBSET Nat /\ T # {}
  BY <1>0, <1>2
<1>4. PICK t \in T : \A u \in T : t <= u
  <2> HIDE DEF T
  <2> QED
    BY <1>3, LeastElement
<1>5. PICK x \in S : x.key = m /\ x.seq = t
  BY <1>4
<1>6. \A d \in S : d.key <= m /\ (d.key = m => t <= d.seq)
  BY <1>2, <1>4
<1>7. ASSUME NEW d \in S, d # x PROVE Before(d, x)
  <2>1. CASE d.key = m
    <3>1. d.seq # t
      BY <1>5, <1>7, <2>1
    <3> QED
      BY <1>0, <1>5, <1>6, <2>1, <3>1 DEF Before
  <2>2. CASE d.key # m
    BY <1>0, <1>5, <1>6, <2>2 DEF Before
  <2> QED
    BY <2>1, <2>2
<1> QED
  BY <1>7

\* All that a merge of these inputs keeps.
Kept(c) == {d \in UNION c.in : Keep(c, d)}

\* A finished merge puts what it kept in the level of the outputs.
LEMMA FinishEffect ==
  ASSUME Types, History, Inputs, CompFinish
  PROVE  /\ comp \in Merging /\ comp # None
         /\ \E cuts \in SUBSET {d.key : d \in Kept(comp)} :
              cur' = Added(Without(cur, comp.in), comp.next, Cut(Kept(comp), cuts))
<1>1. comp \in Merging /\ comp # None
  BY DEF Types, CompFinish
<1>2. /\ comp.rest # {} /\ comp.rest \subseteq UNION comp.in
      /\ comp.out = {d \in (UNION comp.in) \ comp.rest : Keep(comp, d)}
      /\ comp.in \subseteq Files(cur)
  BY <1>1 DEF Inputs
<1>3. comp.rest \subseteq hist
  BY <1>2 DEF History
<1> DEFINE P(x) == \A d \in comp.rest : d = x \/ Before(d, x)
<1>4. \E x \in comp.rest : P(x)
  <2>1. comp.rest \in SUBSET Entry
    BY <1>1 DEF Merging
  <2> QED
    BY <1>2, <1>3, <2>1, LastEntry DEF History
<1>5. PICK e : e = CHOOSE x \in comp.rest : P(x)
  OBVIOUS
<1>6. e \in comp.rest /\ P(e)
  BY <1>4, <1>5
<1>7. PICK cuts \in SUBSET {d.key : d \in Merged(e).out} :
        cur' = Install(Merged(e), Cut(Merged(e).out, cuts))
  BY <1>5 DEF CompFinish
<1>8. /\ Merged(e).in = comp.in /\ Merged(e).next = comp.next
      /\ Merged(e).out = comp.out \cup {d \in {x \in comp.rest : x = e \/ Before(x, e)} : Keep(comp, d)}
  BY <1>1, MergedFields
<1>9. Merged(e).out = Kept(comp)
  BY <1>2, <1>6, <1>8 DEF Kept
<1> QED
  BY <1>1, <1>7, <1>8, <1>9 DEF Install

\* The files a merge's output is cut into.
LEMMA CutFiles ==
  ASSUME NEW out \in SUBSET Entry, NEW cuts \in SUBSET {d.key : d \in out}
  PROVE  /\ Cut(out, cuts) \in SUBSET File
         /\ UNION Cut(out, cuts) = out
         /\ \A f, g \in Cut(out, cuts) : f # g => Apart(f, g)
<1> DEFINE B    == cuts \cup {0}
           at(e) == Max({c \in B : c <= e.key})
           F(b)  == {e \in out : at(e) = b}
<1>0. B \in SUBSET Nat /\ \A e \in out : e.key \in Nat
  BY VersionsAssumption DEF Entry, Key
<1>1. ASSUME NEW e \in out
      PROVE  at(e) \in B /\ at(e) <= e.key /\ \A c \in B : c <= e.key => c <= at(e)
  <2> DEFINE T == {c \in B : c <= e.key}
  <2>1. T \in SUBSET Nat /\ 0 \in T /\ e.key \in Nat /\ \A c \in T : c <= e.key
    BY <1>0
  <2>2. Max(T) \in T /\ \A c \in T : c <= Max(T)
    <3> HIDE DEF T
    <3> QED
      BY <2>1, GreatestElement
  <2> QED
    BY <2>2
<1> HIDE DEF at
<1>2. Cut(out, cuts) = {f \in {F(b) : b \in B} : f # {}}
  BY DEF Cut, at
<1> HIDE DEF B
<1>3. Cut(out, cuts) \in SUBSET File
  BY <1>2 DEF File
<1>4. UNION Cut(out, cuts) = out
  <2>1. ASSUME NEW e \in out PROVE e \in UNION Cut(out, cuts)
    <3>1. e \in F(at(e)) /\ at(e) \in B
      BY <1>1
    <3> HIDE DEF F
    <3> QED
      BY <1>2, <3>1
  <2> QED
    BY <1>2, <2>1
<1>5. ASSUME NEW b \in B, NEW c \in B, b < c PROVE \A d \in F(b), e \in F(c) : d.key < e.key
  <2> TAKE d \in F(b), e \in F(c)
  <2>1. at(d) = b /\ at(e) = c /\ d \in out /\ e \in out
    OBVIOUS
  <2>2. c <= e.key /\ (c <= d.key => c <= b)
    BY <1>1, <2>1
  <2>3. b \in Nat /\ c \in Nat /\ d.key \in Nat /\ e.key \in Nat
    BY <1>0, <2>1
  <2> QED
    BY <1>5, <2>2, <2>3
<1>6. ASSUME NEW f \in Cut(out, cuts), NEW g \in Cut(out, cuts), f # g PROVE Apart(f, g)
  <2>1. PICK b \in B : f = F(b)
    BY <1>2
  <2>2. PICK c \in B : g = F(c)
    BY <1>2
  <2> HIDE DEF F
  <2>3. b < c \/ c < b
    BY <1>0, <1>6, <2>1, <2>2
  <2> QED
    BY <1>5, <2>1, <2>2, <2>3 DEF Apart
<1> QED
  BY <1>3, <1>4, <1>6

\* What a compaction begins with.
LEMMA CompactionType ==
  ASSUME Types, NEW l \in Nat, NEW n \in Deep, NEW up \in SUBSET File, NEW down \in SUBSET File
  PROVE  /\ Compaction(l, n, up, down) \in Merging
         /\ Compaction(l, n, up, down).in = up \cup down /\ Compaction(l, n, up, down).next = n
         /\ Compaction(l, n, up, down).keep = durable /\ Compaction(l, n, up, down).out = {}
         /\ Compaction(l, n, up, down).bottom => Bottom(n)
         /\ Compaction(l, n, up, down).rest = UNION (up \cup down)
<1>1. durable \in Nat
  BY VersionsAssumption DEF Types
<1>2. UNION (up \cup down) \in SUBSET Entry
  BY DEF File
<1> QED
  BY <1>1, <1>2 DEF Compaction, Merging, KeepAfter, Horizon, Bottom

---------------------------------------------------------------------------
(* The types.                                                              *)

\* Steps that move nothing: the call goes on, or what was committed is durable.
Calm ==
    /\ UNCHANGED <<cur, mems, last, dead, fl, comp, readers, hist>>
    /\ durable' \in durable .. last /\ sweep' \in BOOLEAN

\* Which those are.
LEMMA CalmSteps ==
  ASSUME Types,
         SpilledCommit \/ RunsAborted \/ Sync \/ Flush \/ BeginRead \/ CompDone \/ UNCHANGED vars
  PROVE  Calm
<1>1. durable \in durable .. last /\ last \in durable .. last /\ sweep \in BOOLEAN
  BY VersionsAssumption DEF Types
<1> QED
  BY <1>1 DEF SpilledCommit, RunsAborted, Sync, Flush, BeginRead, CompDone, vars, Calm

\* The numbers of the commits, and the retired trees.
LEMMA NumbersStep ==
  ASSUME Types, [Next]_vars
  PROVE  /\ last' \in 0 .. MaxSeq /\ durable' \in 0 .. last'
         /\ dead' \in [Tree -> 0 .. last'] /\ sweep' \in BOOLEAN
<1> DEFINE Goal == /\ last' \in 0 .. MaxSeq /\ durable' \in 0 .. last'
                   /\ dead' \in [Tree -> 0 .. last'] /\ sweep' \in BOOLEAN
<1>1. /\ last \in Nat /\ MaxSeq \in Nat /\ last <= MaxSeq /\ durable \in Nat /\ durable <= last
      /\ dead \in [Tree -> 0 .. last] /\ sweep \in BOOLEAN
  BY VersionsAssumption DEF Types
<1>2. ASSUME NEW n \in Nat, last <= n PROVE dead \in [Tree -> 0 .. n]
  BY <1>1, <1>2
<1>3. CASE Calm
  BY <1>1, <1>3 DEF Calm
<1>4. ASSUME NEW e, NEW sync \in BOOLEAN, Logged(e, sync)
      PROVE  /\ last' = last + 1 /\ last' \in 0 .. MaxSeq /\ durable' \in 0 .. last'
             /\ dead \in [Tree -> 0 .. last']
  <2>1. last' = last + 1 /\ last' \in 0 .. MaxSeq /\ durable' \in {durable, last + 1}
    BY <1>1, <1>4 DEF Logged
  <2> QED
    BY <1>1, <1>2, <2>1
<1>5. ASSUME NEW k \in Written, NEW del \in BOOLEAN, NEW sync \in BOOLEAN, Commit(k, del, sync)
      PROVE  Goal
  BY <1>1, <1>4, <1>5 DEF Commit
<1>6. ASSUME NEW t \in Tree, NEW sync \in BOOLEAN, Retire(t, sync) PROVE Goal
  <2>1. /\ last' = last + 1 /\ last' \in 0 .. MaxSeq /\ durable' \in 0 .. last'
        /\ dead \in [Tree -> 0 .. last']
    BY <1>4, <1>6 DEF Retire
  <2>2. dead' = [dead EXCEPT ![t] = last + 1] /\ sweep' = TRUE
    BY <1>6 DEF Retire
  <2>3. dead' \in [Tree -> 0 .. last']
    BY <1>1, <2>1, <2>2
  <2> QED
    BY <2>1, <2>2, <2>3
<1>7. ASSUME NEW runs \in Spills, Spilled(runs) PROVE Goal
  <2>1. last' = last + Len(runs) /\ durable' = last' /\ last + Len(runs) <= MaxSeq /\ Len(runs) \in Nat
    BY <1>7, RunsEffect, RunFilesType
  <2>2. dead' \in [Tree -> 0 .. last'] /\ sweep' \in BOOLEAN
    BY <1>7, RunsEffect
  <2>3. last' \in 0 .. MaxSeq /\ durable' \in 0 .. last'
    BY <1>1, <2>1
  <2> QED
    BY <2>2, <2>3
<1>8. CASE Begin
  BY <1>1, <1>8 DEF Begin
<1>9. ASSUME NEW r \in readers, EndRead(r) PROVE Goal
  BY <1>1, <1>9 DEF EndRead
<1>10. CASE Freeze
  <2>1. UNCHANGED <<last, dead, sweep>> /\ durable' \in {durable, last}
    BY <1>10 DEF Freeze, FrozenDurable
  <2> QED
    BY <1>1, <2>1
<1>11. CASE FlushStep \/ FlushFails \/ CompStart \/ CompPause \/ CompFinish \/ CompFails
  BY <1>1, <1>11 DEF FlushStep, FlushFails, CompStart, CompPause, CompFinish, CompFails
<1>12. CASE SweepDead
  <2>1. UNCHANGED <<last, durable, dead>> /\ sweep' \in BOOLEAN
    BY <1>1, <1>12 DEF SweepDead
  <2> QED
    BY <1>1, <2>1
<1>13. ASSUME NEW n \in 0 .. MaxSeq, Crash(n) PROVE Goal
  <2>1. last' = n /\ durable' = n /\ sweep' = FALSE
    BY <1>13 DEF Crash
  <2>2. dead' = [t \in Tree |-> IF dead[t] <= n THEN dead[t] ELSE 0]
    BY <1>13 DEF Crash
  <2>3. \A t \in Tree : dead'[t] \in 0 .. n
    BY <1>1, <2>2
  <2>4. dead' \in [Tree -> 0 .. n]
    BY <2>2, <2>3
  <2>5. last' \in 0 .. MaxSeq /\ durable' \in 0 .. last' /\ sweep' \in BOOLEAN
    <3>1. n \in Nat /\ n \in 0 .. MaxSeq /\ n \in 0 .. n
      BY <1>1
    <3> QED
      BY <2>1, <3>1
  <2> QED
    BY <2>1, <2>4, <2>5
<1> QED
  BY <1>3, <1>5, <1>6, <1>7, <1>8, <1>9, <1>10, <1>11, <1>12, <1>13, CalmSteps DEF Next, Spilled

\* The current version.
LEMMA CurStep ==
  ASSUME Types, Slots, Memory, History, Inputs, [Next]_vars
  PROVE  cur' \in Version
<1>0. cur \in Version
  BY DEF Types
<1>1. CASE cur' = cur
  BY <1>0, <1>1
<1>2. ASSUME NEW runs \in Spills, Spilled(runs) PROVE cur' \in Version
  <2>1. cur' = Grown(cur, cur.imm, RunFiles(runs)) /\ last + Len(runs) <= MaxSeq
    BY <1>2, RunsEffect
  <2>2. RunFiles(runs) \in Seq(File)
    BY <2>1, RunFilesType
  <2>3. cur.imm \in {0} \cup MemIds
    BY <1>0, Fields
  <2> QED
    BY <1>0, <2>1, <2>2, <2>3, GrownVersion
<1>3. CASE Freeze
  <2>1. CASE UNCHANGED <<cur, durable, fl>>
    BY <1>1, <2>1
  <2>2. CASE ~UNCHANGED <<cur, durable, fl>>
    BY <1>3, <2>2, FreezeEffect
  <2> QED
    BY <2>1, <2>2
<1>4. CASE FlushStep
  <2>1. CASE fl = None
    BY <1>1, <1>4, <2>1 DEF FlushStep
  <2>2. CASE fl # None /\ cur' # cur
    <3> DEFINE out == UNION {Flushed(k) : k \in Frozen}
    <3>1. cur' = Grown(cur, 0, OneFile(out))
      BY <1>4, <2>2, FlushEffect
    <3>2. out \in SUBSET Entry
      BY FlushedSub
    <3> HIDE DEF out
    <3>3. OneFile(out) \in Seq(File)
      BY <3>2, OneFileType
    <3> QED
      BY <1>0, <3>1, <3>3, GrownVersion
  <2> QED
    BY <1>1, <2>1, <2>2
<1>5. CASE SweepDead
  <2>1. cur' = cur \/ cur' = Without(cur, Swept)
    BY <1>5 DEF SweepDead
  <2> QED
    BY <1>0, <2>1, WithoutVersion
<1>6. ASSUME NEW X, NEW l \in Deep, NEW G \in SUBSET File, cur' = Added(Without(cur, X), l, G)
      PROVE  cur' \in Version
  <2>1. PICK w \in Version : w = Without(cur, X)
    BY <1>0, WithoutVersion
  <2> QED
    BY <1>6, <2>1, AddedVersion
<1>7. CASE CompStart
  <2>1. ASSUME cur' = Added(Without(cur, Alone0), 1, Alone0) PROVE cur' \in Version
    BY <1>6, <2>1, InputsType
  <2>2. ASSUME NEW l \in Deep \ {Levels - 1}, NEW f \in cur.deep[l],
               cur' = Added(Without(cur, {f}), l + 1, {f})
        PROVE  cur' \in Version
    <3>1. {f} \in SUBSET File /\ l + 1 \in Deep
      BY InputsType
    <3> QED
      BY <1>6, <2>2, <3>1
  <2> QED
    BY <1>1, <1>7, <2>1, <2>2, StartEffect
<1>8. CASE CompFinish
  <2>1. PICK cuts \in SUBSET {d.key : d \in Kept(comp)} :
          cur' = Added(Without(cur, comp.in), comp.next, Cut(Kept(comp), cuts))
    BY <1>8, FinishEffect
  <2>2. comp \in Merging
    BY <1>8, FinishEffect
  <2>3. Kept(comp) \in SUBSET Entry /\ comp.next \in Deep
    BY <2>2 DEF Kept, Merging, File
  <2>4. Cut(Kept(comp), cuts) \in SUBSET File
    BY <2>3, CutFiles
  <2> QED
    BY <1>6, <2>1, <2>3, <2>4
<1>9. ASSUME NEW n \in 0 .. MaxSeq, Crash(n) PROVE cur' \in Version
  <2>1. cur' = [cur EXCEPT !.mem = 1, !.imm = 0]
    BY <1>9 DEF Crash
  <2>2. 1 \in MemIds
    BY VersionsAssumption DEF MemIds
  <2> QED
    BY <1>0, <2>1, <2>2 DEF Version
<1>10. CASE Calm
  BY <1>1, <1>10 DEF Calm
<1>11. ASSUME NEW e, NEW sync, Logged(e, sync) PROVE cur' = cur
  BY <1>11 DEF Logged
<1>12. CASE Begin \/ FlushFails \/ CompPause \/ CompFails \/ \E r \in readers : EndRead(r)
  BY <1>1, <1>12 DEF Begin, FlushFails, CompPause, CompFails, EndRead
<1> QED
  BY <1>1, <1>2, <1>3, <1>4, <1>5, <1>7, <1>8, <1>9, <1>10, <1>11, <1>12, CalmSteps
  DEF Next, Spilled, Commit, Retire

\* The entries that commits append.
LEMMA LoggedEntry ==
  ASSUME Types, NEW k \in Key, NEW del \in BOOLEAN, last < MaxSeq
  PROVE  [key |-> k, seq |-> last + 1, del |-> del] \in Entry
<1>1. last + 1 \in 1 .. MaxSeq
  BY VersionsAssumption DEF Types
<1> QED
  BY <1>1 DEF Entry

\* What a commit through the log does.
LEMMA LoggedEffect ==
  ASSUME Types,
         \/ \E k \in Written, del \in BOOLEAN, sync \in BOOLEAN : Commit(k, del, sync)
         \/ \E t \in Tree, sync \in BOOLEAN : Retire(t, sync)
  PROVE  /\ \E e \in Entry : /\ e.seq = last + 1 /\ hist' = hist \cup {e}
                             /\ mems' = [mems EXCEPT ![cur.mem] = @ \cup {e}]
         /\ last' = last + 1 /\ durable' \in {durable, last + 1}
         /\ UNCHANGED <<cur, fl, comp, readers>>
         /\ \A t \in Tree : dead'[t] = dead[t] \/ (dead[t] = 0 /\ dead'[t] = last + 1)
<1>1. ASSUME NEW k \in Key, NEW del \in BOOLEAN, NEW sync \in BOOLEAN,
             Logged([key |-> k, seq |-> last + 1, del |-> del], sync)
      PROVE  /\ \E e \in Entry : /\ e.seq = last + 1 /\ hist' = hist \cup {e}
                                 /\ mems' = [mems EXCEPT ![cur.mem] = @ \cup {e}]
             /\ last' = last + 1 /\ durable' \in {durable, last + 1}
             /\ UNCHANGED <<cur, fl, comp, readers>>
  <2>1. [key |-> k, seq |-> last + 1, del |-> del] \in Entry
    BY <1>1, LoggedEntry DEF Logged
  <2> QED
    BY <1>1, <2>1 DEF Logged
<1>2. Written \subseteq Key /\ 0 \in Key
  BY VersionsAssumption DEF Key
<1>3. CASE \E k \in Written, del \in BOOLEAN, sync \in BOOLEAN : Commit(k, del, sync)
  <2>1. PICK k \in Written, del \in BOOLEAN, sync \in BOOLEAN : Commit(k, del, sync)
    BY <1>3
  <2>2. k \in Key /\ Logged([key |-> k, seq |-> last + 1, del |-> del], sync) /\ UNCHANGED dead
    BY <1>2, <2>1 DEF Commit
  <2>3. /\ \E e \in Entry : /\ e.seq = last + 1 /\ hist' = hist \cup {e}
                             /\ mems' = [mems EXCEPT ![cur.mem] = @ \cup {e}]
        /\ last' = last + 1 /\ durable' \in {durable, last + 1}
        /\ UNCHANGED <<cur, fl, comp, readers>>
    BY <1>1, <2>2
  <2> QED
    BY <2>2, <2>3
<1>4. CASE \E t \in Tree, sync \in BOOLEAN : Retire(t, sync)
  <2>1. PICK t \in Tree, sync \in BOOLEAN : Retire(t, sync)
    BY <1>4
  <2>2. Logged([key |-> 0, seq |-> last + 1, del |-> TRUE], sync)
    BY <2>1 DEF Retire
  <2>3. dead[t] = 0 /\ dead' = [dead EXCEPT ![t] = last + 1]
    BY <2>1 DEF Retire
  <2>4. \A u \in Tree : dead'[u] = dead[u] \/ (dead[u] = 0 /\ dead'[u] = last + 1)
    BY <2>3 DEF Types
  <2>5. /\ \E e \in Entry : /\ e.seq = last + 1 /\ hist' = hist \cup {e}
                             /\ mems' = [mems EXCEPT ![cur.mem] = @ \cup {e}]
        /\ last' = last + 1 /\ durable' \in {durable, last + 1}
        /\ UNCHANGED <<cur, fl, comp, readers>>
    BY <1>1, <1>2, <2>2
  <2> QED
    BY <2>4, <2>5
<1> QED
  BY <1>3, <1>4

\* The memtables.
LEMMA MemsStep ==
  ASSUME Types, [Next]_vars PROVE mems' \in [MemIds -> SUBSET Entry]
<1>0. mems \in [MemIds -> SUBSET Entry] /\ cur.mem \in MemIds /\ DOMAIN mems = MemIds
  BY DEF Types, Version
<1>1. CASE UNCHANGED mems
  BY <1>0, <1>1
<1>2. ASSUME NEW e \in Entry, mems' = [mems EXCEPT ![cur.mem] = @ \cup {e}]
      PROVE  mems' \in [MemIds -> SUBSET Entry]
  BY <1>0, <1>2
<1>3. ASSUME NEW v, NEW rs, mems' = Freed(v, rs) PROVE mems' \in [MemIds -> SUBSET Entry]
  BY <1>0, <1>3 DEF Freed
<1>4. ASSUME NEW v, NEW rs PROVE Freed(v, rs) \in [MemIds -> SUBSET Entry]
  BY <1>0 DEF Freed
<1>5. CASE FlushStep
  <2>1. mems' = [i \in DOMAIN mems |-> IF i \in Held(cur', readers) THEN mems[i] ELSE {}]
    BY <1>5 DEF FlushStep, Freed
  <2> QED
    BY <1>0, <2>1
<1>6. ASSUME NEW r \in readers, EndRead(r) PROVE mems' \in [MemIds -> SUBSET Entry]
  <2>1. mems' = [i \in DOMAIN mems |-> IF i \in Held(cur, readers') THEN mems[i] ELSE {}]
    BY <1>6 DEF EndRead, Freed
  <2> QED
    BY <1>0, <2>1
<1>7. ASSUME NEW n \in 0 .. MaxSeq, Crash(n) PROVE mems' \in [MemIds -> SUBSET Entry]
  <2>1. Mem(cur.mem) \in SUBSET Entry /\ Mem(cur.imm) \in SUBSET Entry
    BY MemSub DEF Types
  <2>2. {e \in Mem(cur.mem) \cup Mem(cur.imm) : e.seq <= n} \in SUBSET Entry
    BY <2>1
  <2> QED
    BY <1>0, <1>7, <2>2 DEF Crash
<1>8. CASE Calm
  BY <1>1, <1>8 DEF Calm
<1>9. CASE Begin \/ Freeze \/ FlushFails \/ SweepDead \/ CompStart \/ CompPause \/ CompFinish
           \/ CompFails \/ \E runs \in Spills : Spilled(runs)
  BY <1>1, <1>9 DEF Begin, Freeze, FlushFails, SweepDead, CompStart, CompPause, CompFinish,
                    CompFails, Spilled, Runs
<1> QED
  BY <1>1, <1>2, <1>5, <1>6, <1>7, <1>8, <1>9, CalmSteps, LoggedEffect DEF Next, Spilled

\* The flush under way.
LEMMA FlStep ==
  ASSUME Types, Slots, Memory, [Next]_vars PROVE fl' # None => fl' \in Flushing
<1>0. fl # None => fl \in Flushing
  BY DEF Types
<1>1. CASE fl' = fl \/ fl' = None
  BY <1>0, <1>1
<1>2. CASE Freeze /\ ~UNCHANGED <<cur, durable, fl>>
  <2>1. fl' = [at |-> 0, upto |-> last, out |-> {}] /\ last \in Nat
    BY <1>2, FreezeEffect, VersionsAssumption DEF Types
  <2> QED
    BY <2>1 DEF Flushing
<1>3. CASE FlushStep
  <2>1. CASE fl = None
    BY <1>1, <1>3, <2>1 DEF FlushStep
  <2>2. CASE fl # None /\ fl' # None
    <3>1. PICK n \in Key : fl' = [at |-> n + 1, upto |-> fl.upto, out |-> FlushOut(n + 1)]
      BY <1>3, <2>2, FlushEffect
    <3>2. n + 1 \in Nat
      BY VersionsAssumption DEF Key
    <3>3. FlushOut(n + 1) \in SUBSET Entry /\ fl.upto \in Nat
      BY <1>0, <2>2, FlushedSub DEF Flushing
    <3> QED
      BY <3>1, <3>2, <3>3 DEF Flushing
  <2> QED
    BY <2>1, <2>2
<1>4. CASE FlushFails
  <2>1. fl \in Flushing /\ fl' = [fl EXCEPT !.at = 0, !.out = {}]
    BY <1>0, <1>4 DEF FlushFails
  <2> QED
    BY <2>1 DEF Flushing
<1>5. CASE Calm \/ (Freeze /\ UNCHANGED <<cur, durable, fl>>)
  BY <1>1, <1>5 DEF Calm
<1>6. CASE \/ Begin \/ SweepDead \/ CompStart \/ CompPause \/ CompFinish \/ CompFails
           \/ \E runs \in Spills : Spilled(runs)
           \/ \E r \in readers : EndRead(r)
           \/ \E n \in 0 .. MaxSeq : Crash(n)
  BY <1>1, <1>6 DEF Begin, SweepDead, CompStart, CompPause, CompFinish, CompFails, Spilled, Runs, EndRead, Crash
<1> QED
  BY <1>1, <1>2, <1>3, <1>4, <1>5, <1>6, CalmSteps, LoggedEffect DEF Next, Spilled

\* The compaction under way.
LEMMA CompStep ==
  ASSUME Types, [Next]_vars PROVE comp' # None => comp' \in Merging
<1>0. comp # None => comp \in Merging
  BY DEF Types
<1>1. CASE comp' = comp \/ comp' = None
  BY <1>0, <1>1
<1>2. ASSUME NEW l \in Nat, NEW n \in Deep, NEW up \in SUBSET File, NEW down \in SUBSET File,
             comp' = Compaction(l, n, up, down)
      PROVE  comp' \in Merging
  BY <1>2, CompactionType
<1>3. CASE CompStart
  <2>1. ASSUME comp' = Compaction(0, 1, ToSet(cur.l0), Below0) PROVE comp' \in Merging
    BY <1>2, <2>1, InputsType
  <2>2. ASSUME NEW l \in Deep \ {Levels - 1}, NEW f \in cur.deep[l],
               comp' = Compaction(l, l + 1, {f}, Below(l, f))
        PROVE  comp' \in Merging
    <3>1. {f} \in SUBSET File /\ l + 1 \in Deep /\ l \in Nat /\ Below(l, f) \in SUBSET File
      BY InputsType
    <3> QED
      BY <1>2, <2>2, <3>1
  <2>3. ASSUME NEW l \in Deep, NEW f \in cur.deep[l], comp' = Compaction(l, l, {f}, {})
        PROVE  comp' \in Merging
    <3>1. {f} \in SUBSET File /\ l \in Nat
      BY InputsType
    <3> QED
      BY <1>2, <2>3, <3>1
  <2>4. cur' = cur \/ comp' = None
    BY <1>3, StartEffect
  <2> QED
    BY <1>1, <1>3, <2>1, <2>2, <2>3, StartEffect
<1>4. CASE CompPause
  <2>1. comp \in Merging
    BY <1>0, <1>4 DEF CompPause
  <2>2. PICK e : comp' = Merged(e)
    BY <1>4 DEF CompPause
  <2> QED
    BY <2>1, <2>2, MergedFields
<1>5. CASE Calm
  BY <1>1, <1>5 DEF Calm
<1>6. CASE \/ Begin \/ SweepDead \/ FlushStep \/ FlushFails \/ Freeze \/ CompFinish \/ CompFails
           \/ \E runs \in Spills : Spilled(runs)
           \/ \E r \in readers : EndRead(r)
           \/ \E n \in 0 .. MaxSeq : Crash(n)
  BY <1>1, <1>6 DEF Begin, SweepDead, FlushStep, FlushFails, Freeze, CompFinish, CompFails, Spilled, Runs,
                    EndRead, Crash
<1> QED
  BY <1>1, <1>3, <1>4, <1>5, <1>6, CalmSteps, LoggedEffect DEF Next, Spilled

\* The open transactions: one begins, one ends, all are gone, or none changes.
LEMMA ReadersStep ==
  ASSUME Types, [Next]_vars
  PROVE  /\ \A r \in readers' : r \in readers \/ (Begin /\ r = Pinned)
         /\ readers' \subseteq Reader /\ \A r \in readers' : r.snap <= durable'
<1>0. /\ readers \subseteq Reader /\ \A r \in readers : r.snap <= durable
      /\ durable \in Nat /\ last \in Nat /\ durable <= last /\ cur \in Version
  BY VersionsAssumption DEF Types
<1>1. ASSUME durable' \in Nat, durable <= durable' PROVE \A r \in readers : r.snap <= durable'
  <2>1. \A r \in readers : r.snap \in Nat
    BY <1>0 DEF Reader
  <2> QED
    BY <1>0, <1>1, <2>1
<1>2. CASE readers' \subseteq readers /\ durable' \in durable .. last
  BY <1>0, <1>1, <1>2
<1>3. CASE Begin
  <2>1. readers' = readers \cup {Pinned} /\ durable' = durable
    BY <1>3 DEF Begin
  <2>2. Pinned \in Reader /\ Pinned.snap = durable
    BY <1>0 DEF Pinned, Reader
  <2> QED
    BY <1>0, <1>3, <2>1, <2>2
<1>4. ASSUME UNCHANGED readers, last' \in Nat, last <= last', durable' \in {durable, last'}
      PROVE  \A r \in readers' : r.snap <= durable'
  BY <1>0, <1>1, <1>4
<1>5. ASSUME NEW runs \in Spills, Spilled(runs)
      PROVE  UNCHANGED readers /\ last' \in Nat /\ last <= last' /\ durable' = last'
  <2>1. Len(runs) \in Nat /\ last' = last + Len(runs) /\ durable' = last'
    BY <1>5, RunsEffect, RunFilesType
  <2> QED
    BY <1>0, <1>5, <2>1 DEF Spilled, Runs
<1>6. CASE Freeze
  <2>1. UNCHANGED <<readers, last>> /\ durable' \in {durable, last}
    BY <1>6 DEF Freeze, FrozenDurable
  <2> QED
    BY <1>0, <1>4, <2>1
<1>7. CASE Calm \/ \E r \in readers : EndRead(r)
  <2>1. readers' \subseteq readers /\ durable' \in durable .. last
    BY <1>0, <1>7 DEF Calm, EndRead
  <2> QED
    BY <1>2, <2>1
<1>8. CASE \E n \in 0 .. MaxSeq : Crash(n)
  BY <1>8 DEF Crash
<1>9. CASE \/ SweepDead \/ FlushStep \/ FlushFails \/ CompStart \/ CompPause \/ CompFinish \/ CompFails
  <2>1. readers' = readers /\ durable' = durable
    BY <1>9 DEF SweepDead, FlushStep, FlushFails, CompStart, CompPause, CompFinish, CompFails
  <2> QED
    BY <1>0, <2>1
<1>10. CASE \/ \E k \in Written, del \in BOOLEAN, sync \in BOOLEAN : Commit(k, del, sync)
            \/ \E t \in Tree, sync \in BOOLEAN : Retire(t, sync)
  <2>1. last' = last + 1 /\ durable' \in {durable, last + 1} /\ UNCHANGED readers
    BY <1>10, LoggedEffect
  <2> QED
    BY <1>0, <1>4, <2>1
<1> QED
  BY <1>0, <1>3, <1>4, <1>5, <1>6, <1>7, <1>8, <1>9, <1>10, CalmSteps DEF Next, Spilled

---------------------------------------------------------------------------
(* The memtables are empty when the runs of a spilled transaction go in.   *)

HasRuns(s) == \E i \in DOMAIN s : s[i] = "runs"

\* How far a call with runs at its end is when it has done one more step.
LEMMA TailDrains ==
  ASSUME Types, Drains, todo # <<>>, todo' = Tail(todo), HasRuns(todo')
  PROVE  \E n \in 0 .. 4 :
            /\ Head(todo) = Spilling[n + 1]
            /\ Len(todo') = 6 - (n + 1) /\ \A i \in 1 .. 6 - (n + 1) : todo'[i] = Spilling[n + 1 + i]
            /\ n = 1 \/ n >= 3 => fl = None
            /\ n >= 2 => Mem(cur.mem) = {}
<1>0. /\ todo \in Seq(Steps) /\ Len(todo) \in Nat /\ Len(todo) >= 1
      /\ Tail(todo) \in Seq(Steps) /\ Len(todo') = Len(todo) - 1 /\ Head(todo) = todo[1]
      /\ DOMAIN todo' = 1 .. Len(todo) - 1
      /\ \A i \in 1 .. Len(todo) - 1 : todo'[i] = todo[i + 1] /\ i + 1 \in DOMAIN todo
  BY DEF Types
<1>1. HasRuns(todo) /\ Len(todo) >= 2
  BY <1>0 DEF HasRuns
<1>2. PICK n \in 0 .. 5 :
        /\ Len(todo) = 6 - n /\ \A i \in 1 .. 6 - n : todo[i] = Spilling[n + i]
        /\ n = 1 \/ n >= 3 => fl = None
        /\ n >= 2 => Mem(cur.mem) = {}
  BY <1>1 DEF Drains, HasRuns
<1>3. n \in 0 .. 4
  BY <1>1, <1>2
<1>4. Head(todo) = Spilling[n + 1]
  BY <1>0, <1>2, <1>3
<1>5. Len(todo') = 6 - (n + 1)
  BY <1>0, <1>2, <1>3
<1>6. ASSUME NEW i \in 1 .. 6 - (n + 1) PROVE todo'[i] = Spilling[n + 1 + i]
  <2>1. i \in 1 .. Len(todo) - 1 /\ i + 1 \in 1 .. 6 - n /\ n + (i + 1) = n + 1 + i
    BY <1>2, <1>3
  <2> QED
    BY <2>1, <1>0, <1>2
<1> QED
  BY <1>2, <1>3, <1>4, <1>5, <1>6

\* A full flush ends: its last key is the largest.
LEMMA FullFlush ==
  ASSUME Types, FlushStep, At("flush") PROVE fl' = None
<1>1. CASE fl = None
  BY <1>1 DEF FlushStep
<1>2. CASE fl # None
  <2>1. PICK n \in Frozen : n = Max(Frozen) /\ FlushTo(n)
    BY <1>2 DEF FlushStep
  <2>2. Frozen \in SUBSET Nat /\ Frozen # {} /\ MaxKey \in Nat /\ \A k \in Frozen : k <= MaxKey
    <3>1. Mem(cur.imm) \in SUBSET Entry
      BY FlushedSub
    <3> QED
      BY <2>1, <3>1, VersionsAssumption DEF Frozen, Entry, Key
  <2>3. \A k \in Frozen : k <= n
    BY <2>1, <2>2, GreatestElement
  <2>4. ~\E k \in Frozen : k > n
    BY <2>1, <2>2, <2>3
  <2> QED
    BY <2>1, <2>4 DEF FlushTo
<1> QED
  BY <1>1, <1>2

\* No step but a flush touches what a memtable of the current version has and
\* keeps it current.
LEMMA MemKept ==
  ASSUME Types, Memory, FlushStep
  PROVE  cur'.mem = cur.mem /\ Mem(cur.mem)' = Mem(cur.mem)
<1>1. cur'.mem = cur.mem
  <2>1. CASE fl = None
    BY <2>1 DEF FlushStep
  <2>2. CASE fl # None /\ cur' # cur
    <3> DEFINE out == UNION {Flushed(k) : k \in Frozen}
    <3>1. cur' = Grown(cur, 0, OneFile(out))
      BY <2>2, FlushEffect
    <3> HIDE DEF out
    <3> QED
      BY <3>1 DEF Grown, Types, Version
  <2> QED
    BY <2>1, <2>2
<1>2. cur.mem \in MemIds /\ DOMAIN mems = MemIds /\ cur.mem # 0
  BY VersionsAssumption DEF Types, Version, MemIds
<1>3. mems' = [i \in DOMAIN mems |-> IF i \in Held(cur', readers) THEN mems[i] ELSE {}]
  BY DEF FlushStep, Freed
<1>4. cur.mem \in Held(cur', readers)
  BY <1>1 DEF Held
<1> QED
  BY <1>1, <1>2, <1>3, <1>4 DEF Mem

\* The sweep and the compactions move files and leave the memtables alone.
LEMMA MovesKeep ==
  ASSUME Types, History, Inputs, SweepDead \/ CompStart \/ CompFinish
  PROVE  cur'.mem = cur.mem /\ cur'.imm = cur.imm
<1>0. cur \in Version
  BY DEF Types
<1>1. ASSUME NEW X, NEW l \in Deep, NEW G \in SUBSET File, cur' = Added(Without(cur, X), l, G)
      PROVE  cur'.mem = cur.mem /\ cur'.imm = cur.imm
  <2>1. PICK w : w = Without(cur, X)
    OBVIOUS
  <2>2. w \in Version /\ w.mem = cur.mem /\ w.imm = cur.imm
    BY <1>0, <2>1, WithoutVersion
  <2> QED
    BY <1>1, <2>1, <2>2, AddedVersion
<1>2. CASE CompFinish
  <2>1. PICK cuts \in SUBSET {d.key : d \in Kept(comp)} :
          cur' = Added(Without(cur, comp.in), comp.next, Cut(Kept(comp), cuts))
    BY <1>2, FinishEffect
  <2>2. comp \in Merging
    BY <1>2, FinishEffect
  <2>3. Kept(comp) \in SUBSET Entry /\ comp.next \in Deep
    BY <2>2 DEF Kept, Merging, File
  <2>4. Cut(Kept(comp), cuts) \in SUBSET File
    BY <2>3, CutFiles
  <2> QED
    BY <1>1, <2>1, <2>3, <2>4
<1>3. CASE CompStart
  <2>1. ASSUME cur' = Added(Without(cur, Alone0), 1, Alone0)
        PROVE  cur'.mem = cur.mem /\ cur'.imm = cur.imm
    BY <1>1, <2>1, InputsType
  <2>2. ASSUME NEW l \in Deep \ {Levels - 1}, NEW f \in cur.deep[l],
               cur' = Added(Without(cur, {f}), l + 1, {f})
        PROVE  cur'.mem = cur.mem /\ cur'.imm = cur.imm
    <3>1. {f} \in SUBSET File /\ l + 1 \in Deep
      BY InputsType
    <3> QED
      BY <1>1, <2>2, <3>1
  <2> QED
    BY <1>3, <2>1, <2>2, StartEffect
<1>4. CASE SweepDead
  <2>1. cur' = cur \/ cur' = Without(cur, Swept)
    BY <1>4 DEF SweepDead
  <2>2. Without(cur, Swept).mem = cur.mem /\ Without(cur, Swept).imm = cur.imm
    BY <1>0, WithoutVersion
  <2> QED
    BY <2>1, <2>2
<1> QED
  BY <1>2, <1>3, <1>4

\* The calls that install runs.
LEMMA DrainsStep ==
  ASSUME Types, Slots, Drains, Memory, History, Inputs, [Next]_vars PROVE Drains'
<1>0. todo \in Seq(Steps)
  BY DEF Types
<1>1. ASSUME ~HasRuns(todo') PROVE Drains'
  BY <1>1 DEF Drains, HasRuns
<1>2. ASSUME HasRuns(todo') PROVE Drains'
  <2>1. CASE SpilledCommit
    <3>1. todo' = Spilling /\ Len(Spilling) = 6 /\ 0 \in 0 .. 5
      BY <2>1 DEF SpilledCommit, Spilling
    <3>2. Len(todo') = 6 - 0 /\ \A i \in 1 .. 6 - 0 : todo'[i] = Spilling[0 + i]
      BY <3>1
    <3> QED
      BY <3>1, <3>2 DEF Drains
  <2>2. ASSUME UNCHANGED <<todo, fl>>, Mem(cur.mem)' = Mem(cur.mem) PROVE Drains'
    BY <2>2 DEF Drains
  <2>3. ASSUME todo # <<>>, todo' = Tail(todo),
               \A n \in 0 .. 4 :
                  /\ Head(todo) = Spilling[n + 1]
                  /\ n = 1 \/ n >= 3 => fl = None
                  /\ n >= 2 => Mem(cur.mem) = {}
                  => /\ n + 1 = 1 \/ n + 1 >= 3 => fl' = None
                     /\ n + 1 >= 2 => Mem(cur.mem)' = {}
        PROVE  Drains'
    <3>1. PICK n \in 0 .. 4 :
            /\ Head(todo) = Spilling[n + 1]
            /\ Len(todo') = 6 - (n + 1) /\ \A i \in 1 .. 6 - (n + 1) : todo'[i] = Spilling[n + 1 + i]
            /\ n = 1 \/ n >= 3 => fl = None
            /\ n >= 2 => Mem(cur.mem) = {}
      BY <1>2, <2>3, TailDrains
    <3>2. /\ n + 1 = 1 \/ n + 1 >= 3 => fl' = None
          /\ n + 1 >= 2 => Mem(cur.mem)' = {}
      BY <2>3, <3>1
    <3>3. PICK m \in 0 .. 5 : m = n + 1
      OBVIOUS
    <3> QED
      BY <3>1, <3>2, <3>3 DEF Drains
  <2>4. /\ Spilling[1] = "flush" /\ Spilling[2] = "freeze" /\ Spilling[3] = "flush"
        /\ Spilling[4] = "sweep" /\ Spilling[5] = "merge0" /\ Spilling[6] = "runs"
    BY DEF Spilling
  <2>5. \A n \in 0 .. 4 :
          /\ Spilling[n + 1] = "flush" => n \in {0, 2}
          /\ Spilling[n + 1] = "freeze" => n = 1
          /\ Spilling[n + 1] = "sweep" => n = 3
          /\ Spilling[n + 1] = "merge0" => n = 4
          /\ Spilling[n + 1] \notin {"share", "merge", "begin", "runs"}
    BY <2>4
  <2>6. CASE FlushStep
    <3>1. todo # <<>> /\ todo' = Tail(todo) /\ Head(todo) \in {"flush", "share"}
      BY <2>6 DEF FlushStep, At
    <3>2. Head(todo) = "flush" => fl' = None
      BY <2>6, <3>1, FullFlush DEF At
    <3>3. Mem(cur.mem)' = Mem(cur.mem)
      BY <2>6, MemKept
    <3>4. ASSUME NEW n \in 0 .. 4, Head(todo) = Spilling[n + 1], n = 1 \/ n >= 3 => fl = None,
                 n >= 2 => Mem(cur.mem) = {}
          PROVE  /\ n + 1 = 1 \/ n + 1 >= 3 => fl' = None
                 /\ n + 1 >= 2 => Mem(cur.mem)' = {}
      BY <2>5, <3>1, <3>2, <3>3, <3>4
    <3> QED
      BY <2>3, <3>1, <3>4
  <2>7. CASE Freeze
    <3>1. todo # <<>> /\ todo' = Tail(todo) /\ Head(todo) = "freeze" /\ UNCHANGED mems
      BY <2>7 DEF Freeze, At
    <3>2. fl = None => Mem(cur.mem)' = {}
      <4>1. CASE Mem(cur.mem) = {}
        BY <2>7, <3>1, <4>1 DEF Freeze, Mem
      <4>2. CASE Mem(cur.mem) # {} /\ fl = None
        <5>1. ~UNCHANGED <<cur, durable, fl>>
          BY <2>7, <4>2, NoneAssumption, VersionsAssumption DEF Freeze, Flushing, Types
        <5> QED
          BY <2>7, <3>1, <5>1, FreezeEffect DEF Mem
      <4> QED
        BY <4>1, <4>2
    <3>4. ASSUME NEW n \in 0 .. 4, Head(todo) = Spilling[n + 1], n = 1 \/ n >= 3 => fl = None,
                 n >= 2 => Mem(cur.mem) = {}
          PROVE  /\ n + 1 = 1 \/ n + 1 >= 3 => fl' = None
                 /\ n + 1 >= 2 => Mem(cur.mem)' = {}
      BY <2>5, <3>1, <3>2, <3>4
    <3> QED
      BY <2>3, <3>1, <3>4
  <2>8. CASE SweepDead \/ CompDone
    <3>1. /\ todo # <<>> /\ todo' = Tail(todo) /\ Head(todo) \in {"sweep", "merge", "merge0"}
          /\ UNCHANGED <<mems, fl>> /\ cur'.mem = cur.mem
      <4>1. cur'.mem = cur.mem
        BY <2>8, MovesKeep DEF CompDone
      <4> QED
        BY <2>8, <4>1 DEF SweepDead, CompDone, At
    <3>2. Mem(cur.mem)' = Mem(cur.mem)
      BY <3>1 DEF Mem
    <3>4. ASSUME NEW n \in 0 .. 4, Head(todo) = Spilling[n + 1], n = 1 \/ n >= 3 => fl = None,
                 n >= 2 => Mem(cur.mem) = {}
          PROVE  /\ n + 1 = 1 \/ n + 1 >= 3 => fl' = None
                 /\ n + 1 >= 2 => Mem(cur.mem)' = {}
      BY <2>5, <3>1, <3>2, <3>4
    <3> QED
      BY <2>3, <3>1, <3>4
  <2>9. CASE CompPause \/ Begin \/ FlushFails
    <3>1. todo # <<>> /\ todo' = Tail(todo) /\ Head(todo) \in {"share", "merge", "begin"}
      <4>1. todo' # <<>>
        BY <1>2 DEF HasRuns
      <4> QED
        BY <2>9, <4>1 DEF CompPause, Begin, FlushFails, At
    <3> QED
      BY <2>3, <2>5, <3>1
  <2>10. CASE CompStart \/ CompFinish
    <3>1. cur'.mem = cur.mem
      BY <2>10, MovesKeep
    <3>2. Mem(cur.mem)' = Mem(cur.mem) /\ UNCHANGED fl
      BY <2>10, <3>1 DEF Mem, CompStart, CompFinish
    <3>3. CASE todo' = todo
      BY <2>2, <3>2, <3>3
    <3>4. CASE todo' # todo
      <4>1. /\ todo # <<>> /\ todo' = <<"merge0">> \o Tail(todo)
            /\ todo[1] \in {"merge", "merge0"}
        BY <2>10, <3>4 DEF CompStart, CompFinish, At
      <4>2. /\ Len(todo') = Len(todo) /\ \A i \in DOMAIN todo' : i \in DOMAIN todo
            /\ \A i \in DOMAIN todo' : todo'[i] = IF i = 1 THEN "merge0" ELSE todo[i]
        BY <1>0, <4>1
      <4>3. HasRuns(todo)
        BY <1>2, <4>2 DEF HasRuns
      <4>4. PICK n \in 0 .. 5 : Len(todo) = 6 - n /\ \A i \in 1 .. 6 - n : todo[i] = Spilling[n + i]
        BY <4>3 DEF Drains, HasRuns
      <4>5. todo[1] = Spilling[n + 1]
        BY <4>4
      <4>6. todo[1] = "merge0"
        BY <2>4, <4>1, <4>5
      <4>7. todo' = todo
        <5>1. todo' \in Seq(Steps)
          BY SlotsStep
        <5> QED
          BY <1>0, <4>2, <4>6, <5>1
      <4> QED
        BY <3>4, <4>7
    <3> QED
      BY <3>3, <3>4
  <2>11. CASE UNCHANGED vars
    BY <2>2, <2>11 DEF vars, Mem
  <2>12. ASSUME todo' = <<>> \/ (todo = <<>> /\ UNCHANGED todo) PROVE FALSE
    BY <1>2, <2>12 DEF HasRuns
  <2>13. CASE RunsAborted \/ Sync \/ CompFails \/ (\E n \in 0 .. MaxSeq : Crash(n))
              \/ (\E r \in readers : EndRead(r))
    BY <2>12, <2>13 DEF RunsAborted, Sync, CompFails, Crash, EndRead
  <2>14. ASSUME NEW full \in BOOLEAN, todo' = Shares(full) PROVE FALSE
    BY <1>2, <2>14 DEF Shares, HasRuns
  <2>15. ASSUME NEW e, NEW sync, Logged(e, sync) PROVE FALSE
    BY <2>14, <2>15 DEF Logged
  <2>16. CASE \/ \E k \in Written, del \in BOOLEAN, sync \in BOOLEAN : Commit(k, del, sync)
              \/ \E t \in Tree, sync \in BOOLEAN : Retire(t, sync)
    BY <2>15, <2>16 DEF Commit, Retire
  <2>17. CASE Flush
    <3>1. todo' = <<"flush", "freeze", "flush", "sweep", "merge0">>
      BY <2>17 DEF Flush
    <3> QED
      BY <1>2, <3>1 DEF HasRuns
  <2>18. CASE BeginRead
    <3>1. todo' = <<"begin">> \/ todo' = <<"share", "begin">>
      BY <2>18 DEF BeginRead
    <3> QED
      BY <1>2, <3>1 DEF HasRuns
  <2>19. ASSUME NEW runs \in Spills, Spilled(runs) PROVE FALSE
    <3>1. todo' = <<"sweep", "merge">>
      BY <2>19 DEF Spilled, Runs
    <3> QED
      BY <1>2, <3>1 DEF HasRuns
  <2> QED
    BY <2>1, <2>6, <2>7, <2>8, <2>9, <2>10, <2>11, <2>13, <2>16, <2>17, <2>18, <2>19 DEF Next, Spilled
<1> QED
  BY <1>1, <1>2

---------------------------------------------------------------------------
(* The memtables.                                                          *)

\* A tree is retired for good, at a commit that comes.
LEMMA GoneKept ==
  ASSUME Types, NEW t \in Tree, NEW u \in 0 .. last,
         \A x \in Tree : dead'[x] = dead[x] \/ (dead[x] = 0 /\ dead'[x] \in Nat /\ last < dead'[x])
  PROVE  Gone(t, u)' <=> Gone(t, u)
<1>1. last \in Nat /\ dead[t] \in 0 .. last
  BY VersionsAssumption DEF Types
<1>2. dead'[t] = dead[t] \/ (dead[t] = 0 /\ dead'[t] \in Nat /\ last < dead'[t])
  OBVIOUS
<1> QED
  BY <1>1, <1>2 DEF Gone

\* What a flush writes does not change under it.
LEMMA FlushOutKept ==
  ASSUME Types, Memory, fl # None, fl'.upto = fl.upto, Mem(cur.imm)' = Mem(cur.imm),
         last' \in Nat, last <= last',
         \A x \in Tree : dead'[x] = dead[x] \/ (dead[x] = 0 /\ dead'[x] \in Nat /\ last < dead'[x]),
         NEW n
  PROVE  FlushOut(n)' = FlushOut(n)
<1>0. last \in Nat /\ durable \in Nat /\ durable <= last /\ Mem(cur.imm) \in SUBSET Entry
  BY VersionsAssumption, FlushedSub DEF Types
<1>1. Frozen' = Frozen /\ Frozen \subseteq Key
  BY <1>0 DEF Frozen, Entry
<1>2. PICK u : u = fl.upto
  OBVIOUS
<1>3. u \in 0 .. last
  BY <1>0, <1>2 DEF Memory, Types, Flushing
<1>4. ASSUME NEW k \in Frozen PROVE Flushed(k)' = Flushed(k)
  <2>1. TreeOf[k] \in Tree
    BY <1>1 DEF Tree
  <2>2. PICK t \in Tree : t = TreeOf[k]
    BY <2>1
  <2>3. Gone(t, u)' <=> Gone(t, u)
    BY <1>3, GoneKept
  <2>4. \A e \in Mem(cur.imm) : e.seq <= last /\ e.seq <= last'
    <3>1. \A e \in Mem(cur.imm) : e.seq <= durable /\ e.seq \in Nat
      BY <1>0, VersionsAssumption DEF Memory, Entry
    <3> QED
      BY <1>0, <3>1
  <2>5. Newest(Mem(cur.imm), k, last') = Newest(Mem(cur.imm), k, last)
    BY <2>4 DEF Newest
  <2>6. Flushed(k) = IF Gone(t, u) THEN {} ELSE Newest(Mem(cur.imm), k, last)
    BY <1>2, <2>2 DEF Flushed
  <2>7. Newest(Mem(cur.imm), k, last)' = Newest(Mem(cur.imm), k, last')
    BY DEF Newest
  <2>8. Flushed(k)' = IF Gone(t, u)' THEN {} ELSE Newest(Mem(cur.imm), k, last')
    BY <1>2, <2>2, <2>7 DEF Flushed
  <2> QED
    BY <2>3, <2>5, <2>6, <2>8
<1> QED
  BY <1>1, <1>4 DEF FlushOut

\* Before its first key a flush has written nothing.
LEMMA FlushOutNone ==
  ASSUME Mem(cur.imm) \in SUBSET Entry PROVE FlushOut(0) = {}
<1>1. \A j \in Frozen : ~(j < 0)
  BY VersionsAssumption DEF Frozen, Entry, Key
<1> QED
  BY <1>1 DEF FlushOut

\* The memtables of a version that stays, as Memory has them.
LEMMA MemoryKept ==
  ASSUME Types, Memory,
         cur'.mem = cur.mem, cur'.imm = cur.imm, UNCHANGED <<mems, fl, readers>>,
         \A x \in Tree : dead'[x] = dead[x] \/ (dead[x] = 0 /\ dead'[x] \in Nat /\ last < dead'[x]),
         last' \in Nat, last <= last', durable' \in Nat, durable <= durable'
  PROVE  Memory'
<1>0. /\ last \in Nat /\ durable \in Nat /\ mems \in [MemIds -> SUBSET Entry]
      /\ \A e \in Entry : e.seq \in Nat
  BY VersionsAssumption DEF Types, Entry
<1>1. Held(cur, readers)' = Held(cur, readers) /\ Mem(cur.imm)' = Mem(cur.imm)
  BY DEF Held, Mem
<1>2. (fl' = None) = (cur'.imm = 0)
  BY DEF Memory
<1>3. \A i \in MemIds : \A e \in mems'[i] : e.seq <= last'
  <2>1. \A i \in MemIds : \A e \in mems[i] : e.seq <= last /\ e \in Entry
    BY <1>0 DEF Memory
  <2> QED
    BY <1>0, <2>1
<1>4. \A i \in MemIds \ Held(cur, readers)' : mems'[i] = {}
  BY <1>1 DEF Memory
<1>5. \A v \in {cur'} \cup {r.v : r \in readers'} : v.imm # cur'.mem
  BY DEF Memory
<1>6. ASSUME fl' # None
      PROVE  /\ fl'.upto <= durable' /\ \A e \in Mem(cur.imm)' : e.seq <= durable'
             /\ fl'.out = FlushOut(fl.at)'
  <2>1. fl # None /\ fl.upto \in Nat /\ fl.upto <= durable
    BY <1>6 DEF Memory, Types, Flushing
  <2>2. \A e \in Mem(cur.imm) : e.seq <= durable /\ e \in Entry
    BY <2>1, FlushedSub DEF Memory
  <2>3. PICK n : n = fl.at
    OBVIOUS
  <2>4. FlushOut(n)' = FlushOut(n)
    BY <1>1, <2>1, FlushOutKept
  <2>5. fl'.out = FlushOut(fl.at)'
    BY <2>1, <2>3, <2>4 DEF Memory
  <2>6. fl'.upto <= durable'
    BY <1>0, <2>1
  <2>7. \A e \in Mem(cur.imm)' : e.seq <= durable'
    BY <1>0, <1>1, <2>2
  <2> QED
    BY <2>5, <2>6, <2>7
<1> QED
  BY <1>2, <1>3, <1>4, <1>5, <1>6 DEF Memory

\* What is flushed is what is frozen.
LEMMA MemoryStep ==
  ASSUME Types, Slots, Memory, History, Inputs, [Next]_vars PROVE Memory'
<1>0. /\ last \in Nat /\ durable \in Nat /\ durable <= last /\ mems \in [MemIds -> SUBSET Entry]
      /\ \A e \in Entry : e.seq \in Nat
      /\ cur \in Version /\ cur.mem \in MemIds /\ cur.imm \in {0} \cup MemIds /\ 0 \notin MemIds
      /\ \A r \in readers : r.v \in Version
  <2>1. cur \in Version /\ cur.mem \in MemIds /\ cur.imm \in {0} \cup MemIds /\ 0 \notin MemIds
    BY HeldVersion
  <2>2. last \in Nat /\ durable \in Nat /\ durable <= last /\ mems \in [MemIds -> SUBSET Entry]
    BY VersionsAssumption DEF Types
  <2>3. (\A e \in Entry : e.seq \in Nat) /\ \A r \in readers : r.v \in Version
    BY DEF Types, Entry, Reader
  <2> QED
    BY <2>1, <2>2, <2>3
<1>1. CASE Calm
  BY <1>0, <1>1, MemoryKept DEF Calm
<1>2. CASE \/ \E k \in Written, del \in BOOLEAN, sync \in BOOLEAN : Commit(k, del, sync)
           \/ \E t \in Tree, sync \in BOOLEAN : Retire(t, sync)
  <2>1. PICK e \in Entry : /\ e.seq = last + 1
                           /\ mems' = [mems EXCEPT ![cur.mem] = @ \cup {e}]
    BY <1>2, LoggedEffect
  <2>2. /\ last' = last + 1 /\ durable' \in {durable, last + 1}
        /\ UNCHANGED <<cur, fl, comp, readers>>
        /\ \A t \in Tree : dead'[t] = dead[t] \/ (dead[t] = 0 /\ dead'[t] \in Nat /\ last < dead'[t])
    BY <1>0, <1>2, LoggedEffect
  <2>3. Held(cur, readers)' = Held(cur, readers) /\ cur.mem \in Held(cur, readers)
    BY <2>2 DEF Held
  <2>4. cur.imm # cur.mem
    BY DEF Memory
  <2>5. Mem(cur.imm)' = Mem(cur.imm)
    BY <1>0, <2>1, <2>2, <2>4 DEF Mem
  <2>6. \A i \in MemIds : \A d \in mems'[i] : d.seq <= last'
    <3>1. \A i \in MemIds : \A d \in mems'[i] : d \in mems[i] \/ d = e
      BY <1>0, <2>1
    <3>2. \A i \in MemIds : \A d \in mems[i] : d.seq <= last /\ d.seq \in Nat
      BY <1>0 DEF Memory
    <3> QED
      BY <1>0, <2>1, <2>2, <3>1, <3>2
  <2>7. \A i \in MemIds \ Held(cur, readers)' : mems'[i] = {}
    BY <1>0, <2>1, <2>3 DEF Memory
  <2>8. ASSUME fl' # None
        PROVE  /\ fl'.upto <= durable' /\ \A d \in Mem(cur.imm)' : d.seq <= durable'
               /\ fl'.out = FlushOut(fl.at)'
    <3>1. fl # None /\ fl.upto \in Nat /\ fl.upto <= durable /\ durable <= durable'
          /\ durable' \in Nat
      BY <1>0, <2>2, <2>8 DEF Memory, Types, Flushing
    <3>2. \A d \in Mem(cur.imm) : d.seq <= durable /\ d \in Entry
      BY <3>1, FlushedSub DEF Memory
    <3>3. PICK n : n = fl.at
      OBVIOUS
    <3>4. FlushOut(n)' = FlushOut(n)
      BY <1>0, <2>2, <2>5, <3>1, FlushOutKept
    <3>5. fl'.out = FlushOut(fl.at)'
      BY <2>2, <3>1, <3>3, <3>4 DEF Memory
    <3>6. fl'.upto <= durable'
      BY <1>0, <2>2, <3>1
    <3>7. \A d \in Mem(cur.imm)' : d.seq <= durable'
      BY <1>0, <2>5, <3>1, <3>2
    <3> QED
      BY <3>5, <3>6, <3>7
  <2>9. /\ (fl' = None) = (cur'.imm = 0)
        /\ \A v \in {cur'} \cup {r.v : r \in readers'} : v.imm # cur'.mem
    BY <2>2 DEF Memory
  <2> QED
    BY <2>6, <2>7, <2>8, <2>9 DEF Memory
<1>3. ASSUME NEW runs \in Spills, Spilled(runs) PROVE Memory'
  <2>1. /\ cur' = Grown(cur, cur.imm, RunFiles(runs)) /\ last' = last + Len(runs) /\ durable' = last'
        /\ last + Len(runs) <= MaxSeq
    BY <1>3, RunsEffect
  <2>2. Len(runs) \in Nat
    BY <1>3, <2>1, RunFilesType
  <2>3. cur'.mem = cur.mem /\ cur'.imm = cur.imm
    BY <1>0, <2>1 DEF Grown, Version
  <2>4. UNCHANGED <<mems, fl, readers>>
    BY <1>3 DEF Spilled, Runs
  <2>5. last' \in Nat /\ last <= last' /\ durable' \in Nat /\ durable <= durable'
    BY <1>0, <2>1, <2>2
  <2>6. \A x \in Tree : dead'[x] = dead[x] \/ (dead[x] = 0 /\ dead'[x] \in Nat /\ last < dead'[x])
    BY <1>3, <2>5, RunsEffect
  <2> QED
    BY <2>3, <2>4, <2>5, <2>6, MemoryKept
<1>4. CASE Begin
  <2>1. /\ readers' = readers \cup {Pinned} /\ Pinned.v = cur
        /\ UNCHANGED <<cur, mems, last, durable, dead, fl>>
    BY <1>4 DEF Begin, Pinned
  <2>2. {cur} \cup {r.v : r \in readers'} = {cur} \cup {r.v : r \in readers}
    BY <2>1
  <2>3. Held(cur, readers)' = Held(cur, readers)
    BY <2>1, <2>2 DEF Held
  <2>4. FlushOut(fl.at)' = FlushOut(fl.at) /\ Mem(cur.imm)' = Mem(cur.imm)
    BY <2>1 DEF FlushOut, Flushed, Frozen, Mem, Gone, Newest
  <2>5. /\ (fl' = None) = (cur'.imm = 0)
        /\ \A i \in MemIds : \A e \in mems'[i] : e.seq <= last'
        /\ \A i \in MemIds \ Held(cur, readers)' : mems'[i] = {}
    BY <2>1, <2>3 DEF Memory
  <2>6. \A v \in {cur'} \cup {r.v : r \in readers'} : v.imm # cur'.mem
    BY <2>1, <2>2 DEF Memory
  <2>7. fl' # None => /\ fl'.upto <= durable' /\ \A e \in Mem(cur.imm)' : e.seq <= durable'
                      /\ fl'.out = FlushOut(fl.at)'
    BY <2>1, <2>4 DEF Memory
  <2> QED
    BY <2>5, <2>6, <2>7 DEF Memory
<1>5. ASSUME NEW r \in readers, EndRead(r) PROVE Memory'
  <2>1. /\ readers' = readers \ {r} /\ UNCHANGED <<cur, last, durable, dead, fl>>
        /\ mems' = [i \in DOMAIN mems |-> IF i \in Held(cur, readers') THEN mems[i] ELSE {}]
    BY <1>5 DEF EndRead, Freed
  <2>2. Held(cur, readers)' = Held(cur, readers') /\ cur.imm \in Held(cur, readers')
    BY <2>1 DEF Held
  <2>3. DOMAIN mems = MemIds
    BY <1>0
  <2>4. Mem(cur.imm)' = Mem(cur.imm)
    BY <1>0, <2>1, <2>2, <2>3 DEF Mem
  <2>5. \A n : FlushOut(n)' = FlushOut(n)
    BY <2>1, <2>4 DEF FlushOut, Flushed, Frozen, Gone, Newest
  <2>6. \A i \in MemIds : \A e \in mems'[i] : e.seq <= last'
    BY <2>1, <2>3 DEF Memory
  <2>7. \A i \in MemIds \ Held(cur, readers)' : mems'[i] = {}
    BY <2>1, <2>2, <2>3
  <2>8. /\ (fl' = None) = (cur'.imm = 0)
        /\ \A v \in {cur'} \cup {q.v : q \in readers'} : v.imm # cur'.mem
    BY <2>1 DEF Memory
  <2>9. fl' # None => /\ fl'.upto <= durable' /\ \A e \in Mem(cur.imm)' : e.seq <= durable'
                      /\ fl'.out = FlushOut(fl.at)'
    BY <2>1, <2>4, <2>5 DEF Memory
  <2> QED
    BY <2>6, <2>7, <2>8, <2>9 DEF Memory
<1>6. CASE Freeze /\ ~UNCHANGED <<cur, durable, fl>>
  <2>1. /\ fl = None /\ cur.imm = 0 /\ durable' = last
        /\ fl' = [at |-> 0, upto |-> last, out |-> {}]
        /\ cur'.mem \in MemIds /\ cur'.mem \notin Held(cur, readers) /\ cur'.imm = cur.mem
    BY <1>6, FreezeEffect
  <2>2. UNCHANGED <<mems, last, dead, readers>>
    BY <1>6 DEF Freeze
  <2>3. fl' # None
    BY <2>1, FlStep, NoneAssumption, VersionsAssumption, <1>0 DEF Flushing
  <2>4. Held(cur, readers)' = {cur'.mem, cur.mem} \cup UNION {{q.v.mem, q.v.imm} : q \in readers}
    BY <2>1, <2>2 DEF Held
  <2>5. Held(cur, readers) = {cur.mem, 0} \cup UNION {{q.v.mem, q.v.imm} : q \in readers}
    BY <2>1 DEF Held
  <2>6. \A i \in MemIds \ Held(cur, readers)' : mems'[i] = {}
    BY <1>0, <2>2, <2>4, <2>5 DEF Memory
  <2>7. \A v \in {cur'} \cup {q.v : q \in readers'} : v.imm # cur'.mem
    BY <2>1, <2>2, <2>5
  <2>8. Mem(cur.imm)' = mems[cur.mem]
    BY <1>0, <2>1, <2>2 DEF Mem
  <2>9. \A e \in Mem(cur.imm)' : e.seq <= durable'
    BY <1>0, <2>1, <2>8 DEF Memory
  <2>10. FlushOut(0)' = {}
    <3>1. Mem(cur.imm)' \in SUBSET Entry
      BY <1>0, <2>8
    <3>2. \A j \in Frozen' : ~(j < 0)
      BY <3>1, VersionsAssumption DEF Frozen, Entry, Key
    <3> QED
      BY <3>2 DEF FlushOut
  <2>11. fl'.out = FlushOut(fl.at)' /\ fl'.upto <= durable'
    BY <1>0, <2>1, <2>10
  <2>12. (fl' = None) = (cur'.imm = 0)
    BY <1>0, <2>1, <2>3
  <2>13. \A i \in MemIds : \A e \in mems'[i] : e.seq <= last'
    BY <2>2 DEF Memory
  <2> QED
    BY <2>6, <2>7, <2>9, <2>11, <2>12, <2>13 DEF Memory
<1>7. CASE Freeze /\ UNCHANGED <<cur, durable, fl>>
  BY <1>0, <1>7, MemoryKept DEF Freeze
<1>8. CASE FlushStep
  <2>1. /\ UNCHANGED <<last, durable, dead, readers>>
        /\ mems' = [i \in DOMAIN mems |-> IF i \in Held(cur', readers) THEN mems[i] ELSE {}]
    BY <1>8 DEF FlushStep, Freed
  <2>2. DOMAIN mems = MemIds /\ Held(cur, readers)' = Held(cur', readers)
    BY <1>0, <2>1 DEF Held
  <2>3. \A i \in MemIds : \A e \in mems'[i] : e.seq <= last'
    BY <2>1, <2>2 DEF Memory
  <2>4. \A i \in MemIds \ Held(cur, readers)' : mems'[i] = {}
    BY <2>1, <2>2
  <2>5. cur'.mem = cur.mem
    BY <1>8, MemKept
  <2>6. CASE cur' = cur /\ (fl = None => fl' = None)
           /\ (fl # None => fl' # None /\ fl'.upto = fl.upto /\ fl'.out = FlushOut(fl'.at))
    <3>1. Mem(cur.imm)' = Mem(cur.imm)
      <4>1. cur.imm \in Held(cur', readers)
        BY <2>6 DEF Held
      <4> QED
        BY <1>0, <2>1, <2>2, <2>6, <4>1 DEF Mem
    <3>2. \A n : FlushOut(n)' = FlushOut(n) \/ fl = None
      <4> TAKE n
      <4> QED
        BY <1>0, <2>1, <2>6, <3>1, FlushOutKept
    <3>3. PICK n : n = fl'.at
      OBVIOUS
    <3>4. fl' # None => fl'.out = FlushOut(fl.at)'
      BY <2>6, <3>2, <3>3
    <3>5. fl' # None => fl'.upto <= durable' /\ \A e \in Mem(cur.imm)' : e.seq <= durable'
      BY <2>1, <2>6, <3>1 DEF Memory
    <3>6. /\ (fl' = None) = (cur'.imm = 0)
          /\ \A v \in {cur'} \cup {q.v : q \in readers'} : v.imm # cur'.mem
      BY <2>1, <2>6 DEF Memory
    <3> QED
      BY <2>3, <2>4, <3>4, <3>5, <3>6 DEF Memory
  <2>7. CASE fl' = None /\ cur'.imm = 0
    <3>1. \A v \in {cur'} \cup {q.v : q \in readers'} : v.imm # cur'.mem
      BY <1>0, <2>1, <2>5, <2>7 DEF Memory
    <3> QED
      BY <2>3, <2>4, <2>7, <3>1 DEF Memory
  <2>8. CASE fl = None
    BY <1>8, <2>6, <2>8 DEF FlushStep
  <2>9. CASE fl # None
    <3>1. ASSUME NEW n \in Key, fl' = [at |-> n + 1, upto |-> fl.upto, out |-> FlushOut(n + 1)]
          PROVE  fl' # None /\ fl'.upto = fl.upto /\ fl'.out = FlushOut(fl'.at)
      <4>1. FlushOut(n + 1) \in SUBSET Entry /\ fl.upto \in Nat /\ n + 1 \in Nat
        BY <2>9, FlushedSub, VersionsAssumption DEF Types, Flushing, Key
      <4>2. fl' \in Flushing
        BY <3>1, <4>1 DEF Flushing
      <4> QED
        BY <3>1, <4>2, NoneAssumption
    <3>2. ASSUME cur' = Grown(cur, 0, OneFile(UNION {Flushed(k) : k \in Frozen})) PROVE cur'.imm = 0
      <4> DEFINE s == OneFile(UNION {Flushed(k) : k \in Frozen})
      <4>1. cur' = Grown(cur, 0, s)
        BY <3>2
      <4> HIDE DEF s
      <4> QED
        BY <1>0, <4>1 DEF Grown, Version
    <3> QED
      BY <1>8, <2>6, <2>7, <2>9, <3>1, <3>2, FlushEffect
  <2> QED
    BY <2>8, <2>9
<1>9. CASE FlushFails
  <2>1. /\ fl \in Flushing /\ fl # None /\ fl' = [fl EXCEPT !.at = 0, !.out = {}]
        /\ UNCHANGED <<cur, mems, last, durable, dead, readers>>
    BY <1>9 DEF FlushFails, Types
  <2>2. fl' \in Flushing /\ fl'.at = 0 /\ fl'.out = {} /\ fl'.upto = fl.upto
    BY <2>1 DEF Flushing
  <2>3. FlushOut(0) = {} /\ Mem(cur.imm)' = Mem(cur.imm)
    BY <2>1, FlushOutNone, FlushedSub DEF Mem
  <2>4. \A n : FlushOut(n)' = FlushOut(n)
    <3> TAKE n
    <3> QED
      BY <1>0, <2>1, <2>2, <2>3, FlushOutKept
  <2>5. fl'.out = FlushOut(fl.at)'
    BY <2>2, <2>3, <2>4
  <2>6. fl' # None
    BY <2>2, NoneAssumption
  <2>7. fl'.upto <= durable' /\ \A e \in Mem(cur.imm)' : e.seq <= durable'
    BY <2>1, <2>2, <2>3 DEF Memory
  <2>8. Held(cur, readers)' = Held(cur, readers)
    BY <2>1 DEF Held
  <2>9. /\ (fl' = None) = (cur'.imm = 0)
        /\ \A i \in MemIds : \A e \in mems'[i] : e.seq <= last'
        /\ \A i \in MemIds \ Held(cur, readers)' : mems'[i] = {}
        /\ \A v \in {cur'} \cup {q.v : q \in readers'} : v.imm # cur'.mem
    BY <2>1, <2>6, <2>8 DEF Memory
  <2> QED
    BY <2>5, <2>7, <2>9 DEF Memory
<1>10. CASE SweepDead \/ CompStart \/ CompFinish
  <2>1. cur'.mem = cur.mem /\ cur'.imm = cur.imm
    BY <1>10, MovesKeep
  <2>2. UNCHANGED <<mems, last, durable, dead, fl, readers>>
    BY <1>10 DEF SweepDead, CompStart, CompFinish
  <2> QED
    BY <1>0, <2>1, <2>2, MemoryKept
<1>11. CASE CompPause \/ CompFails
  BY <1>0, <1>11, MemoryKept DEF CompPause, CompFails
<1>12. ASSUME NEW n \in 0 .. MaxSeq, Crash(n) PROVE Memory'
  <2>1. /\ cur' = [cur EXCEPT !.mem = 1, !.imm = 0] /\ fl' = None /\ readers' = {} /\ last' = n
        /\ mems' = [i \in DOMAIN mems |->
                      IF i = 1 THEN {e \in Mem(cur.mem) \cup Mem(cur.imm) : e.seq <= n} ELSE {}]
    BY <1>12 DEF Crash
  <2>2. cur'.mem = 1 /\ cur'.imm = 0 /\ 1 \in MemIds /\ DOMAIN mems = MemIds
    BY <1>0, <2>1, VersionsAssumption DEF Version, MemIds
  <2>3. Held(cur, readers)' = {1, 0}
    BY <2>1, <2>2 DEF Held
  <2>4. /\ \A i \in MemIds : \A e \in mems'[i] : e.seq <= last'
        /\ \A i \in MemIds \ Held(cur, readers)' : mems'[i] = {}
    BY <2>1, <2>2, <2>3
  <2>5. (fl' = None) = (cur'.imm = 0)
    BY <2>1, <2>2
  <2>6. {cur'} \cup {q.v : q \in readers'} = {cur'}
    BY <2>1
  <2>7. \A v \in {cur'} \cup {q.v : q \in readers'} : v.imm # cur'.mem
    BY <2>2, <2>6
  <2> QED
    BY <2>1, <2>4, <2>5, <2>7 DEF Memory
<1> QED
  BY <1>1, <1>2, <1>3, <1>4, <1>5, <1>6, <1>7, <1>8, <1>9, <1>10, <1>11, <1>12, CalmSteps DEF Next, Spilled

---------------------------------------------------------------------------
(* What is committed, and where it is.                                     *)

\* The version that files are moved in: X leaves it and G comes into level l.
LEMMA Moved ==
  ASSUME NEW v \in Version, NEW X, NEW l \in Deep, NEW G \in SUBSET File
  PROVE  /\ Added(Without(v, X), l, G) \in Version
         /\ Added(Without(v, X), l, G).mem = v.mem /\ Added(Without(v, X), l, G).imm = v.imm
         /\ Added(Without(v, X), l, G).l0 = Dropped(v.l0, X)
         /\ \A m \in Deep : Added(Without(v, X), l, G).deep[m] =
                             IF m = l THEN (v.deep[m] \ X) \cup G ELSE v.deep[m] \ X
         /\ Files(Added(Without(v, X), l, G)) = (Files(v) \ X) \cup G
<1>1. PICK w \in Version : w = Without(v, X)
  BY WithoutVersion
<1>2. /\ w.mem = v.mem /\ w.imm = v.imm /\ w.l0 = Dropped(v.l0, X)
      /\ w.deep = [m \in Deep |-> v.deep[m] \ X] /\ Files(w) = Files(v) \ X
  BY <1>1, WithoutVersion
<1>3. PICK a \in Version : a = Added(w, l, G)
  BY AddedVersion
<1>4. /\ a.mem = w.mem /\ a.imm = w.imm /\ a.l0 = w.l0
      /\ a.deep = [w.deep EXCEPT ![l] = @ \cup G] /\ Files(a) = Files(w) \cup G
  BY <1>3, AddedVersion
<1>5. \A m \in Deep : a.deep[m] = IF m = l THEN (v.deep[m] \ X) \cup G ELSE v.deep[m] \ X
  BY <1>2, <1>4
<1> QED
  BY <1>1, <1>2, <1>3, <1>4, <1>5

\* A finished merge, the way files move.
LEMMA Merges ==
  ASSUME Types, History, Inputs, CompFinish
  PROVE  /\ comp \in Merging /\ comp # None /\ Kept(comp) \in SUBSET Entry
         /\ Kept(comp) \subseteq UNION comp.in
         /\ \E G \in SUBSET File :
              /\ cur' = Added(Without(cur, comp.in), comp.next, G)
              /\ UNION G = Kept(comp) /\ \A f, g \in G : f # g => Apart(f, g)
<1>1. PICK cuts \in SUBSET {d.key : d \in Kept(comp)} :
        cur' = Added(Without(cur, comp.in), comp.next, Cut(Kept(comp), cuts))
  BY FinishEffect
<1>2. comp \in Merging /\ comp # None
  BY FinishEffect
<1>3. Kept(comp) \in SUBSET Entry /\ Kept(comp) \subseteq UNION comp.in
  BY <1>2 DEF Kept, Merging, File
<1> QED
  BY <1>1, <1>2, <1>3, CutFiles

\* The sweep and the compactions put nothing into a version that was not there.
LEMMA MovesContain ==
  ASSUME Types, History, Inputs, SweepDead \/ CompStart \/ CompFinish
  PROVE  \A f \in Files(cur') : \A e \in f : \E g \in Files(cur) : e \in g
<1>0. cur \in Version
  BY DEF Types
<1>1. CASE SweepDead
  <2>1. cur' = cur \/ cur' = Without(cur, Swept)
    BY <1>1 DEF SweepDead
  <2>2. Files(Without(cur, Swept)) \subseteq Files(cur)
    BY <1>0, WithoutVersion
  <2> QED
    BY <2>1, <2>2
<1>2. ASSUME NEW X \in SUBSET Files(cur), NEW l \in Deep, NEW G \in SUBSET File,
             UNION G \subseteq UNION X, cur' = Added(Without(cur, X), l, G)
      PROVE  \A f \in Files(cur') : \A e \in f : \E g \in Files(cur) : e \in g
  <2>1. Files(cur') = (Files(cur) \ X) \cup G
    <3>1. G \in SUBSET File /\ l \in Deep /\ cur \in Version
      BY <1>0
    <3>2. Files(Added(Without(cur, X), l, G)) = (Files(cur) \ X) \cup G
      BY <3>1, Moved
    <3>3. PICK a : a = Added(Without(cur, X), l, G)
      OBVIOUS
    <3>4. cur' = a
      BY <1>2, <3>3
    <3> QED
      BY <3>2, <3>3, <3>4
  <2>2. \A f \in G : \A e \in f : e \in UNION X
    BY <1>2
  <2> QED
    BY <2>1, <2>2
<1>3. CASE CompStart
  <2>1. ASSUME cur' = Added(Without(cur, Alone0), 1, Alone0)
        PROVE  \A f \in Files(cur') : \A e \in f : \E g \in Files(cur) : e \in g
    <3>1. Alone0 \in SUBSET File /\ Alone0 \subseteq Files(cur) /\ 1 \in Deep
      BY InputsType DEF Files
    <3> QED
      BY <1>2, <2>1, <3>1
  <2>2. ASSUME NEW l \in Deep \ {Levels - 1}, NEW f \in cur.deep[l],
               cur' = Added(Without(cur, {f}), l + 1, {f})
        PROVE  \A h \in Files(cur') : \A e \in h : \E g \in Files(cur) : e \in g
    <3>1. {f} \in SUBSET File /\ l + 1 \in Deep /\ {f} \subseteq Files(cur)
      BY InputsType DEF Files
    <3> QED
      BY <1>2, <2>2, <3>1
  <2>3. ASSUME cur' = cur
        PROVE  \A f \in Files(cur') : \A e \in f : \E g \in Files(cur) : e \in g
    BY <2>3
  <2> QED
    BY <1>3, <2>1, <2>2, <2>3, StartEffect
<1>4. CASE CompFinish
  <2>1. PICK G \in SUBSET File : /\ cur' = Added(Without(cur, comp.in), comp.next, G)
                                 /\ UNION G = Kept(comp)
    BY <1>4, Merges
  <2>2. comp \in Merging /\ comp # None /\ Kept(comp) \subseteq UNION comp.in
    BY <1>4, Merges
  <2>3. comp.in \subseteq Files(cur) /\ comp.next \in Deep
    BY <2>2 DEF Inputs, Merging
  <2> QED
    BY <1>2, <2>1, <2>2, <2>3
<1> QED
  BY <1>1, <1>3, <1>4

\* What a step that is not a crash commits, and where that and what was there goes.
LEMMA Contained ==
  ASSUME Types, Slots, Memory, History, Inputs, FilesDurable, [Next]_vars,
         \A n \in 0 .. MaxSeq : ~Crash(n)
  PROVE  /\ last <= last' /\ durable <= durable'
         /\ \E X \in SUBSET Entry :
              /\ hist' = hist \cup X
              /\ \A e \in X : last < e.seq /\ e.seq <= last'
              /\ \A d, e \in X : d.key = e.key /\ d.seq = e.seq => d = e
              /\ \A i \in MemIds : mems'[i] \subseteq mems[i] \cup X
              /\ \A f \in Files(cur') : \A e \in f : e \in hist' /\ e.seq <= durable'
<1> DEFINE Goal(X) == /\ hist' = hist \cup X
                      /\ \A e \in X : last < e.seq /\ e.seq <= last'
                      /\ \A d, e \in X : d.key = e.key /\ d.seq = e.seq => d = e
                      /\ \A i \in MemIds : mems'[i] \subseteq mems[i] \cup X
                      /\ \A f \in Files(cur') : \A e \in f : e \in hist' /\ e.seq <= durable'
           Ends == last <= last' /\ durable <= durable' /\ \E X \in SUBSET Entry : Goal(X)
<1>0. /\ last \in Nat /\ durable \in Nat /\ durable <= last /\ mems \in [MemIds -> SUBSET Entry]
      /\ \A e \in Entry : e.seq \in Nat
      /\ cur \in Version /\ cur.mem \in MemIds /\ cur.imm \in {0} \cup MemIds /\ 0 \notin MemIds
      /\ hist \subseteq Entry
  BY VersionsAssumption DEF Types, Entry, Version, Reader, MemIds
<1>1. \A f \in Files(cur) : \A e \in f : e \in hist /\ e.seq <= durable
  BY DEF History, FilesDurable
<1>2. ASSUME hist' = hist, last' = last, durable' \in Nat, durable <= durable',
             \A i \in MemIds : mems'[i] \subseteq mems[i],
             \A f \in Files(cur') : \A e \in f : e \in hist /\ e.seq <= durable'
      PROVE  Ends
  <2>1. last <= last' /\ durable <= durable'
    BY <1>0, <1>2
  <2>2. Goal({})
    BY <1>2
  <2> QED
    BY <2>1, <2>2
<1>3. ASSUME hist' = hist, last' = last, durable' \in Nat, durable <= durable',
             \A i \in MemIds : mems'[i] \subseteq mems[i],
             \A f \in Files(cur') : \A e \in f : \E g \in Files(cur) : e \in g
      PROVE  Ends
  <2>1. \A f \in Files(cur') : \A e \in f : e \in hist /\ e.seq <= durable /\ e.seq \in Nat
    BY <1>0, <1>1, <1>3
  <2>2. \A f \in Files(cur') : \A e \in f : e \in hist /\ e.seq <= durable'
    BY <1>0, <1>3, <2>1
  <2> QED
    BY <1>2, <1>3, <2>2
<1> HIDE DEF Ends, Goal
<1> SUFFICES Ends
  BY DEF Ends, Goal
<1>4. CASE Calm
  BY <1>0, <1>3, <1>4 DEF Calm
<1>5. CASE Begin \/ FlushFails \/ CompPause \/ CompFails
  BY <1>0, <1>3, <1>5 DEF Begin, FlushFails, CompPause, CompFails
<1>6. ASSUME NEW r \in readers, EndRead(r) PROVE Ends
  <2>1. UNCHANGED <<cur, last, durable, hist>> /\ mems' = Freed(cur, readers')
    BY <1>6 DEF EndRead
  <2>2. \A i \in MemIds : mems'[i] \subseteq mems[i]
    BY <1>0, <2>1 DEF Freed
  <2> QED
    BY <1>0, <1>3, <2>1, <2>2
<1>7. CASE Freeze
  <2>1. UNCHANGED <<mems, last, hist>>
    BY <1>7 DEF Freeze
  <2>2. CASE UNCHANGED <<cur, durable, fl>>
    BY <1>0, <1>3, <2>1, <2>2
  <2>3. CASE ~UNCHANGED <<cur, durable, fl>>
    BY <1>0, <1>3, <1>7, <2>1, <2>3, FreezeEffect
  <2> QED
    BY <2>2, <2>3
<1>8. CASE SweepDead \/ CompStart \/ CompFinish
  <2>1. UNCHANGED <<mems, last, durable, hist>>
    BY <1>8 DEF SweepDead, CompStart, CompFinish
  <2> QED
    BY <1>0, <1>3, <1>8, <2>1, MovesContain
<1>9. CASE \/ \E k \in Written, del \in BOOLEAN, sync \in BOOLEAN : Commit(k, del, sync)
           \/ \E t \in Tree, sync \in BOOLEAN : Retire(t, sync)
  <2>1. PICK e \in Entry : /\ e.seq = last + 1 /\ hist' = hist \cup {e}
                           /\ mems' = [mems EXCEPT ![cur.mem] = @ \cup {e}]
    BY <1>9, LoggedEffect
  <2>2. last' = last + 1 /\ durable' \in {durable, last + 1} /\ cur' = cur
    BY <1>9, LoggedEffect
  <2>3. durable <= durable' /\ last <= last' /\ last < e.seq /\ e.seq <= last' /\ durable' \in Nat
    BY <1>0, <2>1, <2>2
  <2>4. \A i \in MemIds : mems'[i] \subseteq mems[i] \cup {e}
    BY <1>0, <2>1
  <2>5. \A f \in Files(cur') : \A d \in f : d \in hist' /\ d.seq <= durable'
    <3>1. \A f \in Files(cur) : \A d \in f : d \in hist /\ d.seq <= durable /\ d.seq \in Nat
      BY <1>0, <1>1
    <3> QED
      BY <1>0, <2>1, <2>2, <2>3, <3>1
  <2>6. Goal({e})
    BY <2>1, <2>3, <2>4, <2>5 DEF Goal
  <2> QED
    BY <2>3, <2>6 DEF Ends
<1>10. ASSUME NEW runs \in Spills, Spilled(runs) PROVE Ends
  <2>1. /\ cur' = Grown(cur, cur.imm, RunFiles(runs)) /\ last' = last + Len(runs) /\ durable' = last'
        /\ last + Len(runs) <= MaxSeq
        /\ hist' = hist \cup UNION ToSet(RunFiles(runs))
        /\ \A i \in 1 .. Len(runs) : RunFiles(runs)[i] = RunFile(runs, i)
    BY <1>10, RunsEffect
  <2>2. /\ RunFiles(runs) \in Seq(File) /\ Len(RunFiles(runs)) = Len(runs) /\ Len(runs) \in Nat
        /\ \A i \in 1 .. Len(runs) : \A e \in RunFile(runs, i) : e.seq = last + i
    BY <1>10, <2>1, RunFilesType
  <2>3. PICK s : s = RunFiles(runs)
    OBVIOUS
  <2>4. ToSet(s) = {s[i] : i \in 1 .. Len(runs)}
    BY <2>2, <2>3 DEF ToSet
  <2>5. \A e \in UNION ToSet(s) : \E i \in 1 .. Len(runs) : e \in RunFile(runs, i)
    BY <2>1, <2>3, <2>4
  <2>6. \A e \in UNION ToSet(s) : last < e.seq /\ e.seq <= last'
    BY <1>0, <2>1, <2>2, <2>5
  <2>7. \A d, e \in UNION ToSet(s) : d.key = e.key /\ d.seq = e.seq => d = e
    <3>1. TAKE d, e \in UNION ToSet(s)
    <3>2. HAVE d.key = e.key /\ d.seq = e.seq
    <3>3. PICK i \in 1 .. Len(runs) : d \in RunFile(runs, i)
      BY <2>5
    <3>4. PICK j \in 1 .. Len(runs) : e \in RunFile(runs, j)
      BY <2>5
    <3>5. i = j
      BY <1>0, <2>2, <3>2, <3>3, <3>4
    <3> QED
      BY <3>2, <3>3, <3>4, <3>5 DEF RunFile
  <2>8. ToSet(s) \in SUBSET File
    BY <2>2, <2>3, <2>4
  <2>9. UNION ToSet(s) \in SUBSET Entry
    BY <2>8 DEF File
  <2>10. Files(cur') = Files(cur) \cup ToSet(s)
    <3>1. PICK a : a = Grown(cur, cur.imm, s) /\ Files(a) = Files(cur) \cup ToSet(s)
      BY <1>0, <2>2, <2>3, GrownVersion
    <3> QED
      BY <2>1, <2>3, <3>1
  <2>11. durable' \in Nat /\ last <= last' /\ durable <= durable'
    BY <1>0, <2>1, <2>2
  <2>12. \A f \in Files(cur') : \A e \in f : e \in hist' /\ e.seq <= durable'
    <3>1. \A f \in Files(cur) : \A e \in f : e \in hist /\ e.seq <= durable /\ e.seq \in Nat
      BY <1>0, <1>1
    <3>2. \A f \in ToSet(s) : \A e \in f : e \in hist' /\ e.seq <= durable'
      BY <2>1, <2>3, <2>6
    <3>3. \A f \in Files(cur) : \A e \in f : e \in hist' /\ e.seq <= durable'
      BY <1>0, <2>1, <2>11, <3>1
    <3> QED
      BY <2>10, <3>2, <3>3
  <2>13. mems' = mems
    BY <1>10 DEF Spilled, Runs
  <2>14. Goal(UNION ToSet(s))
    BY <2>1, <2>3, <2>6, <2>7, <2>12, <2>13 DEF Goal
  <2> QED
    BY <2>9, <2>11, <2>14 DEF Ends
<1>11. CASE FlushStep
  <2>1. UNCHANGED <<last, durable, hist>> /\ mems' = Freed(cur', readers)
    BY <1>11 DEF FlushStep
  <2>2. \A i \in MemIds : mems'[i] \subseteq mems[i]
    BY <1>0, <2>1 DEF Freed
  <2>3. CASE cur' = cur
    BY <1>0, <1>3, <2>1, <2>2, <2>3
  <2>4. CASE fl # None /\ cur' # cur
    <3>1. PICK out : out = UNION {Flushed(k) : k \in Frozen}
      OBVIOUS
    <3>2. cur' = Grown(cur, 0, OneFile(out))
      BY <1>11, <2>4, <3>1, FlushEffect
    <3>3. out \in SUBSET Entry /\ out \subseteq Mem(cur.imm)
      BY <3>1, FlushedSub
    <3>4. OneFile(out) \in Seq(File) /\ ToSet(OneFile(out)) \subseteq {out}
      BY <3>3, OneFileType
    <3>5. Files(cur') \subseteq Files(cur) \cup {out}
      <4>1. PICK a : a = Grown(cur, 0, OneFile(out)) /\ Files(a) = Files(cur) \cup ToSet(OneFile(out))
        BY <1>0, <3>4, GrownVersion
      <4> QED
        BY <3>2, <3>4, <4>1
    <3>6. \A e \in out : e \in hist /\ e.seq <= durable
      <4>1. cur.imm \in MemIds
        BY <1>0, <2>4 DEF Memory
      <4>2. Mem(cur.imm) = mems[cur.imm]
        BY <1>0, <4>1 DEF Mem
      <4> QED
        BY <2>4, <3>3, <4>1, <4>2 DEF Memory, History
    <3>7. \A f \in Files(cur') : \A e \in f : e \in hist /\ e.seq <= durable
      BY <1>1, <3>5, <3>6
    <3> QED
      BY <1>0, <1>2, <2>1, <2>2, <3>7
  <2>5. CASE fl = None
    BY <1>11, <2>3, <2>5 DEF FlushStep
  <2> QED
    BY <2>3, <2>4, <2>5
<1> QED
  BY <1>4, <1>5, <1>6, <1>7, <1>8, <1>9, <1>10, <1>11, CalmSteps DEF Next, Spilled

\* What a crash leaves.
LEMMA CrashEffect ==
  ASSUME Types, NEW n \in 0 .. MaxSeq, Crash(n)
  PROVE  /\ n \in Nat /\ durable <= n /\ n <= last
         /\ last' = n /\ durable' = n /\ hist' = {e \in hist : e.seq <= n}
         /\ cur' \in Version /\ cur'.mem = 1 /\ cur'.imm = 0 /\ cur'.l0 = cur.l0
         /\ cur'.deep = cur.deep /\ Files(cur') = Files(cur)
         /\ mems' \in [MemIds -> SUBSET Entry] /\ 1 \in MemIds
         /\ mems'[1] = {e \in Mem(cur.mem) \cup Mem(cur.imm) : e.seq <= n}
         /\ \A i \in MemIds \ {1} : mems'[i] = {}
         /\ readers' = {} /\ fl' = None /\ comp' = None
         /\ \A t \in Tree : dead'[t] = IF dead[t] <= n THEN dead[t] ELSE 0
<1>1. /\ cur' = [cur EXCEPT !.mem = 1, !.imm = 0] /\ last' = n /\ durable' = n
      /\ hist' = {e \in hist : e.seq <= n} /\ n \in durable .. last
      /\ mems' = [i \in DOMAIN mems |->
                    IF i = 1 THEN {e \in Mem(cur.mem) \cup Mem(cur.imm) : e.seq <= n} ELSE {}]
      /\ readers' = {} /\ fl' = None /\ comp' = None
      /\ dead' = [t \in Tree |-> IF dead[t] <= n THEN dead[t] ELSE 0]
  BY DEF Crash
<1>2. cur \in Version /\ DOMAIN mems = MemIds /\ 1 \in MemIds
  BY VersionsAssumption DEF Types, MemIds
<1>3. /\ cur' \in Version /\ cur'.mem = 1 /\ cur'.imm = 0 /\ cur'.l0 = cur.l0
      /\ cur'.deep = cur.deep
  BY <1>1, <1>2 DEF Version
<1>4. Files(cur') = Files(cur)
  BY <1>3 DEF Files
<1>5. mems' \in [MemIds -> SUBSET Entry]
  BY MemsStep DEF Next, Spilled
<1>6. n \in Nat /\ durable <= n /\ n <= last
  BY <1>1 DEF Types
<1> QED
  BY <1>1, <1>2, <1>3, <1>4, <1>5, <1>6

\* Every write keeps its number, and what a file has is durable.
LEMMA HistoryStep ==
  ASSUME Types, Slots, Memory, History, Inputs, FilesDurable, [Next]_vars
  PROVE  hist' \subseteq Entry /\ History' /\ FilesDurable'
<1>0. /\ last \in Nat /\ hist \subseteq Entry /\ \A e \in Entry : e.seq \in Nat
      /\ durable \in Nat /\ durable <= last
  BY VersionsAssumption DEF Types, Entry
<1>1. CASE \A n \in 0 .. MaxSeq : ~Crash(n)
  <2>1. last <= last' /\ durable <= durable'
    BY <1>1, Contained
  <2>2. PICK X \in SUBSET Entry :
              /\ hist' = hist \cup X
              /\ \A e \in X : last < e.seq /\ e.seq <= last'
              /\ \A d, e \in X : d.key = e.key /\ d.seq = e.seq => d = e
              /\ \A i \in MemIds : mems'[i] \subseteq mems[i] \cup X
              /\ \A f \in Files(cur') : \A e \in f : e \in hist' /\ e.seq <= durable'
    BY <1>1, Contained
  <2>3. hist' \subseteq Entry
    BY <1>0, <2>2
  <2>4. \A e \in hist : e.seq <= last /\ e.seq \in Nat
    BY <1>0 DEF History
  <2>5. last' \in Nat
    BY NumbersStep
  <2>6. \A e \in hist' : e.seq <= last'
    BY <1>0, <2>1, <2>2, <2>4, <2>5
  <2>7. \A d, e \in hist' : d.key = e.key /\ d.seq = e.seq => d = e
    <3>1. \A d \in hist, e \in X : d.seq # e.seq
      BY <1>0, <2>2, <2>4
    <3> QED
      BY <2>2, <3>1 DEF History
  <2>8. \A i \in MemIds : mems'[i] \subseteq hist'
    BY <2>2 DEF History
  <2>9. \A f \in Files(cur)' : f \subseteq hist' /\ \A e \in f : e.seq <= durable'
    BY <2>2
  <2>10. \A r \in readers' : \A f \in Files(r.v) : f \subseteq hist'
    <3>1. \A r \in readers' : r \in readers \/ r = Pinned
      BY ReadersStep
    <3> QED
      BY <2>2, <3>1 DEF History, Pinned
  <2> QED
    BY <2>3, <2>6, <2>7, <2>8, <2>9, <2>10 DEF History, FilesDurable
<1>2. ASSUME NEW n \in 0 .. MaxSeq, Crash(n) PROVE hist' \subseteq Entry /\ History' /\ FilesDurable'
  <2>1. /\ n \in Nat /\ durable <= n /\ last' = n /\ durable' = n /\ hist' = {e \in hist : e.seq <= n}
        /\ Files(cur') = Files(cur) /\ readers' = {}
    BY <1>2, CrashEffect
  <2>2. /\ mems'[1] = {e \in Mem(cur.mem) \cup Mem(cur.imm) : e.seq <= n}
        /\ \A i \in MemIds \ {1} : mems'[i] = {}
    BY <1>2, CrashEffect
  <2>3. \A e \in Mem(cur.mem) \cup Mem(cur.imm) : e \in hist
    BY DEF Mem, History, Types, Version
  <2>4. \A i \in MemIds : mems'[i] \subseteq hist'
    BY <2>1, <2>2, <2>3
  <2>5. \A f \in Files(cur) : \A e \in f : e \in hist /\ e.seq <= durable /\ e.seq \in Nat
    BY <1>0 DEF History, FilesDurable
  <2>6. \A f \in Files(cur)' : f \subseteq hist' /\ \A e \in f : e.seq <= durable'
    BY <1>0, <2>1, <2>5
  <2>7. \A e \in hist' : e.seq <= last'
    BY <2>1
  <2>8. \A d, e \in hist' : d.key = e.key /\ d.seq = e.seq => d = e
    BY <2>1 DEF History
  <2> QED
    BY <1>0, <2>1, <2>4, <2>6, <2>7, <2>8 DEF History, FilesDurable
<1> QED
  BY <1>1, <1>2

\* The types.
LEMMA TypesStep ==
  ASSUME Types, Slots, Memory, History, Inputs, FilesDurable, [Next]_vars PROVE Types'
<1>1. /\ last' \in 0 .. MaxSeq /\ durable' \in 0 .. last'
      /\ dead' \in [Tree -> 0 .. last'] /\ sweep' \in BOOLEAN
  BY NumbersStep
<1>2. cur' \in Version /\ mems' \in [MemIds -> SUBSET Entry]
  BY CurStep, MemsStep
<1>3. (fl' # None => fl' \in Flushing) /\ (comp' # None => comp' \in Merging)
  BY FlStep, CompStep
<1>4. readers' \subseteq Reader /\ \A r \in readers' : r.snap <= durable'
  BY ReadersStep
<1>5. todo' \in Seq(Steps) /\ hist' \subseteq Entry
  BY SlotsStep, HistoryStep
<1> QED
  BY <1>1, <1>2, <1>3, <1>4, <1>5 DEF Types

---------------------------------------------------------------------------
(* The order of the levels, kept.                                          *)

\* A version's order, with the memtables of m.
MemOf(m, i)   == IF i = 0 THEN {} ELSE m[i]
Stacked(m, v) == Stack(MemOf(m, v.mem), MemOf(m, v.imm), v)

\* Layers, of the memtables there are and of those there will be.
LEMMA LayersStacked ==
  /\ \A v : Layers(v) <=> Stacked(mems, v)
  /\ Layers(cur)' <=> Stacked(mems', cur')
  /\ (\A r \in readers : Layers(r.v))' <=> \A r \in readers' : Stacked(mems', r.v)
BY DEF Layers, Stacked, Mem, MemOf

\* The order of a version whose memtables are others.
LEMMA StackMem ==
  ASSUME NEW M, NEW I, NEW v, Stack(M, I, v), NEW w, w.l0 = v.l0, w.deep = v.deep,
         NEW N, NEW J, Newer(N, J), \A f \in Files(v) : Newer(N, f) /\ Newer(J, f)
  PROVE  Stack(N, J, w)
<1>1. Files(w) = Files(v)
  BY DEF Files
<1> QED
  BY <1>1 DEF Stack

\* Files moved from level to level, where they fit.
LEMMA StackMoved ==
  ASSUME NEW M, NEW I, NEW v \in Version, Stack(M, I, v), NEW X, NEW l \in Deep, NEW G \in SUBSET File,
         \A g \in G : Newer(M, g) /\ Newer(I, g),
         \A g \in G : \A i \in DOMAIN v.l0 : v.l0[i] \notin X => Newer(v.l0[i], g),
         \A g \in G : \A m \in Deep : \A f \in v.deep[m] \ X :
            /\ m < l => Newer(f, g)
            /\ m = l => Apart(f, g)
            /\ m > l => Newer(g, f),
         \A f, g \in G : f # g => Apart(f, g)
  PROVE  Stack(M, I, Added(Without(v, X), l, G))
<1>1. PICK w \in Version : w = Without(v, X)
  BY WithoutVersion
<1>2. w.l0 = Dropped(v.l0, X) /\ w.deep = [m \in Deep |-> v.deep[m] \ X]
  BY <1>1, WithoutVersion
<1>3. Stack(M, I, w)
  BY <1>1, StackWithout
<1>4. v.l0 \in Seq(File)
  BY Fields
<1>5. \A i \in DOMAIN w.l0 : \E j \in DOMAIN v.l0 : w.l0[i] = v.l0[j] /\ v.l0[j] \notin X
  <2>1. ToSet(w.l0) = ToSet(v.l0) \ X
    BY <1>2, <1>4, DroppedSet
  <2> QED
    BY <2>1 DEF ToSet
<1>6. \A g \in G : Fits(M, I, w, l, g)
  <2> TAKE g \in G
  <2>1. \A i \in DOMAIN w.l0 : Newer(w.l0[i], g)
    BY <1>5
  <2>2. \A m \in Deep : w.deep[m] = v.deep[m] \ X
    BY <1>2
  <2> QED
    BY <2>1, <2>2 DEF Fits
<1>7. Stack(M, I, Added(w, l, G))
  BY <1>3, <1>6, StackAdded
<1> QED
  BY <1>1, <1>7

\* What the newest entry does to the order.
LEMMA NewerPlus ==
  ASSUME NEW A, NEW B, Newer(A, B), NEW e, \A d \in B : e.seq > d.seq
  PROVE  Newer(A \cup {e}, B)
BY DEF Newer

\* The versions that stay held keep their order, but for a crash.
LEMMA LayersKept ==
  ASSUME Types, Slots, Memory, History, Inputs, [Next]_vars,
         \A n \in 0 .. MaxSeq : ~Crash(n),
         NEW v, v \in {cur} \cup {r.v : r \in readers}, v \in {cur'} \cup {r.v : r \in readers'},
         Layers(v), \A f \in Files(v) : f \subseteq hist
  PROVE  Stacked(mems', v)
<1>0. /\ mems \in [MemIds -> SUBSET Entry] /\ v \in Version
      /\ v.mem \in MemIds /\ v.imm \in {0} \cup MemIds /\ 0 \notin MemIds /\ Stacked(mems, v)
      /\ cur \in Version /\ cur.mem \in MemIds
  BY HeldVersion, LayersStacked
<1>1. CASE mems' = mems
  BY <1>0, <1>1
<1>2. ASSUME mems' = [i \in DOMAIN mems |-> IF i \in Held(cur', readers') THEN mems[i] ELSE {}]
      PROVE  Stacked(mems', v)
  <2>1. v.mem \in Held(cur', readers') /\ v.imm \in Held(cur', readers')
    BY DEF Held
  <2>2. MemOf(mems', v.mem) = MemOf(mems, v.mem) /\ MemOf(mems', v.imm) = MemOf(mems, v.imm)
    BY <1>0, <1>2, <2>1 DEF MemOf
  <2> QED
    BY <1>0, <2>2 DEF Stacked
<1>3. CASE \/ \E k \in Written, del \in BOOLEAN, sync \in BOOLEAN : Commit(k, del, sync)
           \/ \E t \in Tree, sync \in BOOLEAN : Retire(t, sync)
  <2>1. PICK e \in Entry : e.seq = last + 1 /\ mems' = [mems EXCEPT ![cur.mem] = @ \cup {e}]
    BY <1>3, LoggedEffect
  <2>2. v.imm # cur.mem
    BY DEF Memory
  <2>3. MemOf(mems', v.imm) = MemOf(mems, v.imm)
    BY <1>0, <2>1, <2>2 DEF MemOf
  <2>4. \/ MemOf(mems', v.mem) = MemOf(mems, v.mem)
        \/ MemOf(mems', v.mem) = MemOf(mems, v.mem) \cup {e}
    BY <1>0, <2>1 DEF MemOf
  <2>5. \A d \in hist : d.seq <= last /\ d.seq \in Nat
    BY VersionsAssumption DEF History, Types, Entry
  <2>6. \A d \in hist : e.seq > d.seq
    BY <2>1, <2>5 DEF Types
  <2>7. MemOf(mems, v.imm) \subseteq hist
    BY <1>0 DEF MemOf, History
  <2> DEFINE M == MemOf(mems, v.mem)
             N == MemOf(mems', v.mem)
             I == MemOf(mems, v.imm)
  <2>8. Stack(M, I, v)
    BY <1>0 DEF Stacked
  <2>9. N = M \/ N = M \cup {e}
    BY <2>4
  <2>10. MemOf(mems', v.imm) = I /\ I \subseteq hist
    BY <2>3, <2>7
  <2> HIDE DEF M, N, I
  <2>11. Newer(N, I)
    BY <2>6, <2>8, <2>9, <2>10, NewerPlus DEF Stack
  <2>12. \A f \in Files(v) : Newer(N, f) /\ Newer(I, f)
    <3>1. TAKE f \in Files(v)
    <3>2. Newer(M, f) /\ Newer(I, f) /\ f \subseteq hist
      BY <2>8 DEF Stack
    <3>3. \A d \in f : e.seq > d.seq
      BY <2>6, <3>2
    <3> QED
      BY <2>9, <3>2, <3>3, NewerPlus
  <2>13. Stack(N, I, v)
    BY <2>8, <2>11, <2>12, StackMem
  <2> QED
    BY <2>10, <2>13 DEF Stacked, N
<1>4. CASE \E r \in readers : EndRead(r)
  BY <1>2, <1>4 DEF EndRead, Freed
<1>5. CASE FlushStep
  BY <1>2, <1>5 DEF FlushStep, Freed
<1>6. ASSUME NEW runs \in Spills, Spilled(runs) PROVE mems' = mems
  BY <1>6 DEF Spilled, Runs
<1>7. CASE \/ Begin \/ Freeze \/ FlushFails \/ SweepDead
           \/ CompStart \/ CompPause \/ CompFinish \/ CompFails
  BY <1>1, <1>7 DEF Begin, Freeze, FlushFails, SweepDead, CompStart, CompPause, CompFinish, CompFails
<1>8. CASE Calm
  BY <1>1, <1>8 DEF Calm
<1> QED
  BY <1>1, <1>3, <1>4, <1>5, <1>6, <1>7, <1>8, CalmSteps DEF Next, Spilled

\* Where the files that a compaction moves as they are go.
LEMMA StartLayers ==
  ASSUME Types, Layers(cur), CompStart
  PROVE  Stack(Mem(cur.mem), Mem(cur.imm), cur')
<1>0. cur \in Version
  BY DEF Types
<1> DEFINE M == Mem(cur.mem)
           I == Mem(cur.imm)
<1>1. Stack(M, I, cur)
  BY DEF Layers
<1> HIDE DEF M, I
<1> SUFFICES Stack(M, I, cur')
  BY DEF M, I
<1>2. /\ \A f \in Files(cur) : Newer(M, f) /\ Newer(I, f)
      /\ \A i \in DOMAIN cur.l0 : \A l \in Deep : \A g \in cur.deep[l] : Newer(cur.l0[i], g)
      /\ \A l, m \in Deep : l < m => \A f \in cur.deep[l], g \in cur.deep[m] : Newer(f, g)
      /\ \A l \in Deep : \A f, g \in cur.deep[l] : f # g => Apart(f, g)
  BY <1>1 DEF Stack
<1>3. /\ \A i \in DOMAIN cur.l0 : cur.l0[i] \in File /\ cur.l0[i] \in Files(cur)
      /\ \A l \in Deep : \A f \in cur.deep[l] : f \in File /\ f \in SUBSET Entry /\ f \in Files(cur)
      /\ \A f \in File : f \in SUBSET Entry
  <2>1. cur.l0 \in Seq(File) /\ cur.deep \in [Deep -> SUBSET File]
    BY <1>0, Fields
  <2> QED
    BY <2>1 DEF Files, ToSet, File
<1>4. ASSUME cur' = Added(Without(cur, Alone0), 1, Alone0) PROVE Stack(M, I, cur')
  <2>1. Alone0 \in SUBSET File /\ 1 \in Deep /\ \A l \in Deep : l >= 1 /\ l \in Nat
    BY InputsType
  <2>2. \A g \in Alone0 : \E a \in DOMAIN cur.l0 : g = cur.l0[a] /\ L0Alone(a)
    BY DEF Alone0
  <2>3. \A a, j \in DOMAIN cur.l0 : L0Alone(a) /\ j # a => Apart(cur.l0[a], cur.l0[j])
    BY <1>3, OverlapApart DEF L0Alone
  <2>4. \A a \in DOMAIN cur.l0 : \A f \in cur.deep[1] : L0Alone(a) => Apart(cur.l0[a], f)
    BY <1>3, <2>1, OverlapApart DEF L0Alone
  <2>5. \A g \in Alone0 : Newer(M, g) /\ Newer(I, g)
    BY <1>2, <1>3, <2>2
  <2>6. \A g \in Alone0 : \A i \in DOMAIN cur.l0 : cur.l0[i] \notin Alone0 => Newer(cur.l0[i], g)
    <3>1. TAKE g \in Alone0
    <3>2. TAKE i \in DOMAIN cur.l0
    <3>3. HAVE cur.l0[i] \notin Alone0
    <3>4. PICK a \in DOMAIN cur.l0 : g = cur.l0[a] /\ L0Alone(a)
      BY <2>2
    <3>5. Apart(g, cur.l0[i])
      BY <2>3, <3>3, <3>4
    <3> QED
      BY <1>3, <3>4, <3>5, ApartNewer
  <2>7. \A g \in Alone0 : \A m \in Deep : \A f \in cur.deep[m] \ Alone0 :
            /\ m < 1 => Newer(f, g)
            /\ m = 1 => Apart(f, g)
            /\ m > 1 => Newer(g, f)
    <3>1. TAKE g \in Alone0
    <3>2. TAKE m \in Deep
    <3>3. TAKE f \in cur.deep[m] \ Alone0
    <3>4. PICK a \in DOMAIN cur.l0 : g = cur.l0[a] /\ L0Alone(a)
      BY <2>2
    <3>5. m = 1 => Apart(g, f)
      BY <2>4, <3>4
    <3>6. m = 1 => Apart(f, g)
      BY <3>5 DEF Apart
    <3>7. Newer(g, f) /\ ~(m < 1)
      BY <1>2, <2>1, <3>4
    <3> QED
      BY <3>6, <3>7
  <2>8. \A f, g \in Alone0 : f # g => Apart(f, g)
    BY <2>2, <2>3
  <2>9. Stack(M, I, Added(Without(cur, Alone0), 1, Alone0))
    BY <1>0, <1>1, <2>1, <2>5, <2>6, <2>7, <2>8, StackMoved
  <2> QED
    BY <1>4, <2>9
<1>5. ASSUME NEW l \in Deep \ {Levels - 1}, NEW f \in cur.deep[l], Below(l, f) = {},
             cur' = Added(Without(cur, {f}), l + 1, {f})
      PROVE  Stack(M, I, cur')
  <2>1. l + 1 \in Deep /\ f \in File /\ f \in Files(cur) /\ \A m \in Deep : m \in Nat
    BY <1>3, InputsType
  <2>2. Newer(M, f) /\ Newer(I, f)
    BY <1>2, <2>1
  <2>3. \A i \in DOMAIN cur.l0 : Newer(cur.l0[i], f)
    BY <1>2
  <2>4. \A h \in cur.deep[l + 1] : Apart(h, f)
    <3>1. TAKE h \in cur.deep[l + 1]
    <3>2. ~Overlap(f, h) /\ h \in File
      BY <1>3, <1>5, <2>1 DEF Below
    <3>3. Apart(f, h)
      BY <2>1, <3>2, OverlapApart
    <3> QED
      BY <3>3 DEF Apart
  <2>5. \A m \in Deep : \A h \in cur.deep[m] \ {f} :
            /\ m < l + 1 => Newer(h, f)
            /\ m = l + 1 => Apart(h, f)
            /\ m > l + 1 => Newer(f, h)
    <3>1. TAKE m \in Deep
    <3>2. TAKE h \in cur.deep[m] \ {f}
    <3>3. m < l => Newer(h, f)
      BY <1>2
    <3>4. m = l => Newer(h, f)
      <4>1. HAVE m = l
      <4>2. Apart(h, f) /\ h \in SUBSET Entry /\ f \in SUBSET Entry
        BY <1>2, <1>3, <4>1
      <4> QED
        BY <4>2, ApartNewer
    <3>5. m < l + 1 => m < l \/ m = l
      BY <2>1
    <3>6. m > l + 1 => Newer(f, h)
      <4>1. HAVE m > l + 1
      <4>2. l < m
        BY <2>1, <4>1
      <4> QED
        BY <1>2, <4>2
    <3> QED
      BY <2>4, <3>3, <3>4, <3>5, <3>6
  <2>6. {f} \in SUBSET File
    BY <2>1
  <2>7. PICK n \in Deep : n = l + 1
    BY <2>1
  <2>8. \A g \in {f} : \A i \in DOMAIN cur.l0 : cur.l0[i] \notin {f} => Newer(cur.l0[i], g)
    BY <2>3
  <2>9. \A g \in {f} : \A m \in Deep : \A h \in cur.deep[m] \ {f} :
            /\ m < n => Newer(h, g)
            /\ m = n => Apart(h, g)
            /\ m > n => Newer(g, h)
    BY <2>5, <2>7
  <2>10. (\A g \in {f} : Newer(M, g) /\ Newer(I, g)) /\ \A g, h \in {f} : g # h => Apart(g, h)
    BY <2>2
  <2>11. Stack(M, I, Added(Without(cur, {f}), n, {f}))
    BY <1>0, <1>1, <2>6, <2>8, <2>9, <2>10, StackMoved
  <2> QED
    BY <1>5, <2>7, <2>11
<1> QED
  BY <1>1, <1>4, <1>5, StartEffect

\* A merge's outputs fit where its inputs were.
LEMMA FinishLayers ==
  ASSUME Types, History, Inputs, Layers(cur), CompFinish
  PROVE  Stack(Mem(cur.mem), Mem(cur.imm), cur')
<1>0. cur \in Version
  BY DEF Types
<1>1. PICK G \in SUBSET File :
              /\ cur' = Added(Without(cur, comp.in), comp.next, G)
              /\ UNION G = Kept(comp) /\ \A f, g \in G : f # g => Apart(f, g)
  BY Merges
<1>2. comp \in Merging /\ comp # None /\ Kept(comp) \subseteq UNION comp.in
  BY Merges
<1>3. PICK M, I, X, l, E : /\ M = Mem(cur.mem) /\ I = Mem(cur.imm) /\ X = comp.in
                           /\ l = comp.next /\ E = UNION comp.in
  OBVIOUS
<1>4. /\ X \subseteq Files(cur) /\ l \in Deep
      /\ \A i \in DOMAIN cur.l0 : cur.l0[i] \notin X => Newer(cur.l0[i], E)
      /\ \A m \in Deep : \A f \in cur.deep[m] \ X :
             /\ m < l => Newer(f, E)
             /\ m = l => Apart(f, E)
             /\ m > l => Newer(E, f)
  BY <1>2, <1>3 DEF Inputs, Merging
<1>5. \A g \in G : g \subseteq E
  BY <1>1, <1>2, <1>3
<1>6. Stack(M, I, cur)
  BY <1>3 DEF Layers
<1>7. Newer(M, E) /\ Newer(I, E)
  <2>1. \A f \in X : Newer(M, f) /\ Newer(I, f)
    BY <1>4, <1>6 DEF Stack
  <2> QED
    BY <1>3, <2>1 DEF Newer
<1>8. \A g \in G : Newer(M, g) /\ Newer(I, g)
  BY <1>5, <1>7, NewerSub
<1>9. \A g \in G : \A i \in DOMAIN cur.l0 : cur.l0[i] \notin X => Newer(cur.l0[i], g)
  BY <1>4, <1>5, NewerSub
<1>10. \A g \in G : \A m \in Deep : \A f \in cur.deep[m] \ X :
            /\ m < l => Newer(f, g)
            /\ m = l => Apart(f, g)
            /\ m > l => Newer(g, f)
  BY <1>4, <1>5, NewerSub, ApartSub
<1>11. Stack(M, I, Added(Without(cur, X), l, G))
  BY <1>0, <1>1, <1>4, <1>6, <1>8, <1>9, <1>10, StackMoved
<1> QED
  BY <1>1, <1>3, <1>11

\* What is moved is in order.
LEMMA MovesLayers ==
  ASSUME Types, History, Inputs, Layers(cur), SweepDead \/ CompStart \/ CompFinish
  PROVE  Stacked(mems', cur')
<1>1. Stack(Mem(cur.mem), Mem(cur.imm), cur')
  <2>1. CASE SweepDead
    <3>1. cur' = cur \/ cur' = Without(cur, Swept)
      BY <2>1 DEF SweepDead
    <3>2. PICK M, I : M = Mem(cur.mem) /\ I = Mem(cur.imm)
      OBVIOUS
    <3>3. Stack(M, I, cur) /\ cur \in Version
      BY <3>2 DEF Layers, Types
    <3>4. Stack(M, I, Without(cur, Swept))
      BY <3>3, StackWithout
    <3> QED
      BY <3>1, <3>2, <3>3, <3>4
  <2> QED
    BY <2>1, StartLayers, FinishLayers
<1>2. cur'.mem = cur.mem /\ cur'.imm = cur.imm
  BY MovesKeep
<1>3. mems' = mems
  BY DEF SweepDead, CompStart, CompFinish
<1> QED
  BY <1>1, <1>2, <1>3 DEF Stacked, Mem, MemOf

\* The file of a flush comes last in level 0, and the flushed memtable goes.
LEMMA FlushLayers ==
  ASSUME Types, Memory, Layers(cur), FlushStep, cur' # cur
  PROVE  Stacked(mems', cur')
<1>1. cur \in Version /\ cur.mem \in MemIds /\ 0 \notin MemIds
  BY VersionsAssumption DEF Types, Version, MemIds
<1>2. fl # None
  BY DEF FlushStep
<1>3. PICK M, I, out : M = Mem(cur.mem) /\ I = Mem(cur.imm) /\ out = UNION {Flushed(k) : k \in Frozen}
  OBVIOUS
<1>4. cur' = Grown(cur, 0, OneFile(out))
  BY <1>2, <1>3, FlushEffect
<1>5. out \in SUBSET Entry /\ out \subseteq I
  BY <1>3, FlushedSub
<1>6. /\ OneFile(out) \in Seq(File) /\ \A i \in DOMAIN OneFile(out) : OneFile(out)[i] = out
      /\ DOMAIN OneFile(out) \subseteq {1}
  <2>1. DOMAIN OneFile(out) \subseteq {1}
    BY DEF OneFile
  <2> QED
    BY <1>5, <2>1, OneFileType
<1>7. Stack(M, I, cur)
  BY <1>3 DEF Layers
<1>8. /\ Newer(M, I) /\ \A f \in Files(cur) : Newer(M, f) /\ Newer(I, f)
  BY <1>7 DEF Stack
<1>9. Newer(M, out) /\ Newer(M, {}) /\ \A f \in Files(cur) : Newer(out, f) /\ Newer({}, f)
  BY <1>5, <1>8 DEF Newer
<1>10. PICK s \in Seq(File) : s = OneFile(out)
  BY <1>6
<1>11. \A a \in DOMAIN s : /\ Newer(M, s[a]) /\ Newer({}, s[a])
                           /\ \A f \in Files(cur) : Newer(s[a], f)
  BY <1>6, <1>9, <1>10 DEF Newer
<1>12. \A a, b \in DOMAIN s : a < b => Newer(s[b], s[a])
  BY <1>6, <1>10
<1>13. Stack(M, {}, Grown(cur, 0, s))
  <2>1. PICK J, i : J = {} /\ i = 0
    OBVIOUS
  <2>2. i \in {0} \cup MemIds
    BY <2>1
  <2>3. Newer(M, J) /\ \A f \in Files(cur) : Newer(M, f) /\ Newer(J, f)
    BY <1>8, <1>9, <2>1
  <2>4. \A a \in DOMAIN s : Newer(M, s[a]) /\ Newer(J, s[a]) /\ \A f \in Files(cur) : Newer(s[a], f)
    BY <1>11, <2>1
  <2>5. Stack(M, J, Grown(cur, i, s))
    BY <1>1, <1>7, <1>12, <2>2, <2>3, <2>4, StackGrown
  <2> QED
    BY <2>1, <2>5
<1>14. cur'.mem = cur.mem /\ Mem(cur.mem)' = M
  BY <1>3, MemKept
<1>15. cur'.imm = 0
  <2>1. PICK a : a = Grown(cur, 0, s)
    OBVIOUS
  <2>2. a.imm = 0
    BY <1>1, <2>1, GrownVersion
  <2> QED
    BY <1>4, <1>10, <2>1, <2>2
<1>16. MemOf(mems', cur'.mem) = M /\ MemOf(mems', cur'.imm) = {}
  BY <1>1, <1>14, <1>15 DEF Mem, MemOf
<1> QED
  BY <1>4, <1>10, <1>13, <1>16 DEF Stacked

\* When the runs go in, no memtable has an entry.
LEMMA RunsDrained ==
  ASSUME Types, Drains, Memory, At("runs")
  PROVE  Mem(cur.mem) = {} /\ Mem(cur.imm) = {} /\ cur.imm = 0
<1>1. todo \in Seq(Steps) /\ todo # <<>> /\ todo[1] = "runs"
  BY DEF At, Types
<1>2. 1 \in DOMAIN todo /\ todo[1] = "runs"
  BY <1>1
<1>3. PICK n \in 0 .. 5 :
            /\ Len(todo) = 6 - n /\ \A i \in 1 .. 6 - n : todo[i] = Spilling[n + i]
            /\ n = 1 \/ n >= 3 => fl = None
            /\ n >= 2 => Mem(cur.mem) = {}
  BY <1>2 DEF Drains
<1>4. Spilling[n + 1] = "runs"
  BY <1>1, <1>3
<1>5. n = 5
  BY <1>4 DEF Spilling
<1>6. fl = None /\ Mem(cur.mem) = {}
  BY <1>3, <1>5
<1> QED
  BY <1>6 DEF Memory, Mem

\* The runs of a spilled transaction come last in level 0.
LEMMA RunsLayers ==
  ASSUME Types, Drains, Memory, History, Layers(cur), NEW runs \in Spills, Spilled(runs)
  PROVE  Stacked(mems', cur')
<1>0. /\ cur \in Version /\ cur.mem \in MemIds /\ cur.imm \in {0} \cup MemIds
      /\ last \in Nat /\ hist \subseteq Entry /\ \A e \in Entry : e.seq \in Nat
  BY VersionsAssumption DEF Types, Version, MemIds, Entry
<1>1. Mem(cur.mem) = {} /\ Mem(cur.imm) = {}
  BY RunsDrained DEF Spilled, Runs
<1>2. /\ cur' = Grown(cur, cur.imm, RunFiles(runs)) /\ last + Len(runs) <= MaxSeq
      /\ \A i \in 1 .. Len(runs) : RunFiles(runs)[i] = RunFile(runs, i)
  BY RunsEffect
<1>3. /\ RunFiles(runs) \in Seq(File) /\ Len(RunFiles(runs)) = Len(runs) /\ Len(runs) \in Nat
      /\ \A i \in 1 .. Len(runs) : \A e \in RunFile(runs, i) : e.seq = last + i
  BY <1>2, RunFilesType
<1>4. PICK s \in Seq(File) : s = RunFiles(runs)
  BY <1>3
<1>5. DOMAIN s = 1 .. Len(runs) /\ \A i \in DOMAIN s : \A e \in s[i] : e.seq = last + i
  BY <1>2, <1>3, <1>4
<1>6. \A f \in Files(cur) : \A e \in f : e.seq <= last /\ e.seq \in Nat
  BY <1>0 DEF History
<1>7. \A a \in DOMAIN s : \A f \in Files(cur) : Newer(s[a], f)
  <2>1. TAKE a \in DOMAIN s
  <2>2. TAKE f \in Files(cur)
  <2>3. a \in Nat /\ a >= 1
    BY <1>3, <1>5
  <2>4. \A d \in s[a], e \in f : d.seq > e.seq
    BY <1>0, <1>5, <1>6, <2>3
  <2> QED
    BY <2>4 DEF Newer
<1>8. \A a, b \in DOMAIN s : a < b => Newer(s[b], s[a])
  <2>1. TAKE a, b \in DOMAIN s
  <2>2. HAVE a < b
  <2>3. \A d \in s[b], e \in s[a] : d.seq > e.seq
    BY <1>0, <1>3, <1>5, <2>2
  <2> QED
    BY <2>3 DEF Newer
<1>9. Stack({}, {}, cur)
  BY <1>1 DEF Layers
<1>10. \A f : Newer({}, f)
  BY DEF Newer
<1>11. PICK m \in {0} \cup MemIds : m = cur.imm
  BY <1>0
<1>12. Stack({}, {}, Grown(cur, m, s))
  BY <1>0, <1>7, <1>8, <1>9, <1>10, StackGrown
<1>13. PICK a : a = Grown(cur, m, s) /\ a.mem = cur.mem /\ a.imm = m
  BY <1>0, GrownVersion
<1>14. cur' = a /\ mems' = mems
  BY <1>2, <1>4, <1>11, <1>13 DEF Spilled, Runs
<1>15. MemOf(mems', a.mem) = {} /\ MemOf(mems', a.imm) = {}
  BY <1>1, <1>11, <1>13, <1>14 DEF Mem, MemOf
<1> QED
  BY <1>12, <1>13, <1>14, <1>15 DEF Stacked

\* A version keeps the order of its levels, and the next one has it.
LEMMA LayersStep ==
  ASSUME Types, Slots, Drains, Memory, History, Inputs, Layers(cur),
         \A r \in readers : Layers(r.v), [Next]_vars
  PROVE  Layers(cur)' /\ (\A r \in readers : Layers(r.v))'
<1>0. /\ cur \in Version /\ cur.mem \in MemIds /\ cur.imm \in {0} \cup MemIds /\ 0 \notin MemIds
      /\ mems \in [MemIds -> SUBSET Entry]
  BY VersionsAssumption DEF Types, Version, MemIds
<1>1. CASE \A n \in 0 .. MaxSeq : ~Crash(n)
  <2>1. ASSUME NEW r \in readers' PROVE Stacked(mems', r.v)
    <3>1. PICK v : v = r.v
      OBVIOUS
    <3>2. v \in {cur} \cup {q.v : q \in readers}
      BY <3>1, ReadersStep DEF Pinned
    <3>3. v \in {cur'} \cup {q.v : q \in readers'}
      BY <3>1
    <3>4. Layers(v) /\ \A f \in Files(v) : f \subseteq hist
      BY <3>2 DEF History
    <3> QED
      BY <1>1, <3>1, <3>2, <3>3, <3>4, LayersKept
  <2>2. CASE cur' = cur
    <3>1. PICK v : v = cur
      OBVIOUS
    <3>2. Layers(v) /\ \A f \in Files(v) : f \subseteq hist
      BY <3>1 DEF History
    <3>3. v \in {cur} \cup {q.v : q \in readers} /\ v \in {cur'} \cup {q.v : q \in readers'}
      BY <2>2, <3>1
    <3>4. Stacked(mems', v)
      BY <1>1, <3>2, <3>3, LayersKept
    <3> QED
      BY <2>1, <2>2, <3>1, <3>4, LayersStacked
  <2>3. CASE cur' # cur
    <3> SUFFICES Stacked(mems', cur')
      BY <2>1, LayersStacked
    <3>1. CASE Freeze
      <4>1. /\ cur'.mem \in MemIds /\ cur'.imm = cur.mem /\ cur'.l0 = cur.l0 /\ cur'.deep = cur.deep
            /\ mems[cur'.mem] = {}
        BY <2>3, <3>1, FreezeEffect
      <4>2. mems' = mems
        BY <3>1 DEF Freeze
      <4>3. PICK M, I : M = Mem(cur.mem) /\ I = Mem(cur.imm)
        OBVIOUS
      <4>4. MemOf(mems', cur'.mem) = {} /\ MemOf(mems', cur'.imm) = M
        BY <1>0, <4>1, <4>2, <4>3 DEF Mem, MemOf
      <4>5. Stack(M, I, cur)
        BY <4>3 DEF Layers
      <4>6. Newer({}, M) /\ \A f \in Files(cur) : Newer({}, f) /\ Newer(M, f)
        BY <4>5 DEF Stack, Newer
      <4>7. Stack({}, M, cur')
        BY <4>1, <4>5, <4>6, StackMem
      <4> QED
        BY <4>4, <4>7 DEF Stacked
    <3>2. CASE \E runs \in Spills : Spilled(runs)
      BY <3>2, RunsLayers
    <3>3. CASE FlushStep
      BY <2>3, <3>3, FlushLayers
    <3>4. CASE SweepDead \/ CompStart \/ CompFinish
      BY <3>4, MovesLayers
    <3>5. ASSUME NEW e, NEW sync, Logged(e, sync) PROVE cur' = cur
      BY <3>5 DEF Logged
    <3>6. CASE Begin \/ FlushFails \/ CompPause \/ CompFails \/ Calm \/ \E r \in readers : EndRead(r)
      BY <2>3, <3>6 DEF Begin, FlushFails, CompPause, CompFails, Calm, EndRead
    <3> QED
      BY <1>1, <2>3, <3>1, <3>2, <3>3, <3>4, <3>5, <3>6, CalmSteps DEF Next, Spilled, Commit, Retire
  <2> QED
    BY <2>2, <2>3
<1>2. ASSUME NEW n \in 0 .. MaxSeq, Crash(n) PROVE Layers(cur)' /\ (\A r \in readers : Layers(r.v))'
  <2>1. /\ cur'.mem = 1 /\ cur'.imm = 0 /\ cur'.l0 = cur.l0 /\ cur'.deep = cur.deep /\ readers' = {}
        /\ mems'[1] = {e \in Mem(cur.mem) \cup Mem(cur.imm) : e.seq <= n}
    BY <1>2, CrashEffect
  <2>2. PICK M, I, N : M = Mem(cur.mem) /\ I = Mem(cur.imm) /\ N = {e \in M \cup I : e.seq <= n}
    OBVIOUS
  <2>3. Stack(M, I, cur)
    BY <2>2 DEF Layers
  <2>4. Newer(N, {}) /\ \A f \in Files(cur) : Newer(N, f) /\ Newer({}, f)
    BY <2>2, <2>3 DEF Stack, Newer
  <2>5. Stack(N, {}, cur')
    BY <2>1, <2>3, <2>4, StackMem
  <2>6. MemOf(mems', cur'.mem) = N /\ MemOf(mems', cur'.imm) = {}
    BY <2>1, <2>2 DEF MemOf
  <2>7. Stacked(mems', cur')
    BY <2>5, <2>6 DEF Stacked
  <2> QED
    BY <2>1, <2>7, LayersStacked
<1> QED
  BY <1>1, <1>2

---------------------------------------------------------------------------
(* The inputs of a compaction.                                             *)

\* The order of a source and of many.
LEMMA NewerUnion ==
  ASSUME NEW A, NEW S
  PROVE  /\ (\A x \in S : Newer(A, x)) => Newer(A, UNION S)
         /\ (\A x \in S : Newer(x, A)) => Newer(UNION S, A)
BY DEF Newer

\* A file that is apart from a range, and from the files that overlap the
\* range, is apart from all of them together.
LEMMA RangeApart ==
  ASSUME NEW U \in File, NEW D \in SUBSET File, NEW f \in File, ~Overlap(f, U),
         \A g \in D : Overlap(U, g) /\ Apart(f, g)
  PROVE  Apart(f, UNION ({U} \cup D))
<1>0. Key \subseteq Nat
  BY VersionsAssumption DEF Key
<1>1. Apart(f, U)
  BY OverlapApart
<1>2. \A g \in D : ~Apart(U, g)
  BY OverlapApart
<1>3. \A g \in {f, U} \cup D : \A d \in g : d.key \in Nat
  <2>1. \A g \in {f, U} \cup D : \A d \in g : d \in Entry
    BY DEF File
  <2> QED
    BY <1>0, <2>1 DEF Entry
<1>4. (\E d \in f : TRUE) /\ (\E d \in U : TRUE) /\ \A g \in D : \E d \in g : TRUE
  BY DEF File
<1>5. CASE \A d \in f, e \in U : d.key < e.key
  <2>1. ASSUME NEW g \in D PROVE \A d \in f, e \in g : d.key < e.key
    <3>1. CASE \A d \in f, e \in g : e.key < d.key
      <4>1. \A d \in U, e \in g : e.key < d.key
        <5>1. TAKE d \in U, e \in g
        <5>2. PICK x \in f : TRUE
          BY <1>4
        <5>3. e.key < x.key /\ x.key < d.key
          BY <1>5, <3>1
        <5> QED
          BY <1>3, <5>2, <5>3
      <4> QED
        BY <1>2, <4>1 DEF Apart
    <3> QED
      BY <3>1 DEF Apart
  <2>2. \A d \in f, e \in UNION ({U} \cup D) : d.key < e.key
    BY <1>5, <2>1
  <2> QED
    BY <2>2 DEF Apart
<1>6. CASE \A d \in f, e \in U : e.key < d.key
  <2>1. ASSUME NEW g \in D PROVE \A d \in f, e \in g : e.key < d.key
    <3>1. CASE \A d \in f, e \in g : d.key < e.key
      <4>1. \A d \in U, e \in g : d.key < e.key
        <5>1. TAKE d \in U, e \in g
        <5>2. PICK x \in f : TRUE
          BY <1>4
        <5>3. d.key < x.key /\ x.key < e.key
          BY <1>6, <3>1
        <5> QED
          BY <1>3, <5>2, <5>3
      <4> QED
        BY <1>2, <4>1 DEF Apart
    <3> QED
      BY <3>1 DEF Apart
  <2>2. \A d \in f, e \in UNION ({U} \cup D) : e.key < d.key
    BY <1>6, <2>1
  <2> QED
    BY <2>2 DEF Apart
<1> QED
  BY <1>1, <1>5, <1>6 DEF Apart

\* Where the inputs of a compaction into level n are, with E in them.
Placed(v, in, E, n) ==
    /\ \A i \in DOMAIN v.l0 : v.l0[i] \notin in => Newer(v.l0[i], E)
    /\ \A l \in Deep : \A f \in v.deep[l] \ in :
         /\ l < n => Newer(f, E)
         /\ l = n => Apart(f, E)
         /\ l > n => Newer(E, f)
    /\ \A l \in Deep : l > n => v.deep[l] \cap in = {}

\* The parts of Inputs.
LEMMA InputsMade ==
  ASSUME NEW X, NEW E, NEW n, comp'.in = X, comp'.next = n, E = UNION X,
         X \subseteq Files(cur'), comp'.rest # {}, comp'.rest \subseteq E, comp'.keep <= durable',
         comp'.out = {d \in E \ comp'.rest : Keep(comp, d)'},
         Placed(cur', X, E, n),
         comp'.bottom => \A l \in Deep : l > n => cur'.deep[l] = {}
  PROVE  Inputs'
BY DEF Inputs, Placed, Bottom

\* A compaction that begins.
LEMMA InputsNew ==
  ASSUME Types, cur' = cur, durable' = durable,
         NEW l \in Nat, NEW n \in Deep, NEW up \in SUBSET File, NEW down \in SUBSET File,
         up # {}, up \cup down \subseteq Files(cur),
         Placed(cur, up \cup down, UNION (up \cup down), n),
         comp' = Compaction(l, n, up, down)
  PROVE  Inputs'
<1>0. durable \in Nat
  BY VersionsAssumption DEF Types
<1>1. PICK c : c = Compaction(l, n, up, down)
  OBVIOUS
<1>2. /\ c.in = up \cup down /\ c.next = n /\ c.keep = durable /\ c.out = {}
      /\ c.rest = UNION (up \cup down)
  <2>1. c = [level |-> l, next |-> n, in |-> up \cup down, bottom |-> Bottom(n),
             keep |-> durable, rest |-> UNION (up \cup down), out |-> {}]
    BY <1>1 DEF Compaction, KeepAfter, Horizon
  <2> HIDE DEF Bottom
  <2> QED
    BY <2>1
<1>3. c.bottom => Bottom(n)
  BY <1>1, CompactionType
<1>4. PICK X, E : X = up \cup down /\ E = UNION X
  OBVIOUS
<1>5. comp' = c /\ c.in = X /\ c.rest = E
  BY <1>1, <1>2, <1>4
<1>6. E # {}
  <2>1. PICK f \in up : TRUE
    OBVIOUS
  <2>2. f \in File /\ f \in X
    BY <1>4, <2>1
  <2>3. PICK e \in f : TRUE
    BY <2>2 DEF File
  <2> QED
    BY <1>4, <2>2, <2>3
<1>7. comp'.keep <= durable'
  BY <1>0, <1>2, <1>5
<1>8. comp'.out = {d \in E \ comp'.rest : Keep(comp, d)'}
  BY <1>2, <1>5
<1>9. comp'.bottom => \A m \in Deep : m > n => cur'.deep[m] = {}
  BY <1>3, <1>5 DEF Bottom
<1>10. Placed(cur', X, E, n) /\ X \subseteq Files(cur')
  BY <1>4
<1>11. comp'.in = X /\ comp'.next = n /\ comp'.rest # {} /\ comp'.rest \subseteq E
  BY <1>2, <1>5, <1>6
<1> QED
  BY <1>4, <1>7, <1>8, <1>9, <1>10, <1>11, InputsMade

\* The inputs of every compaction that begins.
LEMMA StartInputs ==
  ASSUME Types, Layers(cur), CompStart PROVE Inputs'
<1>0. cur \in Version /\ durable' = durable
  BY DEF Types, CompStart
<1>1. PICK M, I : M = Mem(cur.mem) /\ I = Mem(cur.imm)
  OBVIOUS
<1>2. Stack(M, I, cur)
  BY <1>1 DEF Layers
<1>3. /\ \A i \in DOMAIN cur.l0 : \A l \in Deep : \A g \in cur.deep[l] : Newer(cur.l0[i], g)
      /\ \A l, m \in Deep : l < m => \A f \in cur.deep[l], g \in cur.deep[m] : Newer(f, g)
      /\ \A l \in Deep : \A f, g \in cur.deep[l] : f # g => Apart(f, g)
  BY <1>2 DEF Stack
<1>4. /\ \A i \in DOMAIN cur.l0 : cur.l0[i] \in File /\ cur.l0[i] \in Files(cur)
      /\ \A l \in Deep : \A f \in cur.deep[l] : f \in File /\ f \in SUBSET Entry /\ f \in Files(cur)
      /\ \A f \in File : f \in SUBSET Entry
      /\ \A f \in ToSet(cur.l0) : \E i \in DOMAIN cur.l0 : f = cur.l0[i]
      /\ \A i \in DOMAIN cur.l0 : cur.l0[i] \in ToSet(cur.l0)
  <2>1. cur.l0 \in Seq(File) /\ cur.deep \in [Deep -> SUBSET File]
    BY <1>0, Fields
  <2> QED
    BY <2>1 DEF Files, ToSet, File
<1>5. \A l \in Deep : l \in Nat /\ l >= 1
  BY InputsType
<1>6. ASSUME cur' = cur, cur.l0 # <<>>, comp' = Compaction(0, 1, ToSet(cur.l0), Below0) PROVE Inputs'
  <2> DEFINE U == UNION ToSet(cur.l0)
             X == ToSet(cur.l0) \cup Below0
             E == UNION (ToSet(cur.l0) \cup Below0)
  <2>1. ToSet(cur.l0) \in SUBSET File /\ Below0 \in SUBSET File /\ 1 \in Deep
    BY InputsType
  <2>2. 1 \in DOMAIN cur.l0
    <3>1. cur.l0 \in Seq(File)
      BY <1>0, Fields
    <3> QED
      BY <1>6, <3>1
  <2>3. U \in File
    <3>1. cur.l0[1] \in ToSet(cur.l0) /\ cur.l0[1] \in File
      BY <1>4, <2>2
    <3> QED
      BY <2>1, <3>1 DEF File
  <2>4. \A f \in Below0 : f \in cur.deep[1] /\ Overlap(f, U)
    BY DEF Below0
  <2>5. \A f \in cur.deep[1] : f \notin Below0 => ~Overlap(f, U)
    BY DEF Below0
  <2>6. \A f \in Below0 : Overlap(U, f)
    BY <2>4 DEF Overlap
  <2>7. E = UNION ({U} \cup Below0)
    OBVIOUS
  <2> HIDE DEF U
  <2>8. \A f \in cur.deep[1] \ X : Apart(f, E)
    <3>1. TAKE f \in cur.deep[1] \ X
    <3>2. f \in File /\ ~Overlap(f, U) /\ \A g \in Below0 : Apart(f, g)
      BY <1>3, <1>4, <2>1, <2>4, <2>5
    <3>3. Apart(f, UNION ({U} \cup Below0))
      BY <2>1, <2>3, <2>6, <3>2, RangeApart
    <3> QED
      BY <2>7, <3>3
  <2>9. \A m \in Deep : m > 1 => \A f \in cur.deep[m] : \A x \in X : Newer(x, f)
    BY <1>3, <1>4, <2>1, <2>4
  <2>10. \A m \in Deep : m > 1 => \A f \in cur.deep[m] : Newer(E, f) /\ f \notin X
    <3>1. TAKE m \in Deep
    <3>2. HAVE m > 1
    <3>3. TAKE f \in cur.deep[m]
    <3>4. Newer(E, f)
      BY <2>9, <3>2, NewerUnion
    <3>5. \A x \in X : x # f
      BY <2>1, <2>9, <3>2, NewerOther
    <3> QED
      BY <3>4, <3>5
  <2>11. \A i \in DOMAIN cur.l0 : cur.l0[i] \in X
    BY <1>4
  <2>12. X \subseteq Files(cur) /\ ToSet(cur.l0) # {}
    BY <1>4, <2>1, <2>2, <2>4
  <2>13. Placed(cur, X, E, 1)
    <3> HIDE DEF E, X
    <3>1. \A i \in DOMAIN cur.l0 : cur.l0[i] \notin X => Newer(cur.l0[i], E)
      BY <2>11
    <3>2. ASSUME NEW l \in Deep, NEW f \in cur.deep[l] \ X
          PROVE  /\ l < 1 => Newer(f, E)
                 /\ l = 1 => Apart(f, E)
                 /\ l > 1 => Newer(E, f)
      <4>1. ~(l < 1)
        BY <1>5
      <4> QED
        BY <2>8, <2>10, <4>1
    <3>3. \A l \in Deep : l > 1 => cur.deep[l] \cap X = {}
      BY <2>10
    <3> QED
      BY <3>1, <3>2, <3>3 DEF Placed
  <2> QED
    BY <1>0, <1>6, <2>1, <2>12, <2>13, InputsNew
<1>7. ASSUME NEW l \in Deep \ {Levels - 1}, NEW f \in cur.deep[l], cur' = cur,
             comp' = Compaction(l, l + 1, {f}, Below(l, f))
      PROVE  Inputs'
  <2> DEFINE D == Below(l, f)
             X == {f} \cup Below(l, f)
             E == UNION ({f} \cup Below(l, f))
  <2>1. PICK n \in Deep : n = l + 1 /\ l < n
    BY InputsType
  <2>2. D \in SUBSET File /\ f \in File /\ l \in Nat /\ f \in Files(cur)
    BY <1>4, <1>5, InputsType
  <2>3. \A g \in D : g \in cur.deep[n] /\ Overlap(f, g)
    BY <2>1 DEF Below
  <2>4. \A g \in cur.deep[n] : g \notin D => ~Overlap(f, g)
    BY <2>1 DEF Below
  <2> HIDE DEF D
  <2>5. \A h \in cur.deep[n] \ X : Apart(h, E)
    <3>1. TAKE h \in cur.deep[n] \ X
    <3>2. h \in File /\ h \notin D /\ ~Overlap(h, f)
      BY <1>4, <2>4 DEF D, Overlap
    <3>3. \A g \in D : Overlap(f, g) /\ Apart(h, g)
      BY <1>3, <2>3, <3>2
    <3>4. Apart(h, UNION ({f} \cup D))
      BY <2>2, <3>2, <3>3, RangeApart
    <3> QED
      BY <3>4 DEF D
  <2>6. \A i \in DOMAIN cur.l0 : \A x \in X : Newer(cur.l0[i], x)
    BY <1>3, <2>3 DEF D
  <2>7. \A m \in Deep : m < n => \A h \in cur.deep[m] \ X : \A x \in X : Newer(h, x)
    <3>1. TAKE m \in Deep
    <3>2. HAVE m < n
    <3>3. TAKE h \in cur.deep[m] \ X
    <3>4. \A x \in D : Newer(h, x)
      BY <1>3, <2>3, <3>2
    <3>5. m = l \/ m < l
      <4>1. m \in Nat /\ l \in Nat
        BY <1>5
      <4> QED
        BY <2>1, <3>2, <4>1
    <3>6. CASE m < l
      BY <1>3, <3>4, <3>6 DEF D
    <3>7. CASE m = l
      <4>1. Apart(h, f) /\ h \in SUBSET Entry /\ f \in SUBSET Entry
        BY <1>3, <1>4, <3>7
      <4>2. Newer(h, f)
        BY <4>1, ApartNewer
      <4> QED
        BY <3>4, <4>2 DEF D
    <3> QED
      BY <3>5, <3>6, <3>7
  <2>8. \A m \in Deep : m > n => \A h \in cur.deep[m] : \A x \in X : Newer(x, h)
    <3>1. TAKE m \in Deep
    <3>2. HAVE m > n
    <3>3. l < m
      BY <1>5, <2>1, <2>2, <3>2
    <3> QED
      BY <1>3, <2>3, <3>2, <3>3 DEF D
  <2>9. X \in SUBSET File /\ X \subseteq Files(cur)
    BY <1>4, <2>2, <2>3 DEF D
  <2>10. Placed(cur, X, E, n)
    <3>1. E = UNION X
      OBVIOUS
    <3> HIDE DEF E, X
    <3>2. \A i \in DOMAIN cur.l0 : Newer(cur.l0[i], E)
      BY <2>6, <3>1, NewerUnion
    <3>3. ASSUME NEW m \in Deep, NEW h \in cur.deep[m] \ X
          PROVE  /\ m < n => Newer(h, E)
                 /\ m = n => Apart(h, E)
                 /\ m > n => Newer(E, h)
      BY <2>5, <2>7, <2>8, <3>1, NewerUnion
    <3>4. \A m \in Deep : m > n => cur.deep[m] \cap X = {}
      BY <2>8, <2>9, NewerOther
    <3> QED
      BY <3>2, <3>3, <3>4 DEF Placed
  <2>11. {f} \in SUBSET File /\ {f} # {}
    BY <2>2
  <2> QED
    BY <1>0, <1>7, <2>1, <2>2, <2>9, <2>10, <2>11, InputsNew DEF D
<1>8. ASSUME NEW l \in Deep, NEW f \in cur.deep[l], cur' = cur, comp' = Compaction(l, l, {f}, {})
      PROVE  Inputs'
  <2>1. f \in File /\ f \in SUBSET Entry /\ f \in Files(cur) /\ l \in Nat
    BY <1>4, <1>5
  <2>2. UNION ({f} \cup {}) = f /\ {f} \cup {} = {f}
    OBVIOUS
  <2>3. \A m \in Deep : m > l => \A h \in cur.deep[m] : h # f
    BY <1>3, <2>1, NewerOther
  <2>4. Placed(cur, {f}, f, l)
    BY <1>3, <2>3 DEF Placed
  <2>5. Placed(cur, {f} \cup {}, UNION ({f} \cup {}), l)
    BY <2>2, <2>4
  <2>6. {f} \in SUBSET File /\ {f} # {} /\ {f} \cup {} \subseteq Files(cur) /\ {} \in SUBSET File
    BY <2>1
  <2> QED
    BY <1>0, <1>8, <2>1, <2>5, <2>6, InputsNew
<1>9. ASSUME comp' = None PROVE Inputs'
  BY <1>9 DEF Inputs
<1> QED
  BY <1>6, <1>7, <1>8, <1>9, StartEffect

\* Inputs, part by part.
LEMMA InputsAre ==
  ASSUME Inputs, comp # None
  PROVE  /\ comp.in \subseteq Files(cur) /\ comp.rest # {} /\ comp.rest \subseteq UNION comp.in
         /\ comp.keep <= durable
         /\ comp.out = {d \in (UNION comp.in) \ comp.rest : Keep(comp, d)}
         /\ Placed(cur, comp.in, UNION comp.in, comp.next)
         /\ comp.bottom => \A l \in Deep : l > comp.next => cur.deep[l] = {}
BY DEF Inputs, Placed, Bottom

\* What is kept is decided once and for all, by a boundary that is behind.
LEMMA KeepKept ==
  ASSUME Types, comp # None, comp.keep <= last,
         comp'.in = comp.in, comp'.keep = comp.keep, comp'.bottom = comp.bottom,
         \A x \in Tree : dead'[x] = dead[x] \/ (dead[x] = 0 /\ dead'[x] \in Nat /\ last < dead'[x]),
         NEW d \in Entry
  PROVE  Keep(comp, d)' <=> Keep(comp, d)
<1>1. PICK t, u, c : t = TreeOf[d.key] /\ u = comp.keep /\ c = comp
  OBVIOUS
<1>2. t \in Tree
  BY <1>1 DEF Tree, Entry
<1>3. u \in 0 .. last
  BY <1>1 DEF Types, Merging
<1>4. Gone(t, u)' <=> Gone(t, u)
  BY <1>2, <1>3, GoneKept
<1>5. Gone(TreeOf[d.key], comp.keep)' <=> Gone(TreeOf[d.key], comp.keep)
  BY <1>1, <1>4 DEF Gone
<1> QED
  BY <1>5 DEF Keep

\* A compaction waits while files come into level 0 and trees are retired.
LEMMA InputsKept ==
  ASSUME Types, Inputs, comp' = comp, durable' \in Nat, durable <= durable',
         cur'.deep = cur.deep, ToSet(cur.l0) \subseteq ToSet(cur'.l0),
         \A i \in DOMAIN cur'.l0 :
            cur'.l0[i] \in ToSet(cur.l0) \/ (comp # None => Newer(cur'.l0[i], UNION comp.in)),
         \A x \in Tree : dead'[x] = dead[x] \/ (dead[x] = 0 /\ dead'[x] \in Nat /\ last < dead'[x])
  PROVE  Inputs'
<1>1. CASE comp = None
  BY <1>1 DEF Inputs
<1>2. CASE comp # None
  <2>1. PICK X, E, n : X = comp.in /\ E = UNION comp.in /\ n = comp.next
    OBVIOUS
  <2>2. /\ X \subseteq Files(cur) /\ comp.rest # {} /\ comp.rest \subseteq E /\ comp.keep <= durable
        /\ comp.out = {d \in E \ comp.rest : Keep(comp, d)} /\ Placed(cur, X, E, n)
        /\ comp.bottom => \A l \in Deep : l > n => cur.deep[l] = {}
    BY <1>2, <2>1, InputsAre
  <2>3. comp \in Merging /\ comp.keep \in Nat /\ durable \in Nat /\ durable <= last /\ last \in Nat
    BY <1>2, VersionsAssumption DEF Types, Merging
  <2>4. Files(cur) \subseteq Files(cur')
    BY DEF Files
  <2>5. E \in SUBSET Entry
    BY <2>1, <2>3 DEF Merging, File
  <2>6. \A d \in E : Keep(comp, d)' <=> Keep(comp, d)
    <3>1. comp.keep <= last
      BY <2>2, <2>3
    <3> QED
      BY <1>2, <2>5, <3>1, KeepKept
  <2>7. comp'.out = {d \in E \ comp'.rest : Keep(comp, d)'}
    BY <2>2, <2>6
  <2>8. Placed(cur', X, E, n)
    <3>1. \A f \in ToSet(cur.l0) : f \notin X => Newer(f, E)
      BY <2>2 DEF Placed, ToSet
    <3>2. \A i \in DOMAIN cur'.l0 : cur'.l0[i] \notin X => Newer(cur'.l0[i], E)
      BY <1>2, <2>1, <3>1
    <3> QED
      BY <2>2, <3>2 DEF Placed
  <2>9. comp'.keep <= durable'
    BY <2>2, <2>3
  <2> QED
    BY <2>1, <2>2, <2>4, <2>7, <2>8, <2>9, InputsMade
<1> QED
  BY <1>1, <1>2

\* A merge that pauses has more to do.
LEMMA PauseInputs ==
  ASSUME Types, Inputs, CompPause PROVE Inputs'
<1>1. PICK e \in comp.rest, d \in comp.rest : Before(e, d) /\ comp' = Merged(e)
  BY DEF CompPause
<1>2. comp # None /\ comp \in Merging /\ UNCHANGED <<cur, durable, dead, last>>
  BY DEF CompPause, Types
<1>3. PICK X, E, n, done : /\ X = comp.in /\ E = UNION comp.in /\ n = comp.next
                           /\ done = {x \in comp.rest : x = e \/ Before(x, e)}
  OBVIOUS
<1>4. /\ comp'.in = X /\ comp'.next = n /\ comp'.keep = comp.keep
      /\ comp'.bottom = comp.bottom /\ comp'.rest = comp.rest \ done
      /\ comp'.out = comp.out \cup {x \in done : Keep(comp, x)}
  BY <1>1, <1>2, <1>3, MergedFields
<1>5. /\ X \subseteq Files(cur) /\ comp.rest # {} /\ comp.rest \subseteq E /\ comp.keep <= durable
      /\ comp.out = {x \in E \ comp.rest : Keep(comp, x)} /\ Placed(cur, X, E, n)
      /\ comp.bottom => \A l \in Deep : l > n => cur.deep[l] = {}
  BY <1>2, <1>3, InputsAre
<1>6. E \in SUBSET Entry
  BY <1>2, <1>3 DEF Merging, File
<1>7. d \notin done
  <2>1. d \in Entry /\ e \in Entry
    BY <1>1, <1>5, <1>6
  <2>2. d.key \in Int /\ e.key \in Int /\ d.seq \in Int /\ e.seq \in Int
    BY <2>1, VersionsAssumption DEF Entry, Key
  <2>3. d # e /\ ~Before(d, e)
    BY <1>1, <2>2 DEF Before
  <2> QED
    BY <1>3, <2>3
<1>8. \A x \in E : Keep(comp, x)' <=> Keep(comp, x)
  <2>1. comp.keep <= last
    BY <1>2, <1>5, VersionsAssumption DEF Types, Merging
  <2> QED
    BY <1>2, <1>3, <1>4, <1>6, <2>1, KeepKept
<1>9. comp'.out = {x \in E \ comp'.rest : Keep(comp, x)'}
  <2>1. done \subseteq comp.rest
    BY <1>3
  <2> QED
    BY <1>4, <1>5, <1>8, <2>1
<1>10. comp'.rest # {} /\ comp'.rest \subseteq E
  BY <1>4, <1>5, <1>7
<1> QED
  BY <1>2, <1>3, <1>4, <1>5, <1>9, <1>10, InputsMade

\* The inputs of a compaction stay where they are until it ends.
LEMMA InputsStep ==
  ASSUME Types, Slots, Memory, History, Inputs, FilesDurable, Layers(cur), [Next]_vars
  PROVE  Inputs'
<1>0. /\ durable \in Nat /\ last \in Nat /\ durable <= last /\ cur \in Version
      /\ cur.l0 \in Seq(File) /\ cur.imm \in {0} \cup MemIds
      /\ \A e \in Entry : e.seq \in Nat
  BY VersionsAssumption, Fields DEF Types, Entry, Version
<1>1. ASSUME cur'.deep = cur.deep, cur'.l0 = cur.l0, comp' = comp,
             durable' \in Nat, durable <= durable',
             \A x \in Tree : dead'[x] = dead[x] \/ (dead[x] = 0 /\ dead'[x] \in Nat /\ last < dead'[x])
      PROVE  Inputs'
  <2>1. \A i \in DOMAIN cur'.l0 : cur'.l0[i] \in ToSet(cur.l0)
    BY <1>1 DEF ToSet
  <2> QED
    BY <1>1, <2>1, InputsKept
<1>2. ASSUME NEW s \in Seq(File), NEW m \in {0} \cup MemIds, cur' = Grown(cur, m, s), comp' = comp,
             \A x \in Tree : dead'[x] = dead[x] \/ (dead[x] = 0 /\ dead'[x] \in Nat /\ last < dead'[x]),
             durable' \in Nat, durable <= durable',
             comp # None => \A i \in DOMAIN s : Newer(s[i], UNION comp.in)
      PROVE  Inputs'
  <2>1. cur'.l0 = cur.l0 \o s /\ cur'.deep = cur.deep
    BY <1>0, <1>2 DEF Grown, Version
  <2>2. PICK o : o = cur.l0
    OBVIOUS
  <2>3. o \in Seq(File) /\ cur'.l0 = o \o s
    BY <1>0, <2>1, <2>2
  <2>4. ToSet(o) \subseteq ToSet(o \o s)
    <3>1. \A i \in DOMAIN o : i \in DOMAIN (o \o s) /\ (o \o s)[i] = o[i]
      BY <2>3
    <3> QED
      BY <3>1 DEF ToSet
  <2>5. \A i \in DOMAIN (o \o s) : (o \o s)[i] \in ToSet(o) \/ \E j \in DOMAIN s : (o \o s)[i] = s[j]
    <3>1. TAKE i \in DOMAIN (o \o s)
    <3>2. CASE i <= Len(o)
      <4>1. i \in DOMAIN o /\ (o \o s)[i] = o[i]
        BY <2>3, <3>2
      <4> QED
        BY <4>1 DEF ToSet
    <3>3. CASE ~(i <= Len(o))
      <4>1. i - Len(o) \in DOMAIN s /\ (o \o s)[i] = s[i - Len(o)]
        BY <2>3, <3>3
      <4> QED
        BY <4>1
    <3> QED
      BY <3>2, <3>3
  <2>6. \A i \in DOMAIN cur'.l0 :
            cur'.l0[i] \in ToSet(cur.l0) \/ (comp # None => Newer(cur'.l0[i], UNION comp.in))
    BY <1>2, <2>2, <2>3, <2>5
  <2> QED
    BY <1>2, <2>1, <2>2, <2>3, <2>4, <2>6, InputsKept
<1>3. CASE comp' = None
  BY <1>3 DEF Inputs
<1>4. CASE Calm
  BY <1>0, <1>1, <1>4 DEF Calm
<1>5. CASE Begin \/ FlushFails \/ \E r \in readers : EndRead(r)
  BY <1>0, <1>1, <1>5 DEF Begin, FlushFails, EndRead
<1>6. CASE Freeze
  <2>1. UNCHANGED <<dead, comp>>
    BY <1>6 DEF Freeze
  <2>2. CASE UNCHANGED <<cur, durable, fl>>
    BY <1>0, <1>1, <2>1, <2>2
  <2>3. CASE ~UNCHANGED <<cur, durable, fl>>
    BY <1>0, <1>1, <1>6, <2>1, <2>3, FreezeEffect
  <2> QED
    BY <2>2, <2>3
<1>7. CASE SweepDead
  <2>1. UNCHANGED <<durable, dead, comp>>
    BY <1>7 DEF SweepDead
  <2>2. CASE comp # None
    BY <1>0, <1>1, <1>7, <2>1, <2>2 DEF SweepDead
  <2>3. CASE comp = None
    BY <1>3, <2>1, <2>3
  <2> QED
    BY <2>2, <2>3
<1>8. CASE \/ \E k \in Written, del \in BOOLEAN, sync \in BOOLEAN : Commit(k, del, sync)
           \/ \E t \in Tree, sync \in BOOLEAN : Retire(t, sync)
  <2>1. /\ last' = last + 1 /\ durable' \in {durable, last + 1}
        /\ UNCHANGED <<cur, fl, comp, readers>>
        /\ \A t \in Tree : dead'[t] = dead[t] \/ (dead[t] = 0 /\ dead'[t] \in Nat /\ last < dead'[t])
    BY <1>0, <1>8, LoggedEffect
  <2>2. durable' \in Nat /\ durable <= durable'
    BY <1>0, <2>1
  <2> QED
    BY <1>1, <2>1, <2>2
<1>9. ASSUME comp # None PROVE comp.in \subseteq Files(cur)
  BY <1>9 DEF Inputs
<1>10. ASSUME NEW runs \in Spills, Spilled(runs) PROVE Inputs'
  <2>1. /\ cur' = Grown(cur, cur.imm, RunFiles(runs)) /\ last' = last + Len(runs) /\ durable' = last'
        /\ last + Len(runs) <= MaxSeq
        /\ \A i \in 1 .. Len(runs) : RunFiles(runs)[i] = RunFile(runs, i)
    BY <1>10, RunsEffect
  <2>2. /\ RunFiles(runs) \in Seq(File) /\ Len(RunFiles(runs)) = Len(runs) /\ Len(runs) \in Nat
        /\ \A i \in 1 .. Len(runs) : \A e \in RunFile(runs, i) : e.seq = last + i
    BY <1>10, <2>1, RunFilesType
  <2>3. PICK s \in Seq(File) : s = RunFiles(runs)
    BY <2>2
  <2>4. DOMAIN s = 1 .. Len(runs) /\ \A i \in DOMAIN s : \A e \in s[i] : e.seq = last + i
    BY <2>1, <2>2, <2>3
  <2>5. ASSUME comp # None PROVE \A i \in DOMAIN s : Newer(s[i], UNION comp.in)
    <3>1. \A e \in UNION comp.in : e.seq <= last /\ e.seq \in Nat
      <4>1. \A e \in UNION comp.in : e \in hist
        BY <1>9, <2>5 DEF History
      <4> QED
        BY <1>0, <4>1 DEF History, Types
    <3>2. TAKE i \in DOMAIN s
    <3>3. i \in Nat /\ i >= 1
      BY <2>2, <2>4
    <3>4. \A d \in s[i] : \A e \in UNION comp.in : d.seq > e.seq
      BY <1>0, <2>4, <3>1, <3>3
    <3> QED
      BY <3>4 DEF Newer
  <2>6. /\ comp' = comp /\ durable' \in Nat /\ durable <= durable'
        /\ \A x \in Tree : dead'[x] = dead[x] \/ (dead[x] = 0 /\ dead'[x] \in Nat /\ last < dead'[x])
    <3>1. comp' = comp
      BY <1>10 DEF Spilled, Runs
    <3>2. \A x \in Tree : \/ dead'[x] = dead[x]
                          \/ dead[x] = 0 /\ dead'[x] = last' /\ last < last'
      BY <1>10, RunsEffect
    <3>3. last' \in Nat /\ durable' \in Nat /\ durable <= durable'
      BY <1>0, <2>1, <2>2
    <3> QED
      BY <3>1, <3>2, <3>3
  <2>7. PICK m : m = cur.imm
    OBVIOUS
  <2> QED
    BY <1>0, <1>2, <2>1, <2>3, <2>5, <2>6, <2>7
<1>11. CASE FlushStep
  <2>1. UNCHANGED <<comp, dead, durable>>
    BY <1>11 DEF FlushStep
  <2>2. CASE cur' = cur
    BY <1>0, <1>1, <2>1, <2>2
  <2>3. CASE cur' # cur
    <3>1. PICK out : out = UNION {Flushed(k) : k \in Frozen}
      OBVIOUS
    <3>2. cur' = Grown(cur, 0, OneFile(out))
      BY <1>11, <2>3, <3>1, FlushEffect DEF FlushStep
    <3>3. out \in SUBSET Entry /\ out \subseteq Mem(cur.imm)
      BY <3>1, FlushedSub
    <3>4. PICK s \in Seq(File) : s = OneFile(out) /\ \A i \in DOMAIN s : s[i] = out
      BY <3>3, OneFileType
    <3>5. ASSUME comp # None PROVE Newer(out, UNION comp.in)
      <4>1. \A f \in comp.in : Newer(Mem(cur.imm), f)
        BY <1>9, <3>5 DEF Layers, Stack
      <4>2. Newer(Mem(cur.imm), UNION comp.in)
        BY <4>1, NewerUnion
      <4> QED
        BY <3>3, <4>2 DEF Newer
    <3>6. comp # None => \A i \in DOMAIN s : Newer(s[i], UNION comp.in)
      BY <3>4, <3>5
    <3>7. PICK m : m = 0
      OBVIOUS
    <3>8. cur' = Grown(cur, m, s) /\ m \in {0} \cup MemIds /\ durable' \in Nat /\ durable <= durable'
      BY <1>0, <2>1, <3>2, <3>4, <3>7
    <3> QED
      BY <1>2, <2>1, <3>6, <3>8
  <2> QED
    BY <2>2, <2>3
<1>12. CASE CompFinish \/ CompFails \/ \E n \in 0 .. MaxSeq : Crash(n)
  BY <1>3, <1>12 DEF CompFinish, CompFails, Crash
<1> QED
  BY <1>4, <1>5, <1>6, <1>7, <1>8, <1>10, <1>11, <1>12, StartInputs, PauseInputs, CalmSteps DEF Next, Spilled

---------------------------------------------------------------------------
(* What the snapshots see, kept.                                           *)

\* What a version has, with the memtables of m.
AllOf(m, v) == Contents(MemOf(m, v.mem), MemOf(m, v.imm), v)

\* A has what a transaction that begins now is to see.
TruthOf(A) ==
    \A k \in Key : \A s \in durable .. last : ~Gone(TreeOf[k], s) => Same(A, hist, k, s)

\* Truth, of the next memtables.
LEMMA TruthMade ==
  ASSUME NEW A, A = AllOf(mems', cur'), TruthOf(A)',
         \A r \in readers' : \A k \in Key :
            ~Gone(TreeOf[k], r.snap)' => Same(AllOf(mems', r.v), hist', k, r.snap)
  PROVE  Truth'
<1>1. All(cur)' = A
  BY DEF All, AllOf, Contents, Files, Mem, MemOf
<1>2. (\A k \in Key : \A s \in durable .. last :
          ~Gone(TreeOf[k], s) => Same(All(cur), hist, k, s))'
  BY <1>1 DEF TruthOf, Same, Gone
<1>3. (\A r \in readers : \A k \in Key :
          ~Gone(TreeOf[k], r.snap) => Same(All(r.v), hist, k, r.snap))'
  BY DEF All, AllOf, Contents, Files, Mem, MemOf, Same, Gone
<1> QED
  BY <1>2, <1>3 DEF Truth

\* What a version has was committed.
LEMMA AllSub ==
  ASSUME Types, History, NEW v, v \in {cur} \cup {r.v : r \in readers}
  PROVE  /\ All(v) = AllOf(mems, v) /\ All(v) \subseteq hist /\ All(v) \in SUBSET Entry
         /\ \A d, e \in All(v) : d.key = e.key /\ d.seq = e.seq => d = e
         /\ \A e \in All(v) : e.seq \in Nat /\ e.seq <= last
<1>1. v \in Version /\ v.mem \in MemIds /\ v.imm \in {0} \cup MemIds
  BY DEF Types, Reader, Version
<1>2. Mem(v.mem) \subseteq hist /\ Mem(v.imm) \subseteq hist
  BY <1>1 DEF History, Mem
<1>3. UNION Files(v) \subseteq hist
  BY DEF History
<1>4. All(v) \subseteq hist
  BY <1>2, <1>3 DEF All, Contents
<1>5. hist \subseteq Entry /\ \A e \in Entry : e.seq \in Nat
  BY VersionsAssumption DEF Types, Entry
<1> QED
  BY <1>4, <1>5 DEF All, AllOf, Mem, MemOf, History

\* A later snapshot sees no more where nothing is newer.
LEMMA SeenAll ==
  ASSUME NEW A \in SUBSET Entry, NEW k, NEW s \in Nat, NEW t \in Nat, s <= t, \A e \in A : e.seq <= s
  PROVE  Newest(A, k, t) = Newest(A, k, s)
<1>1. \A e \in A : e.seq \in Nat
  BY VersionsAssumption DEF Entry
<1>2. \A e \in A : e.seq <= t <=> e.seq <= s
  BY <1>1
<1> QED
  BY <1>2 DEF Newest

\* Gone once, gone later.
LEMMA GoneLater ==
  ASSUME Types, NEW t \in Tree, NEW u \in Nat, NEW s \in Nat, u <= s, Gone(t, u)
  PROVE  Gone(t, s)
<1>1. dead[t] \in Nat
  BY VersionsAssumption DEF Types
<1> QED
  BY <1>1 DEF Gone

\* A step that commits nothing keeps the truth of a version that a snapshot
\* sees the same of.
LEMMA TruthSame ==
  ASSUME Types, Truth, hist' = hist, dead' = dead, last' = last, durable' \in Nat, durable <= durable',
         NEW B,
         \A k \in Key : \A s \in durable .. last :
            ~Gone(TreeOf[k], s) => Same(B, All(cur), k, s)
  PROVE  TruthOf(B)'
<1>1. durable \in Nat /\ last \in Nat
  BY VersionsAssumption DEF Types
<1>2. ASSUME NEW k \in Key, NEW s \in durable' .. last', ~Gone(TreeOf[k], s)'
      PROVE  Same(B, hist, k, s)
  <2>1. s \in durable .. last
    BY <1>1
  <2>2. ~Gone(TreeOf[k], s)
    BY <1>2 DEF Gone
  <2>3. Same(B, All(cur), k, s) /\ Same(All(cur), hist, k, s)
    BY <2>1, <2>2 DEF Truth
  <2> QED
    BY <2>3 DEF Same
<1> QED
  BY <1>2 DEF TruthOf, Same

\* What is committed at once, after everything there is, is seen.
LEMMA TruthGrown ==
  ASSUME Types, History, Truth, NEW X \in SUBSET Entry, hist' = hist \cup X,
         last' \in Nat, last <= last', durable' \in {durable, last'},
         \A s \in durable' .. last' : s <= last \/ s = last',
         \A e \in X : e.seq > last,
         \A x \in Tree : \/ dead'[x] = dead[x]
                         \/ dead[x] = 0 /\ dead'[x] = last' /\ last < last'
  PROVE  \A B : B = All(cur) \cup X => TruthOf(B)'
<1>0. durable \in Nat /\ last \in Nat /\ hist \subseteq Entry /\ \A e \in Entry : e.seq \in Nat
  BY VersionsAssumption DEF Types, Entry
<1>1. PICK A : A = All(cur)
  OBVIOUS
<1>2. A \in SUBSET Entry /\ A \subseteq hist /\ \A e \in A : e.seq <= last
  BY <1>1, AllSub
<1>3. \A e \in hist : e.seq <= last
  BY DEF History
<1>4. \A x \in X : \A e \in A \cup hist : x.seq > e.seq
  BY <1>0, <1>2, <1>3
<1>5. ASSUME NEW k \in Key, NEW s \in durable' .. last', ~Gone(TreeOf[k], s)'
      PROVE  Same(A \cup X, hist \cup X, k, s)
  <2>0. s \in Nat /\ TreeOf[k] \in Tree /\ durable <= s /\ durable <= last
    BY <1>0 DEF Tree, Types
  <2>1. CASE s <= last
    <3>1. ~Gone(TreeOf[k], s)
      BY <1>0, <1>5, <2>0, <2>1 DEF Gone, Types
    <3>2. s \in durable .. last
      BY <1>0, <2>0, <2>1
    <3>3. Same(A, hist, k, s)
      BY <1>1, <3>1, <3>2 DEF Truth
    <3> QED
      BY <1>0, <1>2, <1>4, <2>0, <3>3, Later
  <2>2. CASE s = last'
    <3>1. ~Gone(TreeOf[k], last)
      <4>1. dead[TreeOf[k]] \in 0 .. last
        BY <2>0 DEF Types
      <4> QED
        BY <1>0, <1>5, <2>0, <2>2, <4>1 DEF Gone
    <3>2. Same(A, hist, k, last)
      BY <1>0, <1>1, <2>0, <3>1 DEF Truth
    <3>3. Newest(A, k, s) = Newest(A, k, last) /\ Newest(hist, k, s) = Newest(hist, k, last)
      BY <1>0, <1>2, <1>3, <2>0, <2>2, SeenAll
    <3>4. Same(A, hist, k, s)
      BY <3>2, <3>3 DEF Same
    <3> QED
      BY <1>0, <1>2, <1>4, <2>0, <3>4, Later
  <2> QED
    BY <2>1, <2>2
<1> QED
  <2> TAKE B
  <2>1. HAVE B = All(cur) \cup X
  <2>2. B = A \cup X
    BY <1>1, <2>1
  <2> QED
    BY <1>5, <2>2 DEF TruthOf, Same

\* What the steps that commit nothing make of the current version, seen by the
\* snapshots from the last durable commit on.
LEMMA FlushSeen ==
  ASSUME Types, Memory, History, FlushStep, cur' # cur,
         NEW k \in Key, NEW s \in durable .. last, ~Gone(TreeOf[k], s)
  PROVE  Same(AllOf(mems', cur'), All(cur), k, s)
<1>0. /\ cur \in Version /\ cur.mem \in MemIds /\ 0 \notin MemIds /\ fl # None /\ fl \in Flushing
      /\ durable \in Nat /\ last \in Nat /\ s \in Nat /\ durable <= s
      /\ \A e \in Entry : e.seq \in Nat
  <2>1. cur \in Version /\ cur.mem \in MemIds /\ 0 \notin MemIds
    BY VersionsAssumption DEF Types, Version, MemIds
  <2>2. fl # None /\ fl \in Flushing
    BY DEF Types, FlushStep
  <2>3. durable \in Nat /\ last \in Nat /\ s \in Nat /\ durable <= s
    BY VersionsAssumption DEF Types
  <2> QED
    BY <2>1, <2>2, <2>3, VersionsAssumption DEF Entry
<1>1. PICK M, I, out : M = Mem(cur.mem) /\ I = Mem(cur.imm) /\ out = UNION {Flushed(j) : j \in Frozen}
  OBVIOUS
<1>2. cur' = Grown(cur, 0, OneFile(out))
  BY <1>0, <1>1, FlushEffect
<1>3. out \in SUBSET Entry /\ out \subseteq I
  BY <1>1, FlushedSub
<1>4. PICK q \in Seq(File) : q = OneFile(out) /\ UNION ToSet(q) = out
  BY <1>3, OneFileType
<1>5. cur' = Grown(cur, 0, q)
  BY <1>2, <1>4
<1>6. cur'.imm = 0
  BY <1>0, <1>5 DEF Grown, Version
<1>7. cur'.mem = cur.mem /\ Mem(cur.mem)' = M
  BY <1>1, MemKept
<1>8. MemOf(mems', cur'.mem) = M /\ MemOf(mems', cur'.imm) = {}
  BY <1>0, <1>6, <1>7 DEF Mem, MemOf
<1>9. Files(cur') = Files(cur) \cup ToSet(q)
  <2>1. PICK a, z : a = Grown(cur, z, q) /\ z = 0
    OBVIOUS
  <2>2. z \in {0} \cup MemIds
    BY <2>1
  <2>3. Files(a) = Files(cur) \cup ToSet(q)
    BY <1>0, <2>1, <2>2, GrownVersion
  <2> QED
    BY <1>5, <2>1, <2>3
<1>10. PICK A, B : A = All(cur) /\ B = AllOf(mems', cur')
  OBVIOUS
<1>11. A = M \cup I \cup UNION Files(cur) /\ B = M \cup (UNION Files(cur)) \cup out
  <2>1. UNION (Files(cur) \cup ToSet(q)) = (UNION Files(cur)) \cup out
    BY <1>4
  <2> QED
    BY <1>1, <1>8, <1>9, <1>10, <2>1 DEF All, AllOf, Contents
<1>12. A \in SUBSET Entry /\ \A d, e \in A : d.key = e.key /\ d.seq = e.seq => d = e
  BY <1>10, AllSub
<1>13. B \in SUBSET A
  BY <1>3, <1>11
<1>14. ASSUME NEW e \in A, e.key = k, e \notin B
       PROVE  \E d \in A : d.key = k /\ d.seq <= s /\ d.seq > e.seq
  <2>1. e \in I /\ e \notin out /\ I \in SUBSET Entry
    BY <1>1, <1>11, <1>14, FlushedSub
  <2>2. k \in Frozen
    BY <1>1, <1>14, <2>1 DEF Frozen
  <2>3. fl.upto <= durable /\ fl.upto \in Nat /\ \A d \in I : d.seq <= durable
    BY <1>0, <1>1 DEF Memory, Flushing
  <2>4. ~Gone(TreeOf[k], fl.upto)
    <3>1. TreeOf[k] \in Tree /\ fl.upto <= s
      BY <1>0, <2>3 DEF Tree
    <3> QED
      BY <1>0, <2>3, <3>1, GoneLater
  <2>5. Flushed(k) = Newest(I, k, last)
    BY <1>1, <2>4 DEF Flushed
  <2>6. e.seq <= last
    BY <1>10, <1>14, AllSub
  <2>7. \/ Newest(I, k, last) = {} /\ \A d \in I : ~(d.key = k /\ d.seq <= last)
        \/ \E n \in I : /\ n.key = k /\ n.seq <= last /\ Newest(I, k, last) = {n}
                        /\ \A d \in I : d.key = k /\ d.seq <= last => d.seq <= n.seq
    <3>1. \A d, x \in I : d.key = x.key /\ d.seq = x.seq => d = x
      BY <1>11, <1>12
    <3> QED
      BY <1>0, <2>1, <3>1, NewestOne
  <2>8. PICK n \in I : /\ n.key = k /\ n.seq <= last /\ Newest(I, k, last) = {n}
                       /\ \A d \in I : d.key = k /\ d.seq <= last => d.seq <= n.seq
    BY <1>14, <2>1, <2>6, <2>7
  <2>9. n \in out
    BY <1>1, <2>2, <2>5, <2>8
  <2>10. n # e /\ n \in A /\ e.seq <= n.seq
    BY <1>11, <1>14, <2>1, <2>6, <2>8, <2>9
  <2>11. n.seq # e.seq
    BY <1>12, <1>14, <2>8, <2>10
  <2>12. n.seq \in Nat /\ e.seq \in Nat /\ n.seq <= durable
    BY <1>0, <2>1, <2>3, <2>8
  <2>13. n.seq > e.seq /\ n.seq <= s
    BY <1>0, <2>10, <2>11, <2>12
  <2> QED
    BY <2>8, <2>10, <2>13
<1>15. Same(B, A, k, s)
  BY <1>0, <1>12, <1>13, <1>14, Harmless
<1> QED
  BY <1>10, <1>15

\* A file that is all dead has nothing of a tree that is not.
LEMMA SweptGone ==
  ASSUME Types, NEW f \in File, AllDead(f, durable), NEW e \in f
  PROVE  Gone(TreeOf[e.key], durable)
<1>1. /\ Smallest(f) \in Key /\ Largest(f) \in Key /\ e.key \in Key
      /\ Smallest(f) <= e.key /\ e.key <= Largest(f)
  BY KeysOf
<1>2. TreeOf[Smallest(f)] <= TreeOf[e.key] /\ TreeOf[e.key] <= TreeOf[Largest(f)]
  BY <1>1, VersionsAssumption DEF Key
<1>3. TreeOf[e.key] \in Nat /\ TreeOf[Smallest(f)] \in Nat /\ TreeOf[Largest(f)] \in Nat
  BY <1>1, VersionsAssumption DEF Key
<1>4. TreeOf[e.key] \in TreeOf[Smallest(f)] .. TreeOf[Largest(f)]
  BY <1>2, <1>3
<1> QED
  BY <1>4 DEF AllDead

\* The sweep drops nothing that a snapshot sees.
LEMMA SweepSeen ==
  ASSUME Types, History, SweepDead, cur' # cur,
         NEW k \in Key, NEW s \in durable .. last, ~Gone(TreeOf[k], s)
  PROVE  Same(AllOf(mems', cur'), All(cur), k, s)
<1>0. /\ cur \in Version /\ durable \in Nat /\ s \in Nat /\ durable <= s
  BY VersionsAssumption DEF Types
<1>1. cur' = Without(cur, Swept) /\ mems' = mems
  BY DEF SweepDead
<1>2. PICK X, w : X = Swept /\ w = Without(cur, X)
  OBVIOUS
<1>3. w.mem = cur.mem /\ w.imm = cur.imm /\ Files(w) = Files(cur) \ X
  BY <1>0, <1>2, WithoutVersion
<1>4. PICK A, B, M, I : /\ A = All(cur) /\ B = AllOf(mems', cur')
                        /\ M = Mem(cur.mem) /\ I = Mem(cur.imm)
  OBVIOUS
<1>5. A = M \cup I \cup UNION Files(cur) /\ B = M \cup I \cup UNION (Files(cur) \ X)
  BY <1>1, <1>2, <1>3, <1>4 DEF All, AllOf, Contents, Mem, MemOf
<1>6. A \in SUBSET Entry /\ \A d, e \in A : d.key = e.key /\ d.seq = e.seq => d = e
  BY <1>4, AllSub
<1>7. B \in SUBSET A
  BY <1>5
<1>8. ASSUME NEW e \in A, e.key = k PROVE e \in B
  <2>1. SUFFICES ASSUME NEW f \in Files(cur), e \in f, f \in X PROVE FALSE
    BY <1>5, <1>8
  <2>2. f \in File /\ AllDead(f, durable)
    BY <1>0, <1>2, <2>1, Fields DEF Swept, Horizon
  <2>3. Gone(TreeOf[k], durable)
    BY <1>8, <2>1, <2>2, SweptGone
  <2>4. TreeOf[k] \in Tree
    BY DEF Tree
  <2> QED
    BY <1>0, <2>3, <2>4, GoneLater
<1>9. Same(B, A, k, s)
  BY <1>0, <1>6, <1>7, <1>8, Harmless
<1> QED
  BY <1>4, <1>9

\* Files that are moved are seen as before.
LEMMA StartSeen ==
  ASSUME Types, CompStart PROVE AllOf(mems', cur') = All(cur)
<1>0. cur \in Version /\ mems' = mems
  BY DEF Types, CompStart
<1>1. ASSUME NEW X \in SUBSET File, X \subseteq Files(cur), NEW l \in Deep,
             cur' = Added(Without(cur, X), l, X)
      PROVE  AllOf(mems', cur') = All(cur)
  <2>1. PICK a : a = Added(Without(cur, X), l, X)
    OBVIOUS
  <2>2. a.mem = cur.mem /\ a.imm = cur.imm
    BY <1>0, <2>1, Moved
  <2>3. Files(a) = (Files(cur) \ X) \cup X
    BY <1>0, <2>1, Moved
  <2>4. Files(a) = Files(cur)
    BY <1>1, <2>3
  <2> QED
    BY <1>0, <1>1, <2>1, <2>2, <2>4 DEF AllOf, All, Contents, Mem, MemOf
<1>2. ASSUME cur' = Added(Without(cur, Alone0), 1, Alone0) PROVE AllOf(mems', cur') = All(cur)
  <2>1. Alone0 \in SUBSET File /\ Alone0 \subseteq Files(cur) /\ 1 \in Deep
    BY InputsType DEF Files
  <2> QED
    BY <1>1, <1>2, <2>1
<1>3. ASSUME NEW l \in Deep \ {Levels - 1}, NEW f \in cur.deep[l],
             cur' = Added(Without(cur, {f}), l + 1, {f})
      PROVE  AllOf(mems', cur') = All(cur)
  <2>1. {f} \in SUBSET File /\ l + 1 \in Deep /\ {f} \subseteq Files(cur)
    BY InputsType DEF Files
  <2> QED
    BY <1>1, <1>3, <2>1
<1>4. ASSUME cur' = cur PROVE AllOf(mems', cur') = All(cur)
  BY <1>0, <1>4 DEF AllOf, All, Mem, MemOf
<1> QED
  BY <1>2, <1>3, <1>4, StartEffect

\* A merge leaves out nothing that a snapshot sees.
LEMMA FinishSeen ==
  ASSUME Types, History, Inputs, Layers(cur), CompFinish,
         NEW k \in Key, NEW s \in durable .. last, ~Gone(TreeOf[k], s)
  PROVE  Same(AllOf(mems', cur'), All(cur), k, s)
<1>0. /\ cur \in Version /\ durable \in Nat /\ s \in Nat /\ durable <= s
      /\ mems' = mems /\ TreeOf[k] \in Tree
  BY VersionsAssumption DEF Types, CompFinish, Tree
<1>1. PICK G \in SUBSET File : /\ cur' = Added(Without(cur, comp.in), comp.next, G)
                               /\ UNION G = Kept(comp)
  BY Merges
<1>2. comp \in Merging /\ comp # None /\ Kept(comp) \subseteq UNION comp.in
  BY Merges
<1>3. PICK M, I, X, E, l, c : /\ M = Mem(cur.mem) /\ I = Mem(cur.imm) /\ X = comp.in
                              /\ E = UNION X /\ l = comp.next /\ c = comp
  OBVIOUS
<1>4. /\ X \subseteq Files(cur) /\ l \in Deep /\ c.keep <= durable /\ c.keep \in Nat
      /\ \A i \in DOMAIN cur.l0 : cur.l0[i] \notin X => Newer(cur.l0[i], E)
      /\ \A m \in Deep : \A f \in cur.deep[m] \ X :
             /\ m < l => Newer(f, E)
             /\ m = l => Apart(f, E)
             /\ m > l => Newer(E, f)
      /\ c.bottom => \A m \in Deep : m > l => cur.deep[m] = {}
  <2>1. /\ X \subseteq Files(cur) /\ c.keep <= durable /\ Placed(cur, X, E, l)
        /\ c.bottom => \A m \in Deep : m > l => cur.deep[m] = {}
    BY <1>2, <1>3, InputsAre
  <2>2. l \in Deep /\ c.keep \in Nat
    BY <1>2, <1>3 DEF Merging
  <2> QED
    BY <2>1, <2>2 DEF Placed
<1>5. PICK w : w = Added(Without(cur, X), l, G)
  OBVIOUS
<1>6. w.mem = cur.mem /\ w.imm = cur.imm /\ Files(w) = (Files(cur) \ X) \cup G
  <2>1. w.mem = cur.mem /\ w.imm = cur.imm
    BY <1>0, <1>4, <1>5, Moved
  <2>2. Files(w) = (Files(cur) \ X) \cup G
    BY <1>0, <1>4, <1>5, Moved
  <2> QED
    BY <2>1, <2>2
<1>7. PICK A, B, K : A = All(cur) /\ B = AllOf(mems', cur') /\ K = Kept(c)
  OBVIOUS
<1>8. UNION ((Files(cur) \ X) \cup G) = (UNION (Files(cur) \ X)) \cup K
  BY <1>1, <1>3, <1>7
<1>9. A = M \cup I \cup (UNION Files(cur)) /\ B = M \cup I \cup (UNION (Files(cur) \ X)) \cup K
  <2>1. A = M \cup I \cup (UNION Files(cur))
    BY <1>3, <1>7 DEF All, Contents
  <2>2. AllOf(mems', w) = M \cup I \cup (UNION Files(w))
    BY <1>0, <1>3, <1>6 DEF AllOf, Contents, Mem, MemOf
  <2>3. cur' = w
    BY <1>1, <1>3, <1>5
  <2> QED
    BY <1>6, <1>7, <1>8, <2>1, <2>2, <2>3
<1>10. A \in SUBSET Entry /\ \A d, e \in A : d.key = e.key /\ d.seq = e.seq => d = e
  BY <1>7, AllSub
<1>11. K \subseteq E /\ E \subseteq A /\ B \in SUBSET A
  <2>1. K \subseteq E /\ E \subseteq UNION Files(cur)
    BY <1>2, <1>3, <1>4, <1>7
  <2> QED
    BY <1>9, <2>1
<1>12. \A e \in A : e.seq \in Nat
  BY <1>10, VersionsAssumption DEF Entry
<1>13. Stack(M, I, cur)
  BY <1>3 DEF Layers
<1>14. Newer(M, E) /\ Newer(I, E)
  <2>1. \A f \in X : Newer(M, f) /\ Newer(I, f)
    BY <1>4, <1>13 DEF Stack
  <2> QED
    BY <1>3, <2>1, NewerUnion
<1>15. ASSUME NEW e \in E, e.key = k, e.seq <= c.keep, c.bottom, NEW f \in Files(cur) \ X,
              NEW x \in f, x.key = k
       PROVE  x.seq > e.seq
  <2>1. CASE f \in ToSet(cur.l0)
    BY <1>4, <1>15, <2>1 DEF ToSet, Newer
  <2>2. ASSUME NEW m \in Deep, f \in cur.deep[m] PROVE x.seq > e.seq
    <3>1. m \in Nat /\ l \in Nat
      BY <1>4, InputsType
    <3>2. CASE m < l
      BY <1>4, <1>15, <2>2, <3>2 DEF Newer
    <3>3. CASE m = l
      <4>1. Apart(f, E)
        BY <1>4, <2>2, <3>3
      <4>2. x.key # e.key
        <5>1. x \in Entry /\ e \in Entry
          BY <1>9, <1>10, <1>11
        <5>2. x.key \in Nat /\ e.key \in Nat
          BY <5>1, VersionsAssumption DEF Entry, Key
        <5> QED
          BY <4>1, <5>2 DEF Apart
      <4> QED
        BY <1>15, <4>2
    <3>4. CASE m > l
      BY <1>4, <1>15, <2>2, <3>4
    <3> QED
      BY <3>1, <3>2, <3>3, <3>4
  <2> QED
    BY <2>1, <2>2, FileOf
<1>16. ASSUME NEW e \in A, e.key = k, e.seq <= s, e \notin B
       PROVE  \/ \E d \in A : d.key = k /\ d.seq <= s /\ d.seq > e.seq
              \/ e.del /\ \A x \in B : x.key = k => x.seq > e.seq
  <2>1. e \in E /\ e \notin K
    <3>1. PICK f \in Files(cur) : e \in f
      BY <1>9, <1>16
    <3>2. f \in X
      BY <1>9, <1>16, <3>1
    <3> QED
      BY <1>3, <1>9, <1>16, <3>1, <3>2
  <2>2. ~Keep(c, e)
    BY <1>3, <1>7, <2>1 DEF Kept
  <2>3. ~Gone(TreeOf[k], c.keep)
    <3>1. c.keep <= s
      BY <1>0, <1>4
    <3> QED
      BY <1>0, <1>4, <3>1, GoneLater
  <2>4. UNION c.in = E
    BY <1>3
  <2>5. /\ ~(e.seq > c.keep)
        /\ \/ ~(\A d \in E : d.key = e.key /\ d.seq <= c.keep => d.seq <= e.seq)
           \/ (c.bottom /\ e.del)
    BY <1>16, <2>2, <2>3, <2>4 DEF Keep
  <2>6. e.seq <= c.keep
    BY <1>4, <1>12, <2>5
  <2>7. ASSUME NEW d \in E, d.key = e.key, d.seq <= c.keep, ~(d.seq <= e.seq)
        PROVE  \E x \in A : x.key = k /\ x.seq <= s /\ x.seq > e.seq
    <3>1. d \in A /\ d.seq \in Nat /\ e.seq \in Nat
      BY <1>11, <1>12, <2>7
    <3>2. d.seq <= s /\ d.seq > e.seq
      BY <1>0, <1>4, <2>7, <3>1
    <3> QED
      BY <1>16, <2>7, <3>1, <3>2
  <2>8. ASSUME c.bottom, e.del, \A d \in E : d.key = e.key /\ d.seq <= c.keep => d.seq <= e.seq,
               NEW x \in B, x.key = k
        PROVE  x.seq > e.seq
    <3>1. CASE x \in M \cup I
      BY <1>14, <1>16, <2>1, <2>8, <3>1 DEF Newer
    <3>2. CASE x \in UNION (Files(cur) \ X)
      BY <1>15, <1>16, <2>1, <2>6, <2>8, <3>2
    <3>3. CASE x \in K
      <4>1. Keep(c, x) /\ x \in E
        BY <1>3, <1>7, <1>11, <3>3 DEF Kept
      <4>2. x.seq > c.keep \/ (/\ \A d \in E : d.key = x.key /\ d.seq <= c.keep => d.seq <= x.seq
                               /\ ~(c.bottom /\ x.del))
        BY <2>4, <4>1 DEF Keep
      <4>3. x.seq \in Nat /\ e.seq \in Nat /\ x \in A
        BY <1>11, <1>12, <4>1
      <4>4. CASE x.seq > c.keep
        BY <1>4, <2>6, <4>3, <4>4
      <4>5. CASE (\A d \in E : d.key = x.key /\ d.seq <= c.keep => d.seq <= x.seq) /\ ~x.del
        <5>1. e.seq <= x.seq
          BY <1>16, <2>1, <2>6, <2>8, <4>5
        <5>2. x # e
          BY <2>8, <4>5
        <5>3. x.seq # e.seq
          BY <1>10, <1>16, <2>8, <4>3, <5>2
        <5> QED
          BY <4>3, <5>1, <5>3
      <4> QED
        BY <2>8, <4>2, <4>4, <4>5
    <3> QED
      BY <1>9, <3>1, <3>2, <3>3
  <2> QED
    BY <2>5, <2>7, <2>8
<1>17. Same(B, A, k, s)
  BY <1>0, <1>10, <1>11, <1>16, Harmless
<1> QED
  BY <1>7, <1>17

\* After a crash everything up to the commit that the log has is there.
LEMMA CrashTruth ==
  ASSUME Types, History, FilesDurable, Truth, NEW n \in 0 .. MaxSeq, Crash(n)
  PROVE  Truth'
<1>1. /\ n \in Nat /\ durable <= n /\ n <= last
      /\ last' = n /\ durable' = n /\ hist' = {e \in hist : e.seq <= n}
      /\ cur'.mem = 1 /\ cur'.imm = 0 /\ Files(cur') = Files(cur) /\ readers' = {}
      /\ mems'[1] = {e \in Mem(cur.mem) \cup Mem(cur.imm) : e.seq <= n}
  BY CrashEffect
<1>2. \A t \in Tree : dead'[t] = IF dead[t] <= n THEN dead[t] ELSE 0
  BY CrashEffect
<1>3. hist \in SUBSET Entry /\ durable \in Nat /\ last \in Nat /\ \A e \in Entry : e.seq \in Nat
  BY VersionsAssumption DEF Types, Entry
<1>4. PICK A, B, M, I : /\ A = All(cur) /\ B = AllOf(mems', cur')
                        /\ M = Mem(cur.mem) /\ I = Mem(cur.imm)
  OBVIOUS
<1>5. A = M \cup I \cup (UNION Files(cur)) /\ A \in SUBSET Entry
  BY <1>4, AllSub DEF All, Contents
<1>6. B = {e \in M \cup I : e.seq <= n} \cup (UNION Files(cur))
  BY <1>1, <1>4 DEF AllOf, Contents, MemOf
<1>7. \A f \in Files(cur) : \A e \in f : e.seq <= n
  <2>1. \A f \in Files(cur) : \A e \in f : e.seq <= durable /\ e \in hist
    BY DEF FilesDurable, History
  <2> QED
    BY <1>1, <1>3, <2>1
<1>8. B = {e \in A : e.seq <= n}
  BY <1>5, <1>6, <1>7
<1>9. ASSUME NEW k \in Key, NEW s \in durable' .. last', ~Gone(TreeOf[k], s)'
      PROVE  Same(B, hist', k, s)
  <2>1. s = n /\ n \in durable .. last
    BY <1>1, <1>3
  <2>2. ~Gone(TreeOf[k], n)
    <3>1. TreeOf[k] \in Tree
      BY DEF Tree
    <3> QED
      BY <1>2, <1>9, <2>1, <3>1 DEF Gone
  <2>3. Same(A, hist, k, n)
    BY <1>4, <2>1, <2>2 DEF Truth
  <2>4. Newest(B, k, n) = Newest(A, k, n)
    BY <1>1, <1>5, <1>8, CutOff
  <2>5. Newest(hist', k, n) = Newest(hist, k, n)
    BY <1>1, <1>3, CutOff
  <2> QED
    BY <2>1, <2>3, <2>4, <2>5 DEF Same
<1>10. TruthOf(B)'
  BY <1>9 DEF TruthOf, Same
<1> QED
  BY <1>1, <1>4, <1>10, TruthMade

\* A commit through the log.
LogCommit ==
    \/ \E k \in Written, del \in BOOLEAN, sync \in BOOLEAN : Commit(k, del, sync)
    \/ \E t \in Tree, sync \in BOOLEAN : Retire(t, sync)

\* A version that stays held has what it had, but for what a commit writes.
LEMMA HeldSame ==
  ASSUME Types, [Next]_vars, \A n \in 0 .. MaxSeq : ~Crash(n), ~LogCommit,
         NEW v, v \in {cur} \cup {r.v : r \in readers}, v \in {cur'} \cup {r.v : r \in readers'}
  PROVE  AllOf(mems', v) = All(v)
<1>0. /\ mems \in [MemIds -> SUBSET Entry] /\ v.mem \in MemIds /\ v.imm \in {0} \cup MemIds
      /\ 0 \notin MemIds
  BY HeldVersion
<1>1. CASE mems' = mems
  BY <1>1 DEF AllOf, All, Mem, MemOf
<1>2. ASSUME mems' = [i \in DOMAIN mems |-> IF i \in Held(cur', readers') THEN mems[i] ELSE {}]
      PROVE  AllOf(mems', v) = All(v)
  <2>1. v.mem \in Held(cur', readers') /\ v.imm \in Held(cur', readers')
    BY DEF Held
  <2>2. MemOf(mems', v.mem) = Mem(v.mem) /\ MemOf(mems', v.imm) = Mem(v.imm)
    BY <1>0, <1>2, <2>1 DEF MemOf, Mem
  <2> QED
    BY <2>2 DEF AllOf, All
<1>3. CASE \E r \in readers : EndRead(r)
  BY <1>2, <1>3 DEF EndRead, Freed
<1>4. CASE FlushStep
  BY <1>2, <1>4 DEF FlushStep, Freed
<1>5. ASSUME NEW runs \in Spills, Spilled(runs) PROVE mems' = mems
  BY <1>5 DEF Spilled, Runs
<1>6. CASE \/ Begin \/ Freeze \/ FlushFails \/ SweepDead
           \/ CompStart \/ CompPause \/ CompFinish \/ CompFails
  BY <1>1, <1>6 DEF Begin, Freeze, FlushFails, SweepDead, CompStart, CompPause, CompFinish, CompFails
<1>7. CASE Calm
  BY <1>1, <1>7 DEF Calm
<1> QED
  BY <1>1, <1>3, <1>4, <1>5, <1>6, <1>7, CalmSteps DEF Next, Spilled, LogCommit

\* What a commit through the log adds.
LEMMA LogAll ==
  ASSUME Types, Memory, LogCommit
  PROVE  \E e \in Entry : /\ e.seq = last + 1 /\ hist' = hist \cup {e}
                          /\ AllOf(mems', cur') = All(cur) \cup {e}
                          /\ \A r \in readers : AllOf(mems', r.v) \in {All(r.v), All(r.v) \cup {e}}
<1>0. /\ mems \in [MemIds -> SUBSET Entry] /\ 0 \notin MemIds
      /\ \A v \in {cur} \cup {r.v : r \in readers} : v.mem \in MemIds /\ v.imm \in {0} \cup MemIds
      /\ cur.mem \in MemIds
  BY HeldVersion
<1>1. PICK e \in Entry : /\ e.seq = last + 1 /\ hist' = hist \cup {e}
                         /\ mems' = [mems EXCEPT ![cur.mem] = @ \cup {e}]
  BY LoggedEffect DEF LogCommit
<1>2. cur' = cur
  BY LoggedEffect DEF LogCommit
<1>3. ASSUME NEW v \in {cur} \cup {r.v : r \in readers}
      PROVE  AllOf(mems', v) = IF v.mem = cur.mem THEN All(v) \cup {e} ELSE All(v)
  <2>1. v.imm # cur.mem /\ v.mem \in MemIds /\ v.imm \in {0} \cup MemIds
    BY <1>0 DEF Memory
  <2>2. MemOf(mems', v.imm) = Mem(v.imm)
    BY <1>0, <1>1, <2>1 DEF Mem, MemOf
  <2>3. MemOf(mems', v.mem) = IF v.mem = cur.mem THEN Mem(v.mem) \cup {e} ELSE Mem(v.mem)
    BY <1>0, <1>1, <2>1 DEF Mem, MemOf
  <2> QED
    BY <2>2, <2>3 DEF AllOf, All, Contents
<1>4. AllOf(mems', cur') = All(cur) \cup {e}
  BY <1>2, <1>3
<1>5. \A r \in readers : AllOf(mems', r.v) \in {All(r.v), All(r.v) \cup {e}}
  BY <1>3
<1> QED
  BY <1>1, <1>4, <1>5

\* An open transaction, and one that begins, sees what was left there.
LEMMA ReadersTruth ==
  ASSUME Types, Slots, Memory, History, Inputs, FilesDurable, Truth, [Next]_vars,
         \A n \in 0 .. MaxSeq : ~Crash(n),
         NEW r \in readers', NEW k \in Key, ~Gone(TreeOf[k], r.snap)'
  PROVE  Same(AllOf(mems', r.v), hist', k, r.snap)
<1>0. /\ durable \in Nat /\ last \in Nat /\ durable <= last /\ hist \in SUBSET Entry
      /\ \A e \in Entry : e.seq \in Nat
  BY VersionsAssumption DEF Types, Entry
<1>1. PICK v, s : v = r.v /\ s = r.snap
  OBVIOUS
<1>2. r \in readers \/ (Begin /\ r = Pinned)
  BY ReadersStep
<1>3. /\ v \in {cur} \cup {q.v : q \in readers} /\ v \in {cur'} \cup {q.v : q \in readers'}
      /\ s \in Nat /\ s <= durable
  BY <1>0, <1>1, <1>2 DEF Types, Reader, Pinned
<1>4. \A t \in Tree : Gone(t, s) => Gone(t, s)'
  <2>1. ASSUME NEW t \in Tree, dead'[t] = dead[t] \/ dead[t] = 0
        PROVE  Gone(t, s) => Gone(t, s)'
    BY <2>1 DEF Gone
  <2>2. CASE LogCommit
    BY <2>1, <2>2, LoggedEffect DEF LogCommit
  <2>3. CASE \E runs \in Spills : Spilled(runs)
    BY <2>1, <2>3, RunsEffect
  <2>4. CASE ~LogCommit /\ ~\E runs \in Spills : Spilled(runs)
    <3>1. dead' = dead
      <4>2. ASSUME NEW q \in readers, EndRead(q) PROVE dead' = dead
        BY <4>2 DEF EndRead
      <4>3. CASE \/ Begin \/ Freeze \/ FlushStep \/ FlushFails \/ SweepDead
                 \/ CompStart \/ CompPause \/ CompFinish \/ CompFails
        BY <4>3 DEF Begin, Freeze, FlushStep, FlushFails, SweepDead, CompStart, CompPause, CompFinish, CompFails
      <4>4. CASE Calm
        BY <4>4 DEF Calm
      <4> QED
        BY <2>4, <4>2, <4>3, <4>4, CalmSteps DEF Next, Spilled, LogCommit
    <3> QED
      BY <3>1 DEF Gone
  <2> QED
    BY <2>2, <2>3, <2>4
<1>5. Same(All(v), hist, k, s)
  <2>1. ~Gone(TreeOf[k], s)
    <3>1. TreeOf[k] \in Tree
      BY DEF Tree
    <3> QED
      BY <1>1, <1>4, <3>1 DEF Gone
  <2>2. CASE r \in readers
    BY <1>1, <2>1, <2>2 DEF Truth
  <2>3. CASE r = Pinned
    <3>1. v = cur /\ s = durable /\ durable \in durable .. last
      BY <1>0, <1>1, <2>3 DEF Pinned
    <3> QED
      BY <2>1, <3>1 DEF Truth
  <2> QED
    BY <1>2, <2>2, <2>3
<1>6. All(v) \in SUBSET Entry
  BY <1>3, AllSub
<1>7. PICK X \in SUBSET Entry : hist' = hist \cup X /\ \A e \in X : last < e.seq
  BY Contained
<1>8. Newest(hist', k, s) = Newest(hist, k, s)
  <2>1. \A x \in X : x.seq > s
    BY <1>0, <1>3, <1>7
  <2>2. PICK H \in SUBSET Entry : H = hist
    BY <1>0
  <2>3. s \in Nat
    BY <1>3
  <2>4. Newest(H \cup X, k, s) = Newest(H, k, s)
    BY <2>1, <2>3, Unseen
  <2> QED
    BY <1>7, <2>2, <2>4
<1>9. Newest(AllOf(mems', v), k, s) = Newest(All(v), k, s)
  <2>1. CASE LogCommit
    <3>1. PICK e \in Entry : /\ e.seq = last + 1
                             /\ AllOf(mems', cur') = All(cur) \cup {e}
                             /\ \A q \in readers : AllOf(mems', q.v) \in {All(q.v), All(q.v) \cup {e}}
      BY <2>1, LogAll
    <3>2. cur' = cur
      BY <2>1, LoggedEffect DEF LogCommit
    <3>3. AllOf(mems', v) \in {All(v), All(v) \cup {e}}
      BY <1>3, <3>1, <3>2
    <3>4. \A x \in {e} : x.seq > s
      BY <1>0, <1>3, <3>1
    <3>5. Newest(All(v) \cup {e}, k, s) = Newest(All(v), k, s)
      <4>1. {e} \in SUBSET Entry /\ s \in Nat
        BY <1>3
      <4>2. \A x \in {e} : ~(x.seq <= s)
        BY <3>1, <4>1, <3>4, VersionsAssumption DEF Entry
      <4> QED
        BY <4>2 DEF Newest
    <3> QED
      BY <3>3, <3>5
  <2>2. CASE ~LogCommit
    <3>1. AllOf(mems', v) = All(v)
      BY <1>3, <2>2, HeldSame
    <3> QED
      BY <3>1
  <2> QED
    BY <2>1, <2>2
<1> QED
  BY <1>1, <1>5, <1>8, <1>9 DEF Same

\* The runs of a spilled transaction, seen.
LEMMA RunsAll ==
  ASSUME Types, NEW runs \in Spills, Spilled(runs)
  PROVE  \E X \in SUBSET Entry :
            /\ hist' = hist \cup X /\ \A e \in X : e.seq > last
            /\ AllOf(mems', cur') = All(cur) \cup X
<1>0. cur \in Version /\ cur.imm \in {0} \cup MemIds /\ last \in Nat
  BY VersionsAssumption DEF Types, Version
<1>1. /\ cur' = Grown(cur, cur.imm, RunFiles(runs)) /\ last + Len(runs) <= MaxSeq
      /\ hist' = hist \cup UNION ToSet(RunFiles(runs))
      /\ \A i \in 1 .. Len(runs) : RunFiles(runs)[i] = RunFile(runs, i)
  BY RunsEffect
<1>2. /\ RunFiles(runs) \in Seq(File) /\ Len(RunFiles(runs)) = Len(runs) /\ Len(runs) \in Nat
      /\ \A i \in 1 .. Len(runs) : \A e \in RunFile(runs, i) : e.seq = last + i
  BY <1>1, RunFilesType
<1>3. PICK s \in Seq(File) : s = RunFiles(runs)
  BY <1>2
<1>4. ToSet(s) = {s[i] : i \in 1 .. Len(runs)} /\ \A i \in 1 .. Len(runs) : s[i] \in File
  BY <1>2, <1>3 DEF ToSet
<1>5. PICK X : X = UNION ToSet(s)
  OBVIOUS
<1>6. X \in SUBSET Entry
  BY <1>4, <1>5 DEF File
<1>7. \A e \in X : e.seq > last
  <2>1. TAKE e \in X
  <2>2. PICK i \in 1 .. Len(runs) : e \in RunFile(runs, i)
    BY <1>1, <1>3, <1>4, <1>5
  <2> QED
    BY <1>0, <1>2, <2>2
<1>8. AllOf(mems', cur') = All(cur) \cup X
  <2>1. mems' = mems
    BY DEF Spilled, Runs
  <2>2. PICK a, m : a = Grown(cur, m, s) /\ m = cur.imm
    OBVIOUS
  <2>3. a.mem = cur.mem /\ a.imm = cur.imm
    BY <1>0, <2>2 DEF Grown, Version
  <2>4. Files(a) = Files(cur) \cup ToSet(s)
    BY <1>0, <2>2, GrownVersion
  <2>5. UNION Files(a) = (UNION Files(cur)) \cup X
    BY <1>5, <2>4
  <2>6. cur' = a
    BY <1>1, <1>3, <2>2
  <2> QED
    BY <2>1, <2>3, <2>5, <2>6 DEF AllOf, All, Contents, Mem, MemOf
<1> QED
  BY <1>1, <1>3, <1>5, <1>6, <1>7, <1>8

\* What the transactions to serve see is what the commits left there.
LEMMA TruthStep ==
  ASSUME Types, Slots, Drains, Memory, History, Inputs, FilesDurable, Layers(cur), Truth, [Next]_vars
  PROVE  Truth'
<1>0. /\ durable \in Nat /\ last \in Nat /\ durable <= last /\ cur \in Version
      /\ dead \in [Tree -> 0 .. last] /\ hist \in SUBSET Entry
  BY VersionsAssumption DEF Types
<1>1. CASE \E n \in 0 .. MaxSeq : Crash(n)
  BY <1>1, CrashTruth
<1>2. CASE \A n \in 0 .. MaxSeq : ~Crash(n)
  <2>0. \A r \in readers' : \A k \in Key :
            ~Gone(TreeOf[k], r.snap)' => Same(AllOf(mems', r.v), hist', k, r.snap)
    BY <1>2, ReadersTruth
  <2>1. PICK B : B = AllOf(mems', cur')
    OBVIOUS
  <2> SUFFICES TruthOf(B)'
    BY <2>0, <2>1, TruthMade
  <2>2. ASSUME hist' = hist, dead' = dead, last' = last, durable' \in Nat, durable <= durable',
               B = All(cur)
        PROVE  TruthOf(B)'
    <3>1. \A k \in Key : \A s \in durable .. last : ~Gone(TreeOf[k], s) => Same(B, All(cur), k, s)
      BY <2>2 DEF Same
    <3> QED
      BY <2>2, <3>1, TruthSame
  <2>3. ASSUME cur' = cur, ~LogCommit PROVE B = All(cur)
    <3>1. PICK v : v = cur
      OBVIOUS
    <3>2. v \in {cur} \cup {r.v : r \in readers} /\ v \in {cur'} \cup {r.v : r \in readers'}
      BY <2>3, <3>1
    <3>3. AllOf(mems', v) = All(v)
      BY <1>2, <2>3, <3>2, HeldSame
    <3> QED
      BY <2>1, <2>3, <3>1, <3>3
  <2>4. CASE LogCommit
    <3>1. PICK e \in Entry : /\ e.seq = last + 1 /\ hist' = hist \cup {e}
                             /\ AllOf(mems', cur') = All(cur) \cup {e}
      BY <2>4, LogAll
    <3>2. /\ last' = last + 1 /\ durable' \in {durable, last + 1}
          /\ \A t \in Tree : dead'[t] = dead[t] \/ (dead[t] = 0 /\ dead'[t] = last + 1)
      BY <2>4, LoggedEffect DEF LogCommit
    <3>3. PICK X : X = {e}
      OBVIOUS
    <3>4. X \in SUBSET Entry /\ hist' = hist \cup X /\ (\A x \in X : x.seq > last) /\ B = All(cur) \cup X
      BY <1>0, <2>1, <3>1, <3>3
    <3>5. /\ last' \in Nat /\ last <= last' /\ durable' \in {durable, last'}
          /\ \A s \in durable' .. last' : s <= last \/ s = last'
      BY <1>0, <3>2
    <3>6. \A x \in Tree : \/ dead'[x] = dead[x]
                          \/ dead[x] = 0 /\ dead'[x] = last' /\ last < last'
      BY <1>0, <3>2
    <3>7. \A C : C = All(cur) \cup X => TruthOf(C)'
      BY <3>4, <3>5, <3>6, TruthGrown
    <3> QED
      BY <3>4, <3>7
  <2>5. ASSUME NEW runs \in Spills, Spilled(runs) PROVE TruthOf(B)'
    <3>1. PICK X \in SUBSET Entry : /\ hist' = hist \cup X /\ \A e \in X : e.seq > last
                                    /\ AllOf(mems', cur') = All(cur) \cup X
      BY <2>5, RunsAll
    <3>2. last' = last + Len(runs) /\ durable' = last' /\ last + Len(runs) <= MaxSeq
      BY <2>5, RunsEffect
    <3>3. Len(runs) \in Nat
      BY <2>5, <3>2, RunFilesType
    <3>4. /\ last' \in Nat /\ last <= last' /\ durable' \in {durable, last'}
          /\ \A s \in durable' .. last' : s <= last \/ s = last'
      BY <1>0, <3>2, <3>3
    <3>6. \A x \in Tree : \/ dead'[x] = dead[x]
                          \/ dead[x] = 0 /\ dead'[x] = last' /\ last < last'
      BY <2>5, RunsEffect
    <3>7. \A C : C = All(cur) \cup X => TruthOf(C)'
      BY <3>1, <3>4, <3>6, TruthGrown
    <3> QED
      BY <2>1, <3>1, <3>7
  <2>6. CASE Calm /\ ~LogCommit
    BY <1>0, <2>2, <2>3, <2>6 DEF Calm
  <2>7. CASE ~LogCommit /\ (Begin \/ FlushFails \/ CompPause \/ CompFails \/ \E r \in readers : EndRead(r))
    <3>1. UNCHANGED <<cur, last, durable, dead, hist>>
      BY <2>7 DEF Begin, FlushFails, CompPause, CompFails, EndRead
    <3> QED
      BY <1>0, <2>2, <2>3, <2>7, <3>1
  <2>8. CASE Freeze /\ ~LogCommit
    <3>1. UNCHANGED <<mems, last, dead, hist>>
      BY <2>8 DEF Freeze
    <3>2. CASE UNCHANGED <<cur, durable, fl>>
      BY <1>0, <2>2, <2>3, <2>8, <3>1, <3>2
    <3>3. CASE ~UNCHANGED <<cur, durable, fl>>
      <4>1. /\ cur.imm = 0 /\ durable' = last /\ cur'.imm = cur.mem /\ Files(cur') = Files(cur)
            /\ cur'.mem \in MemIds /\ mems[cur'.mem] = {}
        BY <2>8, <3>3, FreezeEffect
      <4>2. 0 \notin MemIds /\ cur.mem \in MemIds
        BY <1>0 DEF MemIds, Version
      <4>3. MemOf(mems', cur'.mem) = {} /\ MemOf(mems', cur'.imm) = Mem(cur.mem) /\ Mem(cur.imm) = {}
        BY <3>1, <4>1, <4>2 DEF Mem, MemOf
      <4>4. B = All(cur)
        BY <2>1, <4>1, <4>3 DEF AllOf, All, Contents
      <4> QED
        BY <1>0, <2>2, <3>1, <4>1, <4>4
    <3> QED
      BY <3>2, <3>3
  <2>9. CASE ~LogCommit /\ (FlushStep \/ SweepDead \/ CompFinish)
    <3>1. UNCHANGED <<last, durable, dead, hist>>
      BY <2>9 DEF FlushStep, SweepDead, CompFinish
    <3>2. CASE cur' = cur
      BY <1>0, <2>2, <2>3, <2>9, <3>1, <3>2
    <3>3. CASE cur' # cur
      <4>1. \A k \in Key : \A s \in durable .. last : ~Gone(TreeOf[k], s) => Same(B, All(cur), k, s)
        BY <2>1, <2>9, <3>3, FlushSeen, SweepSeen, FinishSeen
      <4> QED
        BY <1>0, <3>1, <4>1, TruthSame
    <3> QED
      BY <3>2, <3>3
  <2>10. CASE CompStart
    <3>1. UNCHANGED <<last, durable, dead, hist>>
      BY <2>10 DEF CompStart
    <3>2. B = All(cur)
      BY <2>1, <2>10, StartSeen
    <3> QED
      BY <1>0, <2>2, <3>1, <3>2
  <2> QED
    BY <1>2, <2>4, <2>5, <2>6, <2>7, <2>8, <2>9, <2>10, CalmSteps DEF Next, Spilled, LogCommit
<1> QED
  BY <1>1, <1>2

---------------------------------------------------------------------------
(* The theorems.                                                           *)

\* An empty store is right.
LEMMA InitInv == Init => IInv
<1> SUFFICES ASSUME Init PROVE IInv
  OBVIOUS
<1>1. /\ cur = EmptyVersion /\ mems = [i \in MemIds |-> {}] /\ last = 0 /\ durable = 0
      /\ dead = [t \in Tree |-> 0] /\ sweep = FALSE /\ fl = None /\ comp = None
      /\ readers = {} /\ todo = <<>> /\ hist = {}
  BY DEF Init, MemIds
<1>2. MaxReaders \in Nat /\ MaxSeq \in Nat /\ 1 \in MemIds
  BY VersionsAssumption DEF MemIds
<1>3. /\ cur.mem = 1 /\ cur.imm = 0 /\ cur.l0 = <<>> /\ cur.deep = [l \in Deep |-> {}]
      /\ cur \in Version
  BY <1>1, <1>2 DEF EmptyVersion, Version
<1>4. Files(cur) = {}
  BY <1>3 DEF Files, ToSet
<1>5. Mem(cur.mem) = {} /\ Mem(cur.imm) = {}
  BY <1>1, <1>2, <1>3 DEF Mem
<1>6. Types
  <2>1. cur \in Version /\ mems \in [MemIds -> SUBSET Entry]
    BY <1>1, <1>3
  <2>2. last = 0 /\ durable = 0 /\ sweep \in BOOLEAN
    BY <1>1
  <2>3. last \in 0 .. MaxSeq /\ durable \in 0 .. last
    BY <1>2, <2>2
  <2>4. dead \in [Tree -> 0 .. last]
    BY <1>1
  <2>5. /\ fl # None => fl \in Flushing
        /\ comp # None => comp \in Merging
    BY <1>1
  <2>6. /\ readers \subseteq Reader /\ \A r \in readers : r.snap <= durable
        /\ todo \in Seq(Steps) /\ hist \subseteq Entry
    BY <1>1
  <2> QED
    BY <2>1, <2>2, <2>3, <2>4, <2>5, <2>6 DEF Types
<1>7. Slots
  BY <1>1, <1>2, FS_EmptySet DEF Slots
<1>8. Drains
  BY <1>1 DEF Drains
<1>9. Memory
  BY <1>1, <1>2, <1>3 DEF Memory
<1>10. History /\ FilesDurable
  BY <1>1, <1>4 DEF History, FilesDurable
<1>11. Inputs
  BY <1>1 DEF Inputs
<1>12. Layers(cur)
  BY <1>3, <1>4, <1>5 DEF Layers, Stack, Newer
<1>13. Truth
  <2>1. All(cur) = {}
    BY <1>4, <1>5 DEF All, Contents
  <2> QED
    BY <1>1, <2>1 DEF Truth, Same
<1> QED
  BY <1>1, <1>6, <1>7, <1>8, <1>9, <1>10, <1>11, <1>12, <1>13 DEF IInv

\* Every step keeps it.
LEMMA NextInv == IInv /\ [Next]_vars => IInv'
<1> SUFFICES ASSUME IInv, [Next]_vars PROVE IInv'
  OBVIOUS
<1>1. /\ Types /\ Slots /\ Drains /\ Memory /\ History /\ Inputs /\ FilesDurable
      /\ Layers(cur) /\ (\A r \in readers : Layers(r.v)) /\ Truth
  BY DEF IInv
<1>2. Types' /\ Slots'
  BY <1>1, TypesStep, SlotsStep
<1>3. Drains' /\ Memory'
  BY <1>1, DrainsStep, MemoryStep
<1>4. History' /\ FilesDurable' /\ Inputs'
  BY <1>1, HistoryStep, InputsStep
<1>5. Layers(cur)' /\ (\A r \in readers : Layers(r.v))'
  BY <1>1, LayersStep
<1>6. Truth'
  BY <1>1, TruthStep
<1> QED
  BY <1>2, <1>3, <1>4, <1>5, <1>6 DEF IInv

\* The invariant holds of every state the engine comes to.
LEMMA Invariant == Spec => []IInv
BY InitInv, NextInv, PTL DEF Spec

\* The versions the engine and its transactions hold are made of non-empty
\* files and of memtables there are; a memtable is frozen exactly while it is
\* flushed, and a compaction's inputs stay in the current version until it ends
\* (freeze, flush_install, comp_install, mem_unref).
THEOREM TypeCorrect == Spec => []TypeOK
BY Invariant, InvHolds, PTL

\* Every transaction reads, of every tree that exists at its snapshot, exactly
\* what the commits up to its snapshot left there, with a point lookup and with a
\* cursor, whatever is flushed, merged, moved, swept or lost in a crash meanwhile
\* (lookup, find_forward, flush_step_run, comp_step_run, sweep_dead).
THEOREM ReadsCorrect == Spec => []SnapshotReads
BY Invariant, InvHolds, PTL

\* Nothing in a file is newer than the last durable commit (freeze syncs the log
\* before the memtable is flushed; commit_runs is durable when it returns).
THEOREM FilesAreDurable == Spec => []FilesDurable
BY Invariant, InvHolds, PTL

\* A lookup may stop at the first source that has the key: the files of a level
\* below level 0 do not overlap, and of one key what a source has is newer than
\* what the sources after it have (lookup, l0_move_alone, comp_start).
THEOREM LevelsInOrder == Spec => []Layered
BY Invariant, InvHolds, PTL

=============================================================================
