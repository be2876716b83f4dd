-------------------------------- MODULE Disk --------------------------------
(***************************************************************************)
(* The storage under the database: the durability contract of             *)
(* include/gsql_io.h as the simulated layer (src/gsql/io_sim.c) enforces  *)
(* it.                                                                     *)
(*                                                                         *)
(* A disk is a value, and an I/O operation a function from disks to disks:*)
(*   names   what the running system sees under each name, an inode       *)
(*   maybe   the same on the platter, for each subsequence of the          *)
(*           creations, renames and removals since the last sync_dir that  *)
(*           a power loss may leave                                        *)
(*   view    the content of each inode, as reads see it (the page cache)  *)
(*   dur     the content on the platter                                   *)
(*   dirty   the writes not yet synced, each an <<inode, slot, value>>    *)
(* A file is a few slots, each as large as one record of it: a log record *)
(* or the whole of a sorted file or manifest.  A slot that was never      *)
(* written, and one whose write was torn, reads as Zero: neither passes a *)
(* checksum.                                                               *)
(***************************************************************************)
EXTENDS Naturals, FiniteSets, SequencesExt

CONSTANTS
    Zero,      \* the content of a slot that holds no valid record
    MaxSlot,   \* bound: slots of a file
    MaxInode   \* bound: inodes in use at a time

Slots  == 1 .. MaxSlot
Inodes == 1 .. MaxInode

Blank == [s \in Slots |-> Zero]

\* A new disk: nothing has a name.
NoNames == [n \in {} |-> 0]

EmptyDisk ==
    [names |-> NoNames, maybe |-> {NoNames},
     view |-> [i \in Inodes |-> Blank], dur |-> [i \in Inodes |-> Blank], dirty |-> {}]

Exists(d, name) == name \in DOMAIN d.names

\* What a read of the file sees in a slot.
Read(d, name, s) == d.view[d.names[name]][s]

\* The inodes some name, now or on the platter, may still lead to.
Reachable(d) == UNION {Range(names) : names \in d.maybe}

\* Whether a file can be made within the bound.
Room(d) == Inodes \ Reachable(d) # {}

\* An inode that no name leads to has lost its content.
Reclaim(d) ==
    LET live == Reachable(d)
    IN [d EXCEPT !.view = [i \in Inodes |-> IF i \in live THEN @[i] ELSE Blank],
                 !.dur  = [i \in Inodes |-> IF i \in live THEN @[i] ELSE Blank],
                 !.dirty = {w \in @ : w[1] \in live}]

---------------------------------------------------------------------------
(* The namespace.                                                          *)

Without(names, gone) == [n \in DOMAIN names \ gone |-> names[n]]

Bind(names, name, inode) ==
    [n \in DOMAIN names \cup {name} |-> IF n = name THEN inode ELSE names[n]]

\* One namespace operation reaching a set of names: a creation that finds the
\* name taken, and a rename that finds no source, do nothing.
Created(names, name, inode) ==
    IF name \in DOMAIN names THEN names ELSE Bind(names, name, inode)

Renamed(names, from, to) ==
    IF from \in DOMAIN names THEN Bind(Without(names, {from}), to, names[from]) ELSE names

\* open with CREATE
Create(d, name) ==
    LET i == Min(Inodes \ Reachable(d))
    IN IF Exists(d, name) THEN d
       ELSE [d EXCEPT !.names = Created(@, name, i),
                      !.maybe = @ \cup {Created(names, name, i) : names \in @}]

Rename(d, from, to) ==
    IF ~Exists(d, from) THEN d
    ELSE [d EXCEPT !.names = Renamed(@, from, to),
                   !.maybe = @ \cup {Renamed(names, from, to) : names \in @}]

\* The removal of every name of S that there is.
UnlinkAll(d, S) ==
    [d EXCEPT !.names = Without(@, S),
              !.maybe = {Without(names, gone) : names \in @, gone \in SUBSET (S \cap DOMAIN d.names)}]

Unlink(d, name) == UnlinkAll(d, {name})

\* What is pending is applied in order: the platter has the names the system sees.
SyncDir(d) == Reclaim([d EXCEPT !.maybe = {d.names}])

---------------------------------------------------------------------------
(* The content.                                                            *)

Write(d, name, s, v) ==
    LET i == d.names[name]
    IN [d EXCEPT !.view[i][s] = v, !.dirty = @ \cup {<<i, s, v>>}]

\* The platter's content after the writes W reached it, those of T torn.
Landed(d, W, T) ==
    [i \in Inodes |-> [s \in Slots |->
        IF \E w \in W : w[1] = i /\ w[2] = s
        THEN LET w == CHOOSE w \in W : w[1] = i /\ w[2] = s IN IF w \in T THEN Zero ELSE w[3]
        ELSE d.dur[i][s]]]

\* Two writes of one slot do not both decide what it holds.
Single(W) == \A v, w \in W : v[1] = w[1] /\ v[2] = w[2] => v = w

Of(d, name) == {w \in d.dirty : w[1] = d.names[name]}

\* Every write of the file since its last sync is on the platter.
Sync(d, name) ==
    [d EXCEPT !.dirty = @ \ Of(d, name), !.dur[d.names[name]] = d.view[d.names[name]]]

\* A failed sync: any of the writes reached the platter, none of them is
\* retried, and the page cache keeps them all.
FailedSync(d, name) ==
    {[d EXCEPT !.dur = Landed(d, W, {}), !.dirty = @ \ Of(d, name)]
        : W \in {X \in SUBSET Of(d, name) : Single(X)}}

\* What a power loss may leave of the content: any subset of the unsynced
\* writes, some of them torn.
Landings(d) ==
    UNION {{Landed(d, W, T) : T \in SUBSET W} : W \in {X \in SUBSET d.dirty : Single(X)}}

\* A power loss: that, and any subsequence of the namespace operations,
\* survive; the page cache does not.
PowerLoss(d) ==
    {Reclaim([names |-> names, maybe |-> {names}, view |-> dur, dur |-> dur, dirty |-> {}])
        : dur \in Landings(d), names \in d.maybe}
=============================================================================
