------------------------------- MODULE Lease -------------------------------
(***************************************************************************)
(* The lease that keeps one owner per database on storage whose locks do  *)
(* not reach other machines (src/gsql/lease.c).                           *)
(*                                                                         *)
(* Each machine runs at most one opener or owner: the flock on DB.lock is *)
(* local to the machine.  All machines share one file, the lease sector,  *)
(* which they read and overwrite; a read or a write of the 512-byte       *)
(* sector is one step, and time passes between any two of them.  A        *)
(* machine measures time with its own clock only, so time is a timer per  *)
(* machine, moved by Tick.                                                *)
(*                                                                         *)
(* An owner's store sits on the fenced I/O layer: every write, truncate,  *)
(* rename, remove and create asks fence_check first.  StoreWrite stands   *)
(* for any of them, from the check (pc becomes "write") to the moment the *)
(* storage has it (WriteLands).                                           *)
(***************************************************************************)
EXTENDS Naturals, FiniteSets

CONSTANTS
    Machines,     \* the machines that share the storage
    None,         \* no machine
    Renew,        \* renew_ms: a confirmation older than this is renewed by the loop
    Trust,        \* trust_ms: a write needs a confirmation younger than this
    Dead,         \* dead_ms: a lease that stood still this long has no owner
    Settle,       \* settle_ms: the wait between claiming a lease and opening
    IoMax,        \* the longest time from reading the sector to the write or removal it decided
    TakeMax,      \* the longest time from the access that takes the lease to the clock reading that confirms it
    WriteMax,     \* the longest time from a fence check to the landing of the write it allowed
    Overlap,      \* whether an owner may close, or its machine tear the sector, while one it replaced still runs
    SettleCrash,  \* whether an opener may die between its claim and its settling read
    MaxOpens,     \* bound: opens of one machine
    MaxBoots,     \* bound: boots of one machine
    MaxCounter    \* bound: the counter in the sector

\* Timers saturate at Dead, the longest time the code compares with: a TakeMax
\* above Dead bounds nothing.
ASSUME LeaseAssumption ==
    /\ None \notin Machines
    /\ {Renew, Trust, Dead, Settle, IoMax, TakeMax, WriteMax} \subseteq Nat
    /\ {MaxOpens, MaxBoots, MaxCounter} \subseteq Nat
    /\ Trust > 0 /\ Renew <= Trust /\ MaxCounter > 0
    /\ Trust + WriteMax <= Dead /\ Settle <= Dead /\ IoMax <= Dead
    /\ SettleCrash \in BOOLEAN /\ Overlap \in BOOLEAN

VARIABLES
    sector,   \* DB.lease as the storage holds it
    pc,       \* where each machine's opener or owner is
    opens,    \* opens begun on each machine: with the boot, the token drawn by this open
    boot,     \* each machine's boot id
    ctr,      \* mine.counter of each machine's process
    seen,     \* the sector a watching opener compares with
    t,        \* time since the step the process is in began
    age,      \* now - confirmed, of an owner
    goal,     \* what a renewal was made for: the loop's "keep", or the "write" that waits for it
    lost,     \* history: time since the sector last held this owner's token
    taker     \* history: the machine whose process last took the lease

vars == <<sector, pc, opens, boot, ctr, seen, t, age, goal, lost, taker>>

---------------------------------------------------------------------------
(* The sector.  lease_read tells apart an absent file, one it cannot       *)
(* decode (created and not yet written, or torn) and a record.             *)

Blank(kind) == [kind |-> kind, by |-> None, boot |-> 0, n |-> 0, ctr |-> 0]

Absent == Blank("absent")
Empty  == Blank("empty")
Torn   == Blank("torn")

\* The record encode() builds for machine m's process: who, which boot, which
\* open (the random token), and the counter.
Mine(m) == [kind |-> "record", by |-> m, boot |-> boot[m], n |-> opens[m], ctr |-> ctr[m]]

\* ours(): the token is this process's.
Ours(m) == /\ sector.kind = "record"
           /\ sector.by = m /\ sector.boot = boot[m] /\ sector.n = opens[m]

\* same_boot(): the record s is of an earlier process of this machine and boot.
SameBoot(m, s) == s.kind = "record" /\ s.by = m /\ s.boot = boot[m]

\* The bytes lease_read hands back: an absent file and an empty one are both
\* all zeros.
Raw(s) == IF s = Absent THEN Empty ELSE s

---------------------------------------------------------------------------
(* States of a process.                                                    *)

Opening == {"create", "fill", "restart", "watch", "claim", "settle"}
Renewing == {"renew", "recreate", "refill"}
Owning == {"taken", "open", "write", "drop", "fenced"} \cup Renewing

States == {"off"} \cup Opening \cup Owning

Records == [kind : {"record"}, by : Machines, boot : 0 .. MaxBoots,
            n : 1 .. MaxOpens, ctr : 1 .. MaxCounter]

Sectors == {Absent, Empty, Torn} \cup Records

\* A process, and only a process, has a counter: memory goes with it.
Counted(m) == /\ pc[m] = "off" <=> ctr[m] = 0
              /\ pc[m] # "off" => opens[m] > 0

TypeOK ==
    /\ sector \in Sectors
    /\ pc \in [Machines -> States]
    /\ opens \in [Machines -> 0 .. MaxOpens]
    /\ boot \in [Machines -> 0 .. MaxBoots]
    /\ ctr \in [Machines -> 0 .. MaxCounter]
    /\ seen \in [Machines -> Sectors]
    /\ t \in [Machines -> 0 .. Dead]
    /\ age \in [Machines -> 0 .. Dead]
    /\ goal \in [Machines -> {"keep", "write"}]
    /\ lost \in [Machines -> 0 .. Dead]
    /\ taker \in Machines \cup {None}
    /\ \A m \in Machines : Counted(m)

Init ==
    /\ sector = Absent
    /\ pc = [m \in Machines |-> "off"]
    /\ opens = [m \in Machines |-> 0]
    /\ boot = [m \in Machines |-> 0]
    /\ ctr = [m \in Machines |-> 0]
    /\ seen = [m \in Machines |-> Absent]
    /\ t = [m \in Machines |-> 0]
    /\ age = [m \in Machines |-> 0]
    /\ goal = [m \in Machines |-> "keep"]
    /\ lost = [m \in Machines |-> 0]
    /\ taker = None

Goto(m, label) == pc' = [pc EXCEPT ![m] = label] /\ t' = [t EXCEPT ![m] = 0]

\* The process is gone: refused, closed or dead.
Leave(m) ==
    /\ Goto(m, "off")
    /\ ctr' = [ctr EXCEPT ![m] = 0]
    /\ seen' = [seen EXCEPT ![m] = Absent]
    /\ age' = [age EXCEPT ![m] = 0]
    /\ goal' = [goal EXCEPT ![m] = "keep"]
    /\ lost' = [lost EXCEPT ![m] = 0]

\* The access that takes the lease is made; the process goes to the label
\* "taken", where it reads the clock.
Taken(m) ==
    /\ Goto(m, "taken")
    /\ lost' = [lost EXCEPT ![m] = 0]
    /\ taker' = m

---------------------------------------------------------------------------
(* gs_lease_take.                                                          *)

\* Seeded fault: an opener that watches has no counter of its own.
FoundUncounted(m, s) ==
    \/ /\ SameBoot(m, s)
       /\ s.ctr < MaxCounter
       /\ Goto(m, "restart")
       /\ ctr' = [ctr EXCEPT ![m] = s.ctr + 1]
       /\ UNCHANGED seen
    \/ /\ ~SameBoot(m, s)
       /\ Goto(m, "watch")
       /\ seen' = [seen EXCEPT ![m] = Raw(s)]
       /\ UNCHANGED ctr

\* A lease that is there: step 2 overwrites a record of this machine and
\* boot, step 3 watches anything else.
Found(m, s) ==
    \/ /\ SameBoot(m, s)
       /\ s.ctr < MaxCounter
       /\ Goto(m, "restart")
       /\ ctr' = [ctr EXCEPT ![m] = s.ctr + 1]
       /\ UNCHANGED seen
    \/ /\ ~SameBoot(m, s)
       /\ Goto(m, "watch")
       /\ seen' = [seen EXCEPT ![m] = Raw(s)]
       /\ ctr' = [ctr EXCEPT ![m] = 1]

\* The first read, by a process that holds the machine's flock.
TakeRead(m) ==
    /\ pc[m] = "off" /\ opens[m] < MaxOpens
    /\ opens' = [opens EXCEPT ![m] = @ + 1]
    /\ \/ /\ sector = Absent
          /\ Goto(m, "create")
          /\ ctr' = [ctr EXCEPT ![m] = 1]
          /\ UNCHANGED seen
       \/ sector # Absent /\ Found(m, sector)
    /\ UNCHANGED <<sector, boot, age, goal, lost, taker>>

\* Step 1, the exclusive create: the file is there and empty, or somebody
\* made it first (EEXIST) and it is read again.
TakeCreate(m) ==
    /\ pc[m] = "create"
    /\ \/ /\ sector = Absent
          /\ sector' = Empty
          /\ Goto(m, "fill")
          /\ UNCHANGED <<ctr, seen>>
       \/ sector # Absent /\ Found(m, sector) /\ UNCHANGED sector
    /\ UNCHANGED <<opens, boot, age, goal, lost, taker>>

\* The write of step 1 or of step 2, and the lease is taken with no wait.
TakeWrite(m) ==
    /\ pc[m] \in {"fill", "restart"}
    /\ sector' = Mine(m)
    /\ Taken(m)
    /\ UNCHANGED <<opens, boot, ctr, seen, age, goal>>

\* What a watching opener reads differs from what it read first.
Moved(m) == sector = Absent \/ Raw(sector) # seen[m]

\* Step 3, a read every renew_ms / 4; one that finds movement refuses
\* (ELSEWHERE).
WatchRefuse(m) ==
    /\ pc[m] = "watch" /\ Moved(m)
    /\ Leave(m)
    /\ UNCHANGED <<sector, opens, boot, taker>>

\* Step 4, the read just before the write.
Reread(m) ==
    /\ pc[m] = "watch" /\ t[m] >= Dead /\ ~Moved(m)
    /\ seen[m].ctr < MaxCounter
    /\ Goto(m, "claim")
    /\ ctr' = [ctr EXCEPT ![m] = IF seen[m].kind = "record" THEN seen[m].ctr + 1 ELSE 1]
    /\ UNCHANGED <<sector, opens, boot, seen, age, goal, lost, taker>>

ClaimWrite(m) ==
    /\ pc[m] = "claim"
    /\ sector' = Mine(m)
    /\ Goto(m, "settle")
    /\ UNCHANGED <<opens, boot, ctr, seen, age, goal, lost, taker>>

\* Seeded fault: the settling ends without the read.
SettledUnread(m) ==
    /\ pc[m] = "settle" /\ t[m] >= Settle
    /\ Taken(m)
    /\ UNCHANGED <<sector, opens, boot, ctr, seen, age, goal>>

\* The read that ends the settling: ours, or another wrote after us.
Settled(m) ==
    /\ pc[m] = "settle" /\ t[m] >= Settle
    /\ \/ Ours(m) /\ Taken(m) /\ UNCHANGED <<ctr, seen, age, goal>>
       \/ ~Ours(m) /\ Leave(m) /\ UNCHANGED taker
    /\ UNCHANGED <<sector, opens, boot>>

\* The label "taken": confirmed = now, after the write's sync and the
\* directory's or after the settling read, and the store is opened.
Confirm(m) ==
    /\ pc[m] = "taken"
    /\ Goto(m, "open")
    /\ seen' = [seen EXCEPT ![m] = Absent]
    /\ age' = [age EXCEPT ![m] = 0]
    /\ UNCHANGED <<sector, opens, boot, ctr, goal, lost, taker>>

---------------------------------------------------------------------------
(* renew, gs_lease_keep and fence_check.                                   *)

\* Seeded fault: a renewal does not look at whose record it overwrites.
RenewBlind(m, why) ==
    /\ ctr[m] < MaxCounter
    /\ ctr' = [ctr EXCEPT ![m] = @ + 1]
    /\ goal' = [goal EXCEPT ![m] = why]
    /\ Goto(m, IF sector = Absent THEN "recreate" ELSE "renew")

\* renew's read.  A foreign token fences for good; an absent lease is created
\* anew; ours, or one that cannot be read, is overwritten.
RenewRead(m, why) ==
    \/ /\ sector.kind = "record" /\ ~Ours(m)
       /\ Goto(m, "fenced")
       /\ UNCHANGED <<ctr, goal>>
    \/ /\ sector.kind # "record" \/ Ours(m)
       /\ ctr[m] < MaxCounter
       /\ ctr' = [ctr EXCEPT ![m] = @ + 1]
       /\ goal' = [goal EXCEPT ![m] = why]
       /\ Goto(m, IF sector = Absent THEN "recreate" ELSE "renew")

\* A renewal made for the loop returns to it; one made by fence_check lets its
\* write go, whatever time the renewal took.
RenewDone(m) ==
    /\ Goto(m, IF goal[m] = "write" THEN "write" ELSE "open")
    /\ age' = [age EXCEPT ![m] = t[m]]

\* The loop: renews a confirmation of renew_ms or older, and one of any age
\* when the owner starts (force).
Keep(m) ==
    /\ pc[m] = "open"
    /\ \E force \in BOOLEAN : force \/ age[m] >= Renew
    /\ RenewRead(m, "keep")
    /\ UNCHANGED <<sector, opens, boot, seen, age, lost, taker>>

\* Seeded fault: the fence asks whether the owner was ever fenced, not how old
\* its confirmation is.
StoreWriteUnchecked(m) ==
    /\ pc[m] = "open"
    /\ Goto(m, "write")
    /\ UNCHANGED <<sector, opens, boot, ctr, goal, seen, age, lost, taker>>

\* Any operation of the fenced layer: fence_check trusts a young
\* confirmation and renews an old one first.
StoreWrite(m) ==
    /\ pc[m] = "open"
    /\ \/ age[m] < Trust /\ Goto(m, "write") /\ UNCHANGED <<ctr, goal>>
       \/ age[m] >= Trust /\ RenewRead(m, "write")
    /\ UNCHANGED <<sector, opens, boot, seen, age, lost, taker>>

WriteLands(m) ==
    /\ pc[m] = "write"
    /\ Goto(m, "open")
    /\ UNCHANGED <<sector, opens, boot, ctr, seen, age, goal, lost, taker>>

RenewWrite(m) ==
    /\ pc[m] \in {"renew", "refill"}
    /\ sector' = Mine(m)
    /\ RenewDone(m)
    /\ lost' = [lost EXCEPT ![m] = 0]
    /\ UNCHANGED <<opens, boot, ctr, seen, goal, taker>>

\* "removed under us: whoever creates it now holds it"
RenewCreate(m) ==
    /\ pc[m] = "recreate"
    /\ \/ /\ sector = Absent
          /\ sector' = Empty
          /\ Goto(m, "refill")
       \/ /\ sector # Absent
          /\ Goto(m, "fenced")
          /\ UNCHANGED sector
    /\ UNCHANGED <<opens, boot, ctr, seen, age, goal, lost, taker>>

\* The storage fails the renewal, its write on the disk or not: the
\* confirmation stays as old as it was, and the write that waited for it is
\* refused (EIO).
RenewFails(m) ==
    /\ pc[m] \in Renewing
    /\ Goto(m, "open")
    /\ \/ UNCHANGED <<sector, lost>>
       \/ /\ pc[m] \in {"renew", "refill"}
          /\ sector' = Mine(m)
          /\ lost' = [lost EXCEPT ![m] = 0]
    /\ UNCHANGED <<opens, boot, ctr, seen, age, goal, taker>>

---------------------------------------------------------------------------
(* gs_lease_close, and the ends that are not closes.                       *)

\* No other machine has a process that believes it is the owner.
Alone(m) == \A n \in Machines \ {m} : pc[n] \notin Owning

\* A clean close reads the lease and removes it only if it is ours.
Close(m) ==
    /\ pc[m] = "open" /\ (Overlap \/ Alone(m))
    /\ \/ Ours(m) /\ Goto(m, "drop") /\ UNCHANGED <<ctr, seen, age, goal, lost>>
       \/ ~Ours(m) /\ Leave(m)
    /\ UNCHANGED <<sector, opens, boot, taker>>

Drop(m) ==
    /\ pc[m] = "drop"
    /\ sector' = Absent
    /\ Leave(m)
    /\ UNCHANGED <<opens, boot, taker>>

\* A fenced owner leaves the lease alone.
FencedExit(m) ==
    /\ pc[m] = "fenced"
    /\ Leave(m)
    /\ UNCHANGED <<sector, opens, boot, taker>>

\* The process is killed; a write it had not made is not made.
Crash(m) ==
    /\ pc[m] # "off" /\ (pc[m] = "settle" => SettleCrash)
    /\ Leave(m)
    /\ UNCHANGED <<sector, opens, boot, taker>>

\* The machine goes down: a sector write under way may be torn, and the next
\* process has another boot id.
Reboot(m) ==
    /\ pc[m] # "settle" \/ SettleCrash
    /\ boot[m] < MaxBoots
    /\ boot' = [boot EXCEPT ![m] = @ + 1]
    /\ \/ UNCHANGED sector
       \/ /\ pc[m] \in {"fill", "refill", "restart", "claim", "renew"}
          /\ Overlap \/ Alone(m)
          /\ sector' = Torn
    /\ Leave(m)
    /\ UNCHANGED <<opens, taker>>

---------------------------------------------------------------------------
(* Time.  A step between a read of the sector and the write or removal it  *)
(* decided takes at most IoMax, a checked write at most WriteMax, and the  *)
(* confirmation of a lease just taken at most TakeMax; the claim after the *)
(* re-read, and an owner between two steps of its loop, are not bounded by *)
(* anything in the code.                                                   *)

InTime(m) ==
    /\ pc[m] \in {"fill", "restart", "drop"} \cup Renewing => t[m] < IoMax
    /\ pc[m] = "taken" => t[m] < TakeMax
    /\ pc[m] = "write" => t[m] < WriteMax

Later(timer) == IF timer < Dead THEN timer + 1 ELSE timer

Timed == {"watch", "settle", "taken", "write", "fill", "restart", "drop"} \cup Renewing

Tick ==
    /\ \A m \in Machines : InTime(m)
    /\ t' = [m \in Machines |-> IF pc[m] \in Timed THEN Later(t[m]) ELSE 0]
    /\ age' = [m \in Machines |-> IF pc[m] \in Owning \ {"taken"} THEN Later(age[m]) ELSE 0]
    /\ lost' = [m \in Machines |->
                  IF pc[m] \in Owning /\ ~Ours(m) THEN Later(lost[m]) ELSE 0]
    /\ UNCHANGED <<sector, pc, opens, boot, ctr, seen, goal, taker>>

TakeStep(m) == \/ TakeCreate(m) \/ TakeWrite(m) \/ WatchRefuse(m)
               \/ Reread(m) \/ ClaimWrite(m) \/ Settled(m) \/ Confirm(m)

OwnerStep(m) == \/ Keep(m) \/ StoreWrite(m) \/ WriteLands(m)
                \/ RenewWrite(m) \/ RenewCreate(m) \/ RenewFails(m)

EndStep(m) == \/ Close(m) \/ Drop(m) \/ FencedExit(m) \/ Crash(m) \/ Reboot(m)

Next == \/ Tick
        \/ \E m \in Machines : TakeRead(m) \/ TakeStep(m) \/ OwnerStep(m) \/ EndStep(m)

Spec == Init /\ [][Next]_vars

---------------------------------------------------------------------------
(* Properties.                                                             *)

\* An owner writes the store only near a moment at which the lease was its
\* own: however it stalled, whoever claimed or removed the lease, a write it
\* has in flight ends within trust_ms, plus the time of one write, plus the time
\* gs_lease_take may lose before it reads the clock, of the sector holding its
\* token (fence_check and the label "taken", lease.c).
StaleWindow ==
    \A m \in Machines : pc[m] = "write" => lost[m] < TakeMax + Trust + WriteMax

\* An owner that has a write in flight, or may start one without asking the lease.
Armed(m) == \/ pc[m] = "write"
            \/ pc[m] = "open" /\ age[m] < Trust

\* The purpose of the lease: never do owners on two machines both have a write
\* on its way, or one of them a write and the other the right to start one
\* unchecked.
OneWriter ==
    \A m, n \in Machines : m # n /\ pc[m] = "write" => ~Armed(n)

\* An owner that another machine's owner has replaced never writes again: its
\* memtable and its file numbers are those of before the takeover.
TakenNeverWrites ==
    \A m \in Machines : pc[m] = "write" => taker = m
=============================================================================
