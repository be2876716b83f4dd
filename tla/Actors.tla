------------------------------- MODULE Actors -------------------------------
(***************************************************************************)
(* The actors of the interpreter (src/src/eval.c 16465-18060 over the      *)
(* POSIX half of src/src/actor.c): processes with one mailbox each, spawn, *)
(* send, the four forms of receive over one retain queue, monitors and     *)
(* their down messages, death reasons, the actor process group, and the    *)
(* teardown of the children at exit.                                       *)
(*                                                                         *)
(* What a process keeps in memory is one record, interp[p], and goes with  *)
(* the process; what the kernel keeps about it is in the other variables.  *)
(* A send or a spawn that raises (a full mailbox, a target that is gone, a *)
(* failed fork) changes nothing and is a stutter; a receive that raises    *)
(* may have taken its frame (ReceiveFails).  The program may end with an   *)
(* error at any of its own steps, which covers an unhandled raise.         *)
(***************************************************************************)
EXTENDS Naturals, FiniteSets, SequencesExt, Lists

CONSTANTS
    Proc,        \* the processes that may exist
    Root,        \* the interpreter the user started
    Tags,        \* the tags of ordinary messages
    None,        \* no process, no handle, no tag
    BoxMax,      \* the frames a socket buffer holds
    MaxSends,    \* bound: messages sent, in all
    MaxRefs,     \* bound: monitors a process makes
    MaxKills,    \* bound: processes killed from outside
    MaxGiven,    \* bound: handles among the arguments of a spawn
    Outcomes,    \* how programs end by themselves
    Timed        \* whether programs use receive with a timeout

ASSUME RootAssumption == Root \in Proc /\ None \notin Proc
ASSUME TagsAssumption == "down" \notin Tags /\ None \notin Tags
ASSUME BoundsAssumption ==
    /\ BoxMax \in Nat \ {0} /\ MaxSends \in Nat
    /\ MaxRefs \in Nat /\ MaxKills \in Nat /\ MaxGiven \in Nat
    /\ Outcomes \subseteq {"normal", "error"} /\ Timed \in BOOLEAN

VARIABLES
    stage,    \* what the kernel knows of each process
    status,   \* how it ended: its wait status
    parent,   \* its OS parent
    group,    \* its process group, named by its leader
    ready,    \* it wrote 'R' on its control pipe
    box,      \* the frames in its mailbox
    arrived,  \* how many frames ever entered its mailbox
    interp,   \* the memory of its interpreter
    sends, kills    \* what was used of the bounds

vars == <<stage, status, parent, group, ready, box, arrived, interp, sends, kills>>

Stages == {"unborn", "booting", "running", "exiting", "zombie", "reaped"}
Reasons == {"normal", "error", "killed"}

\* An actor handle: the mailbox it writes to, and whether it is the very
\* handle that spawn returned, whose id the child's record is bound to.
Handle == [to : Proc, own : BOOLEAN]

Frame == [tag : Tags, n : Nat, carry : Handle \union {None}]
Down  == [tag : {"down"}, ref : Nat, to : Proc, own : BOOLEAN,
          reason : Reasons \union {"down", "noproc"}]

Alive(p) == stage[p] \in {"booting", "running"}

\* The read end of p's mailbox is closed: channel_handle_hung_up.
HungUp(p) == stage[p] \in {"exiting", "zombie", "reaped"}

\* The interpreter's memory before its program has done anything.
Fresh ==
    [pc |-> "idle", tag |-> None, child |-> None, exit |-> "normal",
     retain |-> <<>>, mons |-> <<>>, nref |-> 0, kids |-> <<>>, pgid |-> None,
     handles |-> {}, got |-> {}, bad |-> {}, seen |-> {}, off |-> {}]

Init ==
    /\ stage   = [p \in Proc |-> IF p = Root THEN "running" ELSE "unborn"]
    /\ status  = [p \in Proc |-> "none"]
    /\ parent  = [p \in Proc |-> None]
    /\ group   = [p \in Proc |-> IF p = Root THEN Root ELSE None]
    /\ ready   = [p \in Proc |-> p = Root]
    /\ box     = [p \in Proc |-> <<>>]
    /\ arrived = [p \in Proc |-> 0]
    /\ interp  = [p \in Proc |-> Fresh]
    /\ sends = 0 /\ kills = 0

-----------------------------------------------------------------------------
(* Ends, and what the kernel does about them.                              *)

\* Every process of S ends: its descriptors close, its memory goes. It is
\* not reapable yet.
Ends(S, how) ==
    /\ stage'  = [p \in Proc |-> IF p \in S THEN "exiting" ELSE stage[p]]
    /\ status' = [p \in Proc |-> IF p \in S THEN how ELSE status[p]]
    /\ box'    = [p \in Proc |-> IF p \in S THEN <<>> ELSE box[p]]

Forgotten(S, mem) == [p \in Proc |-> IF p \in S THEN Fresh ELSE mem[p]]

\* The exit completes: the process is a zombie until its parent waits.
Zombie(p) ==
    /\ stage[p] = "exiting"
    /\ stage' = [stage EXCEPT ![p] = "zombie"]
    /\ UNCHANGED <<status, parent, group, ready, box, arrived, interp, sends, kills>>

\* A signal from outside ends a process.
Kill(p) ==
    /\ Alive(p) /\ kills < MaxKills
    /\ kills' = kills + 1
    /\ Ends({p}, "killed")
    /\ interp' = Forgotten({p}, interp)
    /\ UNCHANGED <<parent, group, ready, arrived, sends>>

\* PR_SET_PDEATHSIG: a child does not outlive its parent for long.
ParentDied(p) ==
    /\ Alive(p) /\ parent[p] # None /\ HungUp(parent[p])
    /\ Ends({p}, "killed")
    /\ interp' = Forgotten({p}, interp)
    /\ UNCHANGED <<parent, group, ready, arrived, sends, kills>>

-----------------------------------------------------------------------------
(* spawn.                                                                  *)

\* A process group exists while it has a member, a zombie included.
GroupExists(g) == \E p \in Proc : group[p] = g /\ stage[p] \notin {"unborn", "reaped"}

\* What setpgid(0, actor_group_pgid) leaves the child in: it leads a group
\* of its own, joins the recorded one, or stays where its parent is because
\* the recorded group is gone. The result of setpgid is not looked at.
JoinedGroup(p, c) ==
    IF interp[p].pgid = None THEN c
    ELSE IF GroupExists(interp[p].pgid) THEN interp[p].pgid ELSE group[p]

\* eval_spawn up to the blocking read of the control pipe. The startup
\* frame, with the handles it carries, is in the child's mailbox before the
\* child exists; it is read before the entry function runs (Boot).
Spawn(p, c, given) ==
    /\ stage[p] = "running" /\ interp[p].pc = "idle"
    /\ stage[c] = "unborn"
    /\ stage'  = [stage EXCEPT ![c] = "booting"]
    /\ parent' = [parent EXCEPT ![c] = p]
    /\ group'  = [group EXCEPT ![c] = JoinedGroup(p, c)]
    /\ interp' = [interp EXCEPT
           ![p].pc = "spawn", ![p].child = c,
           ![p].pgid = IF @ = None THEN c ELSE @,
           ![p].kids = Append(@, [pid |-> c, bound |-> FALSE, reaped |-> FALSE]),
           ![c].handles = {[to |-> h.to, own |-> FALSE] : h \in given}]
    /\ UNCHANGED <<status, ready, box, arrived, sends, kills>>

\* eval_run_actor: the declarations load, 'R' goes down the control pipe,
\* and the startup frame becomes the entry function's arguments.
Boot(c) ==
    /\ stage[c] = "booting"
    /\ stage' = [stage EXCEPT ![c] = "running"]
    /\ ready' = [ready EXCEPT ![c] = TRUE]
    /\ UNCHANGED <<status, parent, group, box, arrived, interp, sends, kills>>

\* exec fails, or the child cannot load what the program declares.
BootFailed(c) ==
    /\ stage[c] = "booting"
    /\ Ends({c}, "error")
    /\ interp' = Forgotten({c}, interp)
    /\ UNCHANGED <<parent, group, ready, arrived, sends, kills>>

\* Seeded fault: the record is not bound.
Unbound(kids) == kids

\* The record of p's last child is bound to the handle spawn answers with.
BoundKids(kids) == [kids EXCEPT ![Len(kids)].bound = TRUE]

\* Seeded fault: the parent holds the writing end, too.
NeverClosed(c) == FALSE

\* The control pipe is at its end: only the child held the writing end.
PipeClosed(c) == HungUp(c)

\* The read of the control pipe returns: 'R', or its end.
SpawnReturns(p) ==
    LET c == interp[p].child IN
    /\ stage[p] = "running" /\ interp[p].pc = "spawn"
    /\ \/ /\ ready[c]
          /\ interp' = [interp EXCEPT
                 ![p].pc = "idle", ![p].child = None,
                 ![p].kids = BoundKids(@),
                 ![p].handles = @ \union {[to |-> c, own |-> TRUE]}]
       \/ /\ ~ready[c] /\ PipeClosed(c)
          /\ interp' = [interp EXCEPT ![p].pc = "idle", ![p].child = None]
    /\ UNCHANGED <<stage, status, parent, group, ready, box, arrived, sends, kills>>

-----------------------------------------------------------------------------
(* send.                                                                   *)

\* One frame into the target's mailbox. A carried handle arrives as another
\* handle to the same mailbox.
Send(p, h, tag, carry) ==
    /\ stage[p] = "running" /\ interp[p].pc = "idle"
    /\ sends < MaxSends /\ sends' = sends + 1
    /\ h \in interp[p].handles \union {[to |-> p, own |-> FALSE]}
    /\ carry \in interp[p].handles \union {None}
    /\ ~HungUp(h.to) /\ Len(box[h.to]) < BoxMax
    /\ arrived' = [arrived EXCEPT ![h.to] = @ + 1]
    /\ box' = [box EXCEPT ![h.to] = Append(@, [
           tag |-> tag, n |-> arrived[h.to] + 1,
           carry |-> IF carry = None THEN None ELSE [to |-> carry.to, own |-> FALSE]])]
    /\ UNCHANGED <<stage, status, parent, group, ready, interp, kills>>

-----------------------------------------------------------------------------
(* Children, monitors and down messages.                                   *)

\* actor_reap_children: the zombies among p's children are collected.
Reapable(kids) ==
    {kids[i].pid : i \in {j \in DOMAIN kids : ~kids[j].reaped /\ stage[kids[j].pid] = "zombie"}}

Reaped(kids, S) == [i \in DOMAIN kids |->
    IF kids[i].pid \in S THEN [kids[i] EXCEPT !.reaped = TRUE] ELSE kids[i]]

ReapedStage(S) == [p \in Proc |-> IF p \in S THEN "reaped" ELSE stage[p]]

\* monitor_reason: the wait status, when the handle's id is bound to a child.
MonitorReason(kids, m, fallback) ==
    IF m.own /\ \E i \in DOMAIN kids : kids[i].pid = m.to /\ kids[i].bound
    THEN status[m.to] ELSE fallback

DownOf(kids, m, fallback) ==
    [tag |-> "down", ref |-> m.ref, to |-> m.to, own |-> m.own,
     reason |-> MonitorReason(kids, m, fallback)]

\* actor_child_wait_status waits for the zombie of a child that hung up.
Waitable(m) == HungUp(m.to) /\ (m.own => stage[m.to] # "exiting")

\* monitor(handle): at the head of the list, and an immediate down when the
\* target is gone already.
MonitorCall(p, h) ==
    LET me  == interp[p]
        m   == [ref |-> me.nref + 1, to |-> h.to, own |-> h.own]
        dead == Reapable(me.kids)
    IN
    /\ stage[p] = "running" /\ me.pc = "idle" /\ me.nref < MaxRefs
    /\ h \in me.handles
    /\ HungUp(h.to) => Waitable(m)
    /\ stage' = ReapedStage(dead)
    /\ interp' = [interp EXCEPT
           ![p].nref = @ + 1,
           ![p].kids = Reaped(@, dead),
           ![p].mons = IF HungUp(h.to) THEN @ ELSE <<m>> \o @,
           ![p].retain = IF HungUp(h.to) THEN Append(@, DownOf(me.kids, m, "noproc")) ELSE @]
    /\ UNCHANGED <<status, parent, group, ready, box, arrived, sends, kills>>

\* demonitor(ref): a down that is queued already still arrives.
Demonitor(p, ref) ==
    LET me == interp[p] IN
    /\ stage[p] = "running" /\ me.pc = "idle"
    /\ \E i \in DOMAIN me.mons : me.mons[i].ref = ref
    /\ interp' = [interp EXCEPT
           ![p].mons = Dropped(@, {m \in ToSet(@) : m.ref = ref}),
           ![p].off = @ \union {ref}]
    /\ UNCHANGED <<stage, status, parent, group, ready, box, arrived, sends, kills>>

\* Seeded fault: a monitor that fired stays armed.
RetireNone(mons) == mons

\* The monitors that stay after actor_collect_downs: one down per reference.
Kept(mons) == Dropped(mons, {m \in ToSet(mons) : HungUp(m.to)})

\* The retain queue after actor_collect_downs: a down for each monitor whose
\* target hung up, in the order of the list.
Collected(me) ==
    LET hung == Dropped(me.mons, {m \in ToSet(me.mons) : ~HungUp(m.to)})
    IN  me.retain \o [i \in DOMAIN hung |-> DownOf(me.kids, hung[i], "down")]

-----------------------------------------------------------------------------
(* receive.                                                                *)

Matches(m, tag) == tag = None \/ m.tag = tag

\* Seeded fault: a frame without a handle is adopted like one with a handle.
AdoptedBlindly(handles, carry) == handles \union {carry}

\* What decoding a frame leaves in the program's hands: the handle it carried.
Adopt(handles, carry) == handles \union ({carry} \ {None})

\* The program has the message: a frame's handle is now one of its own.
Delivered(me, m) ==
    LET back == [me EXCEPT !.pc = "idle", !.tag = None] IN
    IF m.tag = "down"
    THEN [back EXCEPT !.seen = @ \union {m.ref}]
    ELSE [back EXCEPT !.got = @ \union {m.n}, !.handles = Adopt(@, m.carry)]

\* The oldest retained message that matches, out of the queue.
RetainTake(me) ==
    LET hits == {i \in DOMAIN me.retain : Matches(me.retain[i], me.tag)}
        i    == CHOOSE j \in hits : \A k \in hits : j <= k
    IN  Delivered([me EXCEPT !.retain = RemoveAt(@, i)], me.retain[i])

HasRetained(me) == \E i \in DOMAIN me.retain : Matches(me.retain[i], me.tag)

\* The top of actor_receive_impl's loop, from memory me: children are reaped,
\* deaths become down messages, and the retain queue is offered to this
\* receive, which returns or goes to wait. It blocks while a monitored child
\* that hung up is no zombie yet.
Collect(p, me) ==
    LET dead == Reapable(me.kids)
        now  == [me EXCEPT !.kids = Reaped(@, dead), !.retain = Collected(me), !.mons = Kept(@)]
    IN
    /\ \A i \in DOMAIN me.mons : HungUp(me.mons[i].to) => Waitable(me.mons[i])
    /\ stage' = ReapedStage(dead)
    /\ interp' = [interp EXCEPT ![p] =
           IF HasRetained(now) THEN RetainTake(now) ELSE [now EXCEPT !.pc = "wait"]]

\* receive and receive(tag), with a duration or without: whether this call
\* has a deadline shows when it passes (Timeout).
Receive(p, tag) ==
    /\ stage[p] = "running" /\ interp[p].pc = "idle"
    /\ Collect(p, [interp[p] EXCEPT !.tag = tag])
    /\ UNCHANGED <<status, parent, group, ready, box, arrived, sends, kills>>

\* Seeded fault: a held frame goes to the head of the queue.
RetainPush(me, m) == [me EXCEPT !.retain = <<m>> \o @]

\* Seeded fault: a frame that is not wanted is dropped.
DropMismatch(me, m) == me

\* retain_append: a frame that the receive does not want is held for a later one.
Held(me, m) == [me EXCEPT !.retain = Append(@, m)]

\* actor_wait says the inbox is readable: one frame is read.
TakeFrame(p) ==
    LET me == interp[p]
        m  == Head(box[p])
    IN
    /\ stage[p] = "running" /\ me.pc = "wait" /\ box[p] # <<>>
    /\ box' = [box EXCEPT ![p] = Tail(@)]
    /\ \/ /\ Matches(m, me.tag)
          /\ interp' = [interp EXCEPT ![p] = Delivered(me, m)]
          /\ UNCHANGED stage
       \/ /\ ~Matches(m, me.tag)
          /\ Collect(p, Held(me, m))
    /\ UNCHANGED <<status, parent, group, ready, arrived, sends, kills>>

\* A receive that waits raises.  Either nothing was read (the poll, the peek or
\* the read failed), or the frame was read and could not be decoded: the
\* descriptors of its handles were cut short, a name or a pattern in it does not
\* resolve.  That frame is gone, with what it carried.
ReceiveFails(p) ==
    /\ stage[p] = "running" /\ interp[p].pc = "wait"
    /\ \/ /\ interp' = [interp EXCEPT ![p].pc = "idle", ![p].tag = None]
          /\ UNCHANGED box
       \/ /\ box[p] # <<>>
          /\ box' = [box EXCEPT ![p] = Tail(@)]
          /\ interp' = [interp EXCEPT ![p].pc = "idle", ![p].tag = None,
                                      ![p].bad = @ \union {Head(box[p]).n}]
    /\ UNCHANGED <<stage, status, parent, group, ready, arrived, sends, kills>>

MonitorHung(p) == \E i \in DOMAIN interp[p].mons : HungUp(interp[p].mons[i].to)

\* Seeded fault: the poll is over the mailbox alone.
NeverHung(p) == FALSE

\* The poll over the monitored handles wakes a receiver as a message does.
DeathWakes(p) == MonitorHung(p)

WakeDown(p) ==
    /\ stage[p] = "running" /\ interp[p].pc = "wait"
    /\ box[p] = <<>> /\ DeathWakes(p)
    /\ Collect(p, interp[p])
    /\ UNCHANGED <<status, parent, group, ready, box, arrived, sends, kills>>

\* The deadline passes with nothing readable: receive answers nothing.
Timeout(p) ==
    /\ stage[p] = "running" /\ interp[p].pc = "wait" /\ Timed
    /\ box[p] = <<>> /\ ~MonitorHung(p)
    /\ interp' = [interp EXCEPT ![p].pc = "idle", ![p].tag = None]
    /\ UNCHANGED <<stage, status, parent, group, ready, box, arrived, sends, kills>>

-----------------------------------------------------------------------------
(* The end of a program: actor_cleanup_children, then the exit.            *)

\* The actor group gets SIGTERM.
Finish(p, how) ==
    LET hit == {q \in Proc : Alive(q) /\ interp[p].pgid # None /\ group[q] = interp[p].pgid}
    IN
    /\ stage[p] = "running" /\ interp[p].pc = "idle"
    /\ Ends(hit, "killed")
    /\ interp' = [Forgotten(hit, interp) EXCEPT ![p].pc = "cleanup", ![p].exit = how]
    /\ UNCHANGED <<parent, group, ready, arrived, sends, kills>>

\* Every child that was not collected before is waited for.
CleanupDone(p) ==
    LET kids == interp[p].kids
        left == {kids[i].pid : i \in {j \in DOMAIN kids : ~kids[j].reaped}}
    IN
    /\ stage[p] = "running" /\ interp[p].pc = "cleanup"
    /\ \A c \in left : stage[c] = "zombie"
    /\ stage'  = [ReapedStage(left) EXCEPT ![p] = "exiting"]
    /\ status' = [status EXCEPT ![p] = interp[p].exit]
    /\ box'    = [box EXCEPT ![p] = <<>>]
    /\ interp' = Forgotten({p}, interp)
    /\ UNCHANGED <<parent, group, ready, arrived, sends, kills>>

-----------------------------------------------------------------------------
Program(p) ==
    \/ \E c \in Proc, given \in SUBSET (interp[p].handles \union {[to |-> p, own |-> FALSE]}) :
           Cardinality(given) <= MaxGiven /\ Spawn(p, c, given)
    \/ \E h \in interp[p].handles \union {[to |-> p, own |-> FALSE]}, tag \in Tags :
           \E carry \in interp[p].handles \union {None} : Send(p, h, tag, carry)
    \/ \E h \in interp[p].handles : MonitorCall(p, h)
    \/ \E ref \in 1..MaxRefs : Demonitor(p, ref)
    \/ \E tag \in Tags \union {"down", None} : Receive(p, tag)
    \/ \E how \in Outcomes : Finish(p, how)

\* The steps that do not wait for the program's next statement.
Progress(p) ==
    \/ Boot(p) \/ SpawnReturns(p)
    \/ TakeFrame(p) \/ WakeDown(p)
    \/ CleanupDone(p) \/ Zombie(p) \/ ParentDied(p)

Next == \E p \in Proc : \/ Program(p) \/ Progress(p) \/ Timeout(p)
                        \/ ReceiveFails(p) \/ BootFailed(p) \/ Kill(p)

\* Each process is scheduled, and the kernel finishes what it began.
Spec == Init /\ [][Next]_vars /\ \A p \in Proc : WF_vars(Progress(p))

-----------------------------------------------------------------------------
(* Properties.                                                             *)

Memory ==
    [pc : {"idle", "spawn", "wait", "cleanup"},
     tag : Tags \union {"down", None}, child : Proc \union {None},
     exit : {"normal", "error"},
     retain : Seq(Frame \union Down),
     mons : Seq([ref : Nat, to : Proc, own : BOOLEAN]), nref : 0..MaxRefs,
     kids : Seq([pid : Proc, bound : BOOLEAN, reaped : BOOLEAN]),
     pgid : Proc \union {None}, handles : SUBSET Handle,
     got : SUBSET Nat, bad : SUBSET Nat, seen : SUBSET Nat, off : SUBSET Nat]

\* Every variable has its type.
TypeOK ==
    /\ stage \in [Proc -> Stages]
    /\ status \in [Proc -> Reasons \union {"none"}]
    /\ parent \in [Proc -> Proc \union {None}]
    /\ group \in [Proc -> Proc \union {None}]
    /\ ready \in [Proc -> BOOLEAN]
    /\ box \in [Proc -> Seq(Frame)]
    /\ arrived \in [Proc -> Nat]
    /\ interp \in [Proc -> Memory]
    /\ sends \in 0..MaxSends /\ kills \in 0..MaxKills

Retained(p) == {m.n : m \in {m \in ToSet(interp[p].retain) : m.tag # "down"}}
Boxed(p)    == {m.n : m \in ToSet(box[p])}

\* No message is lost in silence, none is delivered twice: every frame that
\* entered a live actor's mailbox was returned by a receive, made the receive
\* that took it raise, is retained, or is still in the socket, and is in exactly
\* one of these places and there once, however plain, tagged, timed and failed
\* receives, deaths and retained mismatches interleave.
ExactlyOnce ==
    \A p \in Proc : stage[p] = "running" =>
        LET me == interp[p] IN
        /\ me.got \union me.bad \union Retained(p) \union Boxed(p) = 1..arrived[p]
        /\ me.got \intersect me.bad = {}
        /\ (me.got \union me.bad) \intersect Retained(p) = {}
        /\ (me.got \union me.bad \union Retained(p)) \intersect Boxed(p) = {}
        /\ \A i, j \in DOMAIN box[p] : box[p][i].n = box[p][j].n => i = j
        /\ \A i, j \in DOMAIN me.retain :
              me.retain[i].tag # "down" /\ me.retain[j].tag # "down"
                /\ me.retain[i].n = me.retain[j].n => i = j

\* A receive that returns a frame returns the one that arrived first among
\* those it may return, over the retain queue and the socket together:
\* receive() the oldest of all, receive(tag) the oldest with its tag.
OldestFirst == [][
    \A p \in Proc : \A n \in interp'[p].got \ interp[p].got : \A tag \in Tags \union {None} :
        \/ interp[p].pc = "wait" /\ interp[p].tag = tag
        \/ interp[p].pc = "idle" /\ Receive(p, tag)
        => \A k \in {m \in ToSet(interp[p].retain) \union ToSet(box[p]) :
                         m.tag # "down" /\ Matches(m, tag)} : n <= k.n]_vars

\* A reference is in one place, and there once: its monitor is armed, or one
\* down for it is queued, or that down was received, or demonitor cancelled it.
\* So a monitored death is told once and never forgotten.
OneDown ==
    \A p \in Proc : stage[p] = "running" =>
        \A ref \in 1..interp[p].nref :
            LET me     == interp[p]
                Armed  == {i \in DOMAIN me.mons : me.mons[i].ref = ref}
                Queued == {i \in DOMAIN me.retain :
                              me.retain[i].tag = "down" /\ me.retain[i].ref = ref}
            IN  /\ \A i, j \in Armed : i = j
                /\ \A i, j \in Queued : i = j
                /\ \E place \in {"armed", "queued", "seen", "off"} :
                      /\ Armed # {}       <=> place = "armed"
                      /\ Queued # {}      <=> place = "queued"
                      /\ ref \in me.seen  <=> place = "seen"
                      /\ ref \in me.off   <=> place = "off"

\* The reason in a down message is true: a spawner that monitors the handle
\* spawn gave it hears how its child ended, anyone else hears only that the
\* actor is gone, and nobody hears of the death of a live actor.
ReasonTrue ==
    \A p \in Proc : \A m \in ToSet(interp[p].retain) : m.tag = "down" =>
        /\ HungUp(m.to)
        /\ m.reason = status[m.to] <=> m.own
        /\ ~m.own => m.reason \in {"down", "noproc"}

\* An actor that waits for any message, or for a down, does not sleep on the
\* death of an actor it monitors.
Woken ==
    \A p \in Proc :
        (/\ stage[p] = "running" /\ interp[p].pc = "wait"
         /\ interp[p].tag \in {None, "down"} /\ MonitorHung(p))
        ~> (interp[p].pc = "idle")

\* A spawn returns, whatever becomes of the child meanwhile.
SpawnEnds ==
    \A p \in Proc : (stage[p] = "running" /\ interp[p].pc = "spawn") ~> (interp[p].pc # "spawn")

\* What the exit waits for, the exit has ended: actor_cleanup_children
\* signals the actor group and then waits for each child without a limit.
CleanupReaches ==
    \A p \in Proc : stage[p] = "running" /\ interp[p].pc = "cleanup" =>
        \A i \in DOMAIN interp[p].kids :
            interp[p].kids[i].reaped \/ ~Alive(interp[p].kids[i].pid)
=============================================================================
