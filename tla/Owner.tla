------------------------------- MODULE Owner --------------------------------
(***************************************************************************)
(* The owner: the one process that has a database open and serves every   *)
(* program that uses it (src/gsql/owner.c).                               *)
(*                                                                         *)
(* One thread turns one loop (serve).  A turn answers every request that  *)
(* can be answered, gives each read still working one slice, syncs the    *)
(* commits of the turn as one group, writes what the sockets take, frees  *)
(* the connections that ended, ends what was idle too long, and polls.    *)
(* `phase` is where the loop is.  Connections race only through what they *)
(* send and when, but each holds state over many turns: a transaction,    *)
(* cursors, a place in the writer's queue, a reply that waits for a sync. *)
(*                                                                         *)
(* The engine is modelled by its interface: one write transaction, commits*)
(* numbered in order, a sync that makes all of them durable.  A write     *)
(* statement adds one to the contents of its transaction; rows and SQL    *)
(* are left out.                                                           *)
(***************************************************************************)
EXTENDS Naturals, FiniteSets, SequencesExt, Lists

CONSTANTS
    Conns,     \* the connections clients may make
    None,      \* no connection
    Sends,     \* the requests each connection's client may send after HELLO
    MaxReqs,   \* bound: the requests of each connection
    MaxQueue   \* bound: requests read ahead of their answers

Kinds == {"ping", "bye", "bad", "cancel", "begin_read", "begin_write", "commit", "rollback",
          "read", "write", "write_rows", "fetch", "close"}

ASSUME OwnerAssumption ==
    /\ None \notin Conns
    /\ Sends \in [Conns -> SUBSET Kinds]
    /\ MaxReqs \in [Conns -> Nat] /\ MaxQueue \in Nat \ {0}

VARIABLES
    phase,    \* where the loop is
    conn,     \* each connection (Conn)
    writer,   \* o->writer: the connection that holds BEGIN WRITE
    fifo,     \* the connections parked for the writer slot
    group,    \* commits made and not synced, each with the reply that waits
    eng,      \* the engine: its write transaction, its commits, whether it failed
    slices,   \* the connections whose read has not had its slice this turn
    busy,     \* working: the next poll does not wait
    woke,     \* whether something happened in this poll
    told      \* history: the newest commit a client was told of, by DONE and by rows

vars == <<phase, conn, writer, fifo, group, eng, slices, busy, woke, told>>

loop == <<phase, slices, busy, woke, told>>

NewConn ==
    [up |-> "out", hello |-> FALSE, closing |-> FALSE, dead |-> FALSE,
     tx |-> "none", depth |-> 0, said |-> <<>>, snap |-> 0, own |-> 0,
     work |-> "no", curs |-> {}, awaiting |-> FALSE, committed |-> FALSE,
     q |-> <<>>, out |-> <<>>, sent |-> 0, heard |-> 0]

Init ==
    /\ phase = "process"
    /\ conn = [c \in Conns |-> NewConn]
    /\ writer = None /\ fifo = <<>> /\ group = <<>>
    /\ eng = [by |-> None, n |-> 0, marks |-> <<>>, last |-> 0, durable |-> 0, failed |-> FALSE]
    /\ slices = {} /\ busy = FALSE /\ woke = FALSE
    /\ told = [done |-> 0, rows |-> 0]

Live(c) == conn[c].up = "in" /\ ~conn[c].dead

---------------------------------------------------------------------------
(* Answers.  x is a connection's record, and what an operator makes of it. *)

\* The head request leaves the queue, with its reply or without one.
Popped(x) == [x EXCEPT !.q = Tail(@), !.own = IF "own" \in x.curs THEN @ ELSE 0]

Reply(x, kind, seq) ==
    [x EXCEPT !.out = Append(@, [id |-> Head(x.q).id, kind |-> kind, seq |-> seq])]

Answered(x, kind, seq) == Popped(Reply(x, kind, seq))

Set(c, x) == conn' = [conn EXCEPT ![c] = x]

\* txn_end and txn_failed: the transaction's cursors, its snapshot and its
\* place as the writer go.
Ended(x, tx) ==
    [x EXCEPT !.tx = tx, !.snap = 0, !.curs = @ \ {"txn"}, !.said = <<>>,
              !.depth = IF tx = "failed" THEN @ ELSE 0]

\* Seeded fault: a COMMIT the engine refuses returns before the slot is freed.
ReleasedIfCommitted(c) == writer' = IF writer = c /\ conn'[c].awaiting THEN None ELSE writer

Released(c) == writer' = IF writer = c THEN None ELSE writer

Aborted(e, c) == IF e.by = c THEN [e EXCEPT !.by = None, !.n = 0, !.marks = <<>>] ELSE e

\* The transaction of c ends or fails, and its head request is answered.
EndTxn(c, tx, kind) ==
    /\ Set(c, Answered(Ended(conn[c], tx), kind, 0))
    /\ eng' = Aborted(eng, c)
    /\ Released(c)

\* The head request is answered and nothing but its connection changes.
Only(c, x) == Set(c, x) /\ UNCHANGED <<writer, eng>>

Refuse(c) == Only(c, Answered(conn[c], "error", 0))

\* process: a request of c is answered while nothing of an earlier one is
\* left.  A parked one is tried again when the slot is free for it.
MayWrite(c) == writer = c \/ (writer = None /\ \A k \in DOMAIN fifo : fifo[1] = c)

\* Seeded fault: a reply that waits for its sync does not hold back the next.
UnblockedAhead(c) ==
    Live(c) /\ conn[c].q # <<>> /\ ~conn[c].closing /\ conn[c].work = "no"

Unblocked(c) ==
    /\ Live(c) /\ conn[c].q # <<>> /\ ~conn[c].closing
    /\ conn[c].work = "no" /\ ~conn[c].awaiting

Queued(c) == Contains(fifo, c)

NeedsSlot(c) ==
    /\ conn[c].hello /\ conn[c].tx = "none"
    /\ Head(conn[c].q).kind \in {"begin_write", "write", "write_rows"}

Ready(c) == Unblocked(c) /\ (NeedsSlot(c) => MayWrite(c) \/ ~Queued(c))

Handle(c, kinds) ==
    /\ phase = "process" /\ Ready(c)
    /\ conn[c].hello /\ Head(conn[c].q).kind \in kinds

---------------------------------------------------------------------------
(* Requests that do not write.                                             *)

\* The handshake: anything but a HELLO of this protocol's version is refused,
\* and the connection closed.
Hello(c) ==
    /\ phase = "process" /\ Ready(c) /\ ~conn[c].hello
    /\ \/ /\ Head(conn[c].q).kind = "hello"
          /\ Only(c, [Answered(conn[c], "done", 0) EXCEPT !.hello = TRUE])
       \/ Only(c, [Answered(conn[c], "error", 0) EXCEPT !.closing = TRUE])
    /\ UNCHANGED <<fifo, group, loop>>

\* PING, PREPARE, a second HELLO, what is no request, and the answer of a
\* CANCEL, which did its work when it was read.
Ping(c) ==
    /\ Handle(c, {"ping", "cancel"})
    /\ Only(c, Answered(conn[c], "done", 0))
    /\ UNCHANGED <<fifo, group, loop>>

Bye(c) ==
    /\ Handle(c, {"bye"})
    /\ Only(c, [Popped(conn[c]) EXCEPT !.closing = TRUE])
    /\ UNCHANGED <<fifo, group, loop>>

\* The newest commit that the rows of a statement in c's transaction show:
\* a write transaction reads from the last commit, synced or not.
Shown(c) == IF conn[c].tx = "write" THEN eng.last ELSE conn[c].snap

\* The rows of a read, its own snapshot or its transaction's: sent with or
\* without a cursor left open over the rest.
Rows(x, of, seq) ==
    {Answered(x, "rows", seq),
     Answered([x EXCEPT !.curs = @ \cup {of}, !.own = IF of = "own" THEN seq ELSE @], "rows", seq)}

\* The connection becomes one of a set of records.
SetIn(c, X) == conn' \in {[conn EXCEPT ![c] = x] : x \in X} /\ UNCHANGED <<writer, eng>>

\* do_query of a read: a snapshot of its own outside a transaction.  It is
\* answered, refused, goes on working, or the engine fails it.
Read(c) ==
    /\ Handle(c, {"read"})
    /\ LET x == conn[c]
       IN \/ /\ x.tx \in {"failed", "timed_out"} \/ (x.tx = "none" /\ eng.failed)
             /\ Refuse(c)
          \/ /\ x.tx = "none" /\ ~eng.failed
             /\ SetIn(c, Rows(x, "own", eng.durable)
                          \cup {[x EXCEPT !.work = "own", !.own = eng.durable], Answered(x, "error", 0)})
          \/ /\ x.tx \in {"read", "write"} /\ ~eng.failed
             /\ SetIn(c, Rows(x, "txn", Shown(c)) \cup {[x EXCEPT !.work = "txn"], Answered(x, "error", 0)})
          \/ /\ x.tx \in {"read", "write"}
             /\ EndTxn(c, "failed", "error")
    /\ UNCHANGED <<fifo, group, loop>>

\* do_fetch: the next rows of a cursor; the last batch, and a failure, close
\* it.  A cursor that is not there is refused.
Fetch(c) ==
    /\ Handle(c, {"fetch"})
    /\ \/ conn[c].curs = {} /\ Refuse(c)
       \/ \E k \in conn[c].curs :
            LET seq == IF k = "own" THEN conn[c].own ELSE Shown(c)
                x   == [conn[c] EXCEPT !.curs = @ \ {k}]
            IN SetIn(c, {Answered(conn[c], "rows", seq), Answered(x, "rows", seq), Answered(x, "error", 0)})
    /\ UNCHANGED <<fifo, group, loop>>

Close(c) ==
    /\ Handle(c, {"close"})
    /\ \/ conn[c].curs = {} /\ Refuse(c)
       \/ \E k \in conn[c].curs :
            Only(c, Answered([conn[c] EXCEPT !.curs = @ \ {k}], "done", 0))
    /\ UNCHANGED <<fifo, group, loop>>

---------------------------------------------------------------------------
(* Transactions.                                                           *)

\* writer_take finds the slot taken, or others waiting: the request parks.
Park(c) ==
    /\ phase = "process" /\ Ready(c)
    /\ NeedsSlot(c) /\ ~MayWrite(c)
    /\ fifo' = Append(fifo, c)
    /\ UNCHANGED <<conn, writer, eng, group, loop>>

\* The engine begins no write transaction over another, nor after a failure.
Begins == eng.by = None /\ ~eng.failed

BeginWrite(c) ==
    /\ Handle(c, {"begin_write"}) /\ conn[c].tx = "none" /\ MayWrite(c)
    /\ fifo' = Dropped(fifo, {c})
    /\ \/ /\ Begins
          /\ Set(c, Answered([conn[c] EXCEPT !.tx = "write", !.said = <<0>>], "done", 0))
          /\ eng' = [eng EXCEPT !.by = c]
          /\ writer' = c
       \/ ~Begins /\ Refuse(c)
    /\ UNCHANGED <<group, loop>>

\* Seeded fault: a read transaction begins at the last commit, synced or not.
BeginReadNewest(c) ==
    /\ Handle(c, {"begin_read"}) /\ conn[c].tx = "none"
    /\ Only(c, Answered([conn[c] EXCEPT !.tx = "read", !.snap = eng.last], "done", 0))
    /\ UNCHANGED <<fifo, group, loop>>

BeginRead(c) ==
    /\ Handle(c, {"begin_read"}) /\ conn[c].tx = "none"
    /\ \/ eng.failed /\ Refuse(c)
       \/ ~eng.failed /\ Only(c, Answered([conn[c] EXCEPT !.tx = "read", !.snap = eng.durable], "done", 0))
    /\ UNCHANGED <<fifo, group, loop>>

\* The engine's savepoints: one taken, the newest undone, the newest kept.
Marked(e) == [e EXCEPT !.marks = Append(@, e.n)]
Undone(e) == [e EXCEPT !.n = Last(e.marks), !.marks = Front(@)]
Kept(e) == [e EXCEPT !.marks = Front(@)]

\* A BEGIN inside a transaction nests: a savepoint, if it writes, and the
\* engine may have none to give.
BeginNested(c) ==
    /\ Handle(c, {"begin_write", "begin_read"}) /\ conn[c].tx # "none"
    /\ LET x    == [conn[c] EXCEPT !.depth = @ + 1]
           kind == Head(x.q).kind
       IN \/ /\ x.tx \in {"failed", "timed_out", "write"} \/ (x.tx = "read" /\ kind = "begin_write")
             /\ Refuse(c)
          \/ /\ x.tx = "read" /\ kind = "begin_read"
             /\ Only(c, Answered(x, "done", 0))
          \/ /\ x.tx = "write" /\ ~eng.failed
             /\ Set(c, Answered([x EXCEPT !.said = Append(@, Last(@))], "done", 0))
             /\ eng' = Marked(eng) /\ UNCHANGED writer
    /\ UNCHANGED <<fifo, group, loop>>

\* Seeded fault: a statement that failed part way is not undone.
WriteInTxnPartly(c) ==
    /\ Handle(c, {"write", "write_rows"}) /\ conn[c].tx = "write"
    /\ Set(c, Answered(conn[c], "error", 0))
    /\ eng' = [eng EXCEPT !.n = @ + 1]
    /\ UNCHANGED <<writer, fifo, group, loop>>

\* do_query of a write inside a transaction, under a savepoint of its own if
\* one can be had (mark).  A statement refused after it changed rows (part)
\* is undone by its savepoint, or else the transaction fails.
WriteInTxn(c) ==
    /\ Handle(c, {"write", "write_rows"}) /\ conn[c].tx = "write"
    /\ LET x == [conn[c] EXCEPT !.said[Len(conn[c].said)] = @ + 1]
       IN \/ /\ ~eng.failed
             /\ Set(c, IF Head(x.q).kind = "write" THEN Answered(x, "done", 0) ELSE Answered(x, "rows", eng.last))
             /\ eng' = [eng EXCEPT !.n = @ + 1] /\ UNCHANGED writer
          \/ \E mark, part, undo, storage \in BOOLEAN :
                IF storage \/ (part /\ ~(mark /\ undo))
                THEN EndTxn(c, "failed", "error")
                ELSE Refuse(c)
    /\ UNCHANGED <<fifo, group, loop>>

\* A write where none can be: a read transaction, or one that is gone.
WriteRefused(c) ==
    /\ Handle(c, {"write", "write_rows"}) /\ conn[c].tx \in {"read", "failed", "timed_out"}
    /\ Refuse(c)
    /\ UNCHANGED <<fifo, group, loop>>

\* What the engine answers a commit.  A spilled one is durable whatever was
\* asked.  One that stands may still answer an error, its share of a flush or
\* of the merging having failed.
Commits(sync) ==
    {r \in [ok : BOOLEAN, stands : BOOLEAN, durable : BOOLEAN, failed : BOOLEAN] :
        /\ r.ok => r.stands /\ ~r.failed
        /\ r.durable => r.stands
        /\ r.stands /\ sync => r.durable}

\* Seeded fault: the reply of a commit is not withheld.
CommittedAtOnce(c, x, r, rows) ==
    /\ eng' = [eng EXCEPT !.by = None, !.n = 0, !.marks = <<>>, !.last = @ + 1]
    /\ Set(c, Answered(x, "commit", eng.last + 1))
    /\ UNCHANGED group

\* The reply of a commit: withheld until its group is synced (group_add), the
\* rows of a statement synced by itself, or the engine's refusal.
Committed(c, x, r, rows) ==
    LET seq == eng.last + 1
    IN /\ eng' = [eng EXCEPT !.by = None, !.n = 0, !.marks = <<>>,
                             !.last = IF r.stands THEN seq ELSE @,
                             !.durable = IF r.durable THEN seq ELSE @,
                             !.failed = @ \/ r.failed]
       /\ \/ /\ ~r.ok
             /\ Set(c, Answered(x, "error", 0))
             /\ UNCHANGED group
          \/ /\ r.ok /\ rows
             /\ Set(c, Answered(x, "rows", seq))
             /\ UNCHANGED group
          \/ /\ r.ok /\ ~rows
             /\ Set(c, [Popped(x) EXCEPT !.awaiting = TRUE, !.committed = TRUE])
             /\ group' = Append(group, [c |-> c, id |-> Head(x.q).id, seq |-> seq])

\* A write outside a transaction: begun, run and committed in one call, or
\* refused.
AutoWrite(c) ==
    /\ Handle(c, {"write", "write_rows"}) /\ conn[c].tx = "none" /\ MayWrite(c)
    /\ fifo' = Dropped(fifo, {c})
    /\ LET rows == Head(conn[c].q).kind = "write_rows"
       IN \/ Begins /\ \E r \in Commits(rows) : Committed(c, conn[c], r, rows) /\ UNCHANGED writer
          \/ Refuse(c) /\ UNCHANGED group
    /\ UNCHANGED loop

\* COMMIT of a write transaction, its cursors closed first.
CommitWrite(c) ==
    /\ Handle(c, {"commit"}) /\ conn[c].tx = "write" /\ conn[c].depth = 0
    /\ \E r \in Commits(FALSE) :
          /\ eng.failed => ~r.ok /\ ~r.stands
          /\ Committed(c, Ended(conn[c], "none"), r, FALSE)
    /\ Released(c)
    /\ UNCHANGED <<fifo, loop>>

\* The COMMIT of a nested BEGIN: what it did is kept, inside the transaction.
CommitNested(c) ==
    /\ Handle(c, {"commit"}) /\ conn[c].tx \in {"read", "write"} /\ conn[c].depth > 0
    /\ LET x == [conn[c] EXCEPT !.depth = @ - 1]
       IN \/ x.tx = "read" /\ Only(c, Answered(x, "done", 0))
          \/ /\ x.tx = "write"
             /\ Set(c, Answered([x EXCEPT !.said = Append(Front(Front(@)), Last(@))], "done", 0))
             /\ eng' = Kept(eng) /\ UNCHANGED writer
    /\ UNCHANGED <<fifo, group, loop>>

\* The ROLLBACK of a nested BEGIN: what it did is undone, or the whole
\* transaction if the old rows were not kept or the engine failed.
RollbackNested(c) ==
    /\ Handle(c, {"rollback"}) /\ conn[c].tx \in {"read", "write"} /\ conn[c].depth > 0
    /\ LET x == [conn[c] EXCEPT !.depth = @ - 1]
       IN \/ x.tx = "read" /\ Only(c, Answered(x, "done", 0))
          \/ /\ x.tx = "write" /\ ~eng.failed
             /\ Set(c, Answered([x EXCEPT !.said = Front(@), !.curs = @ \ {"txn"}], "done", 0))
             /\ eng' = Undone(eng) /\ UNCHANGED writer
          \/ /\ x.tx = "write"
             /\ EndTxn(c, "failed", "error")
    /\ UNCHANGED <<fifo, group, loop>>

\* COMMIT or ROLLBACK of anything else: refused with nothing open, and the
\* end of the transaction otherwise, at whatever depth one that is gone was.
EndOther(c) ==
    /\ Handle(c, {"commit", "rollback"})
    /\ LET kind == Head(conn[c].q).kind
       IN \/ conn[c].tx = "none" /\ Refuse(c)
          \/ /\ conn[c].tx \in {"failed", "timed_out"}
             /\ EndTxn(c, "none", IF kind = "commit" THEN "error" ELSE "done")
          \/ /\ conn[c].depth = 0
             /\ conn[c].tx = "read" \/ (conn[c].tx = "write" /\ kind = "rollback")
             /\ EndTxn(c, "none", "done")
    /\ UNCHANGED <<fifo, group, loop>>

---------------------------------------------------------------------------
(* The rest of a turn.                                                     *)

\* Nothing more can be answered: each read still working gets one slice.
Answers ==
    /\ phase = "process" /\ \A c \in Conns : ~Ready(c)
    /\ slices' = {c \in Conns : Live(c) /\ conn[c].work # "no"}
    /\ busy' = (slices' # {})
    /\ phase' = "work"
    /\ UNCHANGED <<conn, writer, fifo, group, eng, woke, told>>

\* work_step: the read goes on, is answered, is refused, or the engine fails
\* it and with it its transaction.
WorkStep(c) ==
    /\ phase = "work" /\ c \in slices
    /\ slices' = slices \ {c}
    /\ LET of  == conn[c].work
           x   == [conn[c] EXCEPT !.work = "no"]
           seq == IF of = "own" THEN conn[c].own ELSE Shown(c)
       IN \/ UNCHANGED <<conn, writer, eng>>
          \/ SetIn(c, Rows(x, of, seq) \cup {Answered(x, "error", 0)})
          \/ /\ of = "txn"
             /\ Set(c, Answered(Ended(x, "failed"), "error", 0))
             /\ eng' = Aborted(eng, c)
             /\ Released(c)
    /\ UNCHANGED <<phase, fifo, group, busy, woke, told>>

\* group_gather: the group waits a little for a connection that may commit.
Gather ==
    /\ phase = "work" /\ slices = {} /\ group # <<>>
    /\ \E c \in Conns : Live(c) /\ ~conn[c].awaiting /\ conn[c].committed
    /\ phase' = "flush"
    /\ UNCHANGED <<conn, writer, fifo, group, eng, slices, busy, woke, told>>

\* The connections whose reply waits in the group.
Waiting == {c \in Conns : Live(c) /\ \E k \in DOMAIN group : group[k].c = c}

\* group_sync: one sync for the group, then its replies; a sync that fails
\* fails all of them.
Synced ==
    IF group = <<>> THEN UNCHANGED <<conn, group, eng>>
    ELSE \E ok \in BOOLEAN :
        /\ ok => ~eng.failed
        /\ eng' = IF ok THEN [eng EXCEPT !.durable = eng.last] ELSE [eng EXCEPT !.failed = TRUE]
        /\ conn' = [c \in Conns |->
              IF c \notin Waiting THEN conn[c]
              ELSE LET p == group[CHOOSE k \in DOMAIN group : group[k].c = c]
                   IN [conn[c] EXCEPT !.awaiting = FALSE,
                         !.out = Append(@, [id |-> p.id, kind |-> IF ok THEN "commit" ELSE "error",
                                            seq |-> IF ok THEN p.seq ELSE 0])]]
        /\ group' = <<>>

\* Seeded fault: the requests behind a released reply are forgotten.
GroupSyncForgets ==
    /\ phase = "work" /\ slices = {} /\ Synced
    /\ phase' = "flush"
    /\ UNCHANGED <<writer, fifo, slices, busy, woke, told>>

\* The group is synced, and resume set: a released connection may have
\* requests waiting.
GroupSync ==
    /\ phase = "work" /\ slices = {} /\ Synced
    /\ busy' = (busy \/ \E c \in Waiting : conn[c].q # <<>>)
    /\ phase' = "flush"
    /\ UNCHANGED <<writer, fifo, slices, woke, told>>

\* The newest commit that replies of one kind show.
Newest(outs, kind) ==
    Max({0} \cup {o.seq : o \in {p \in UNION {Range(s) : s \in outs} : p.kind = kind}})

\* flush_out: each socket takes what waits for it, takes nothing, or is found
\* broken.  A connection to be closed ends once its output is written.
Flushed ==
    \E f \in [Conns -> {"sent", "blocked", "broken"}] :
        /\ \A c \in Conns : (~Live(c) \/ conn[c].out = <<>>) => f[c] = "sent"
        /\ conn' = [c \in Conns |->
              IF ~Live(c) \/ f[c] = "blocked" THEN conn[c]
              ELSE IF f[c] = "broken" THEN [conn[c] EXCEPT !.dead = TRUE]
              ELSE [conn[c] EXCEPT !.heard = @ + Len(conn[c].out), !.out = <<>>, !.dead = conn[c].closing]]
        /\ LET outs == {conn[c].out : c \in {d \in Conns : Live(d) /\ f[d] = "sent"}}
           IN told' = [done |-> Max({told.done, Newest(outs, "commit")}),
                       rows |-> Max({told.rows, Newest(outs, "rows")})]

Flush ==
    /\ phase = "flush" /\ Flushed
    /\ phase' = "reap"
    /\ UNCHANGED <<writer, fifo, group, eng, slices, busy, woke>>

\* Seeded fault: a connection that went keeps its place in the queue.
CleanedInQueue(D) ==
    /\ conn' = [c \in Conns |-> IF c \in D THEN [NewConn EXCEPT !.up = "gone"] ELSE conn[c]]
    /\ writer' = IF writer \in D THEN None ELSE writer
    /\ eng' = IF eng.by \in D THEN Aborted(eng, eng.by) ELSE eng
    /\ UNCHANGED <<fifo, group>>

\* conn_cleanup of the connections of D: their commits stand, and only the
\* replies are lost.
Cleaned(D) ==
    /\ conn' = [c \in Conns |-> IF c \in D THEN [NewConn EXCEPT !.up = "gone"] ELSE conn[c]]
    /\ writer' = IF writer \in D THEN None ELSE writer
    /\ eng' = IF eng.by \in D THEN Aborted(eng, eng.by) ELSE eng
    /\ fifo' = Dropped(fifo, D)
    /\ group' = [k \in DOMAIN group |->
                   IF group[k].c \in D THEN [group[k] EXCEPT !.c = None] ELSE group[k]]

Reap ==
    /\ phase = "reap"
    /\ LET D == {c \in Conns : conn[c].up = "in" /\ conn[c].dead}
       IN Cleaned(D) /\ phase' = IF D # {} THEN "process" ELSE "timeouts"
    /\ UNCHANGED <<slices, busy, woke, told>>

Open(c) == conn[c].tx \in {"read", "write"}

\* timeouts: any transaction and any cursor may have been idle too long.
Timeouts ==
    /\ phase = "timeouts"
    /\ \E T \in SUBSET {c \in Conns : Live(c) /\ Open(c)}, drop \in [Conns -> SUBSET {"own", "txn"}] :
        /\ \A c \in Conns : drop[c] \subseteq conn[c].curs
        /\ conn' = [c \in Conns |->
                      LET x == [conn[c] EXCEPT !.curs = @ \ drop[c]]
                      IN IF c \in T THEN Ended(x, "timed_out") ELSE x]
        /\ writer' = IF writer \in T THEN None ELSE writer
        /\ eng' = IF eng.by \in T THEN Aborted(eng, eng.by) ELSE eng
        /\ phase' = IF conn' # conn THEN "process" ELSE "poll"
    /\ woke' = FALSE
    /\ UNCHANGED <<fifo, group, slices, busy, told>>

---------------------------------------------------------------------------
(* The poll: what clients do, until the loop turns again.                  *)

Polled(c, x) ==
    /\ phase = "poll" /\ Set(c, x)
    /\ woke' = TRUE
    /\ UNCHANGED <<phase, writer, group, eng, slices, busy, told>>

Accept(c) ==
    /\ conn[c].up = "out"
    /\ Polled(c, [conn[c] EXCEPT !.up = "in"])
    /\ UNCHANGED fifo

Hangup(c) ==
    /\ Live(c)
    /\ Polled(c, [conn[c] EXCEPT !.dead = TRUE])
    /\ UNCHANGED fifo

Enqueued(x, kind) ==
    [x EXCEPT !.sent = @ + 1, !.q = Append(@, [id |-> x.sent + 1, kind |-> kind])]

Readable(c) ==
    /\ Live(c) /\ ~conn[c].closing
    /\ conn[c].sent < MaxReqs[c] /\ Len(conn[c].q) < MaxQueue

\* A request is read and waits its turn; of a CANCEL, one that hits nothing.
Receive(c) ==
    /\ Readable(c)
    /\ \E kind \in IF conn[c].sent = 0 THEN {"hello", "ping"} ELSE Sends[c] \ {"bad"} :
          Polled(c, Enqueued(conn[c], kind))
    /\ UNCHANGED fifo

\* CANCEL, the one request read out of order: it ends a working or a parked
\* request at once, and its own answer takes its turn.
Cancel(c) ==
    /\ Readable(c) /\ "cancel" \in Sends[c]
    /\ conn[c].work # "no" \/ Queued(c)
    /\ Polled(c, Enqueued(Answered([conn[c] EXCEPT !.work = "no"], "error", 0), "cancel"))
    /\ fifo' = Dropped(fifo, {c})

\* What a client is told before its connection closes; it answers no request.
BadReply == [id |-> 0, kind |-> "bad", seq |-> 0]

\* A frame that cannot be one: the stream is lost, and the connection closes
\* once the reason is written.
BadFrame(c) ==
    /\ Readable(c) /\ "bad" \in Sends[c]
    /\ Polled(c, [conn[c] EXCEPT !.closing = TRUE, !.out = Append(@, BadReply)])
    /\ UNCHANGED fifo

\* Seeded fault: the poll waits without a deadline while a transaction is open.
TurnUntimed ==
    /\ phase = "poll"
    /\ \/ woke \/ busy \/ group # <<>>
       \/ \E c \in Conns : Live(c) /\ conn[c].out # <<>>
    /\ phase' = "process" /\ woke' = FALSE
    /\ UNCHANGED <<conn, writer, fifo, group, eng, slices, busy, told>>

\* The poll waits for input, for a socket that takes output, or for the next
\* deadline; it waits for nothing while a read works or a group gathers.
Turn ==
    /\ phase = "poll"
    /\ \/ woke \/ busy \/ group # <<>>
       \/ \E c \in Conns : Live(c) /\ (Open(c) \/ conn[c].curs # {} \/ conn[c].out # <<>>)
    /\ phase' = "process" /\ woke' = FALSE
    /\ UNCHANGED <<conn, writer, fifo, group, eng, slices, busy, told>>

\* The loop ends: SIGTERM, the lease lost, or nobody connected for long.  The
\* group is synced, what the sockets take is sent, and everything goes.
Stop ==
    /\ phase = "poll" /\ phase' = "last_sync"
    /\ UNCHANGED <<conn, writer, fifo, group, eng, slices, busy, woke, told>>

LastSync ==
    /\ phase = "last_sync" /\ Synced
    /\ phase' = "last_flush"
    /\ UNCHANGED <<writer, fifo, slices, busy, woke, told>>

LastFlush ==
    /\ phase = "last_flush" /\ Flushed
    /\ phase' = "cleanup"
    /\ UNCHANGED <<writer, fifo, group, eng, slices, busy, woke>>

Cleanup ==
    /\ phase = "cleanup" /\ Cleaned({c \in Conns : conn[c].up = "in"})
    /\ phase' = "stopped"
    /\ UNCHANGED <<slices, busy, woke, told>>

---------------------------------------------------------------------------

Request(c) == \/ Hello(c) \/ Ping(c) \/ Bye(c) \/ Read(c) \/ Fetch(c) \/ Close(c)
              \/ Park(c) \/ BeginWrite(c) \/ BeginRead(c) \/ BeginNested(c)
              \/ WriteInTxn(c) \/ WriteRefused(c) \/ AutoWrite(c)
              \/ CommitWrite(c) \/ CommitNested(c) \/ RollbackNested(c) \/ EndOther(c)

Client(c) == Accept(c) \/ Hangup(c) \/ Receive(c) \/ Cancel(c) \/ BadFrame(c)

Loop == \/ \E c \in Conns : Request(c) \/ WorkStep(c)
        \/ Answers \/ GroupSync \/ Flush \/ Reap \/ Timeouts \/ Turn

End == LastSync \/ LastFlush \/ Cleanup

Next == Loop \/ Gather \/ Stop \/ End \/ \E c \in Conns : Client(c)

\* The transaction of c is found to have been idle too long.
Expire(c) == Timeouts /\ Open(c) /\ conn'[c].tx = "timed_out"

\* The loop keeps turning, or ends; a group does not gather for ever; an idle
\* transaction is timed out in the end.
Fairness ==
    /\ WF_vars(Loop \/ End) /\ SF_vars(GroupSync)
    /\ \A c \in Conns : SF_vars(Expire(c))

Spec == Init /\ [][Next]_vars /\ Fairness

---------------------------------------------------------------------------
(* Properties.                                                             *)

Replies == [id : Nat, kind : {"done", "commit", "rows", "error", "bad"}, seq : 0 .. eng.last]

TypeOK ==
    /\ phase \in {"process", "work", "flush", "reap", "timeouts", "poll",
                  "last_sync", "last_flush", "cleanup", "stopped"}
    /\ writer \in Conns \cup {None} /\ eng.by \in Conns \cup {None}
    /\ Range(fifo) \subseteq Conns /\ IsInjective(fifo)
    /\ \A k \in DOMAIN group : group[k].c \in Conns \cup {None} /\ group[k].seq \in 1 .. eng.last
    /\ eng.durable \in 0 .. eng.last /\ {told.done, told.rows} \subseteq 0 .. eng.last
    /\ slices \subseteq Conns
    /\ \A c \in Conns :
          /\ conn[c].up \in {"out", "in", "gone"}
          /\ conn[c].tx \in {"none", "read", "write", "failed", "timed_out"}
          /\ conn[c].work \in {"no", "own", "txn"} /\ conn[c].curs \subseteq {"own", "txn"}
          /\ conn[c].snap \in 0 .. eng.durable /\ conn[c].own \in 0 .. eng.durable
          /\ Range(conn[c].out) \subseteq Replies /\ Len(conn[c].q) <= MaxQueue

\* Replies leave a connection in the order of its requests, whatever parked,
\* was cancelled, worked on for turns or waited for a sync in between.
InOrder ==
    \A c \in Conns :
        LET replies == Dropped(conn[c].out, {BadReply})
        IN \A k \in DOMAIN replies : replies[k].id = conn[c].heard + k

\* A client that has read DONE for a commit has it on the platter, whether it
\* was answered alone, in a group, after a gather or by an owner that stops.
DoneDurable == told.done <= eng.durable

\* The owner's writer slot, the engine's write transaction and the state of
\* the connection that holds them agree in every phase: no begin_write
\* answers BUSY, and no transaction that ended keeps the slot.
SlotAgrees ==
    /\ writer = eng.by
    /\ \A c \in Conns : writer = c <=> conn[c].tx = "write"

\* A connection in the queue has a request parked at its head, and nothing of
\* an earlier one left: the queue never waits for one that cannot move.
ParkedAtHead ==
    \A c \in Range(fifo) :
        /\ conn[c].up = "in" /\ conn[c].q # <<>> /\ NeedsSlot(c)
        /\ conn[c].work = "no" /\ ~conn[c].awaiting

\* An open write transaction holds exactly the statements its client was told
\* succeeded, at every level of nesting: COMMIT commits those and no others.
Atomic ==
    \A c \in Conns : conn[c].tx = "write" =>
        /\ Len(conn[c].said) = conn[c].depth + 1
        /\ eng.n = Last(conn[c].said) /\ eng.marks = Front(conn[c].said)

\* The owner never sleeps in poll over a request it could answer, a read it
\* could advance or a reply it could release.
NoSleep ==
    phase = "poll" /\ ~woke /\ ~busy /\ group = <<>> =>
        \A c \in Conns : Live(c) => ~Ready(c) /\ conn[c].work = "no" /\ ~conn[c].awaiting

\* The client of c, or of a connection queued before it, broke the protocol or
\* said BYE, and does not read what it was sent: its place is not given up.
Blocked(c) ==
    \E j, k \in DOMAIN fifo : j <= k /\ fifo[k] = c /\ conn[fifo[j]].closing

\* A parked request is served in the end: whoever holds the slot commits,
\* rolls back, fails, hangs up or is timed out, and the queue moves.
Served == \A c \in Conns : Queued(c) ~> ~Queued(c) \/ Blocked(c)

\* A commit whose reply still waits for its sync has been shown to nobody
\* ("no client ever reads what a crash could remove").
WithheldUnseen ==
    \A k \in DOMAIN group : group[k].seq > eng.durable => told.rows < group[k].seq

\* What a read works on, or a cursor holds, is a transaction that is open.
ReadsOpenTxn ==
    \A c \in Conns : conn[c].work = "txn" \/ "txn" \in conn[c].curs => Open(c)
=============================================================================
