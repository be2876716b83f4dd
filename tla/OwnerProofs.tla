---------------------------- MODULE OwnerProofs -----------------------------
(***************************************************************************)
(* What Owner.tla says of every set of connections, every set of requests  *)
(* and every depth of the queues.                                          *)
(*                                                                         *)
(* IInv ties each connection's record to the owner and to the engine       *)
(* (Fits): the requests it sent are numbered, the ones answered make up    *)
(* what it heard, what waits for its socket and at most one reply in the   *)
(* group (Order); what it was shown exists, and what it was promised is    *)
(* synced (Sent, Sees); its savepoints are the engine's (Agrees); and it   *)
(* holds the slot, a place in the queue or a place in the group only in    *)
(* the state that goes with it.  Turning is about the loop: past           *)
(* "process", unless it is busy, nobody is left who could be served.       *)
(***************************************************************************)
EXTENDS Owner, ListsProofs

Rep == [id : Nat, kind : {"done", "commit", "rows", "error", "bad"}, seq : Nat]

Req == [id : Nat, kind : Kinds \cup {"hello"}]

Txs == {"none", "read", "write", "failed", "timed_out"}

Works == {"no", "own", "txn"}

Cursors == SUBSET {"own", "txn"}

Conn ==
    [up : {"out", "in", "gone"}, hello : BOOLEAN, closing : BOOLEAN, dead : BOOLEAN,
     tx : Txs, depth : Nat, said : Seq(Nat),
     snap : Nat, own : Nat, work : Works, curs : Cursors,
     awaiting : BOOLEAN, committed : BOOLEAN, q : Seq(Req), out : Seq(Rep),
     sent : Nat, heard : Nat]

Eng == [by : Conns \cup {None}, n : Nat, marks : Seq(Nat), last : Nat, durable : Nat,
        failed : BOOLEAN]

Grp == [c : Conns \cup {None}, id : Nat, seq : Nat]

Phases == {"process", "work", "flush", "reap", "timeouts", "poll",
           "last_sync", "last_flush", "cleanup", "stopped"}

Types ==
    /\ phase \in Phases
    /\ conn \in [Conns -> Conn]
    /\ writer \in Conns \cup {None}
    /\ fifo \in Seq(Conns) /\ IsInjective(fifo)
    /\ group \in Seq(Grp)
    /\ eng \in Eng
    /\ slices \subseteq Conns /\ busy \in BOOLEAN /\ woke \in BOOLEAN
    /\ told \in [done : Nat, rows : Nat]

\* The engine, the slot, the group and what clients were told.
Engine ==
    /\ eng.durable <= eng.last
    /\ told.done <= eng.durable /\ told.rows <= eng.last
    /\ writer = eng.by
    /\ eng.by = None => eng.n = 0 /\ eng.marks = <<>>
    /\ \A k \in DOMAIN group : 1 <= group[k].seq /\ group[k].seq <= eng.last

\* The replies that wait for the socket and answer a request.
Told(x) == Dropped(x.out, {BadReply})

\* The number of the newest request of x that left its queue.
Done(x) == x.sent - Len(x.q)

\* How many replies the client of x has been given or waits for.
Owed(x) == x.heard + Len(Told(x)) + (IF x.awaiting THEN 1 ELSE 0)

\* The requests of x, its queue and its replies are in order.
Order(x) ==
    /\ Len(x.q) <= x.sent /\ Len(x.q) <= MaxQueue
    /\ \A k \in DOMAIN x.q : x.q[k].id = Done(x) + k
    /\ \A k \in DOMAIN Told(x) : Told(x)[k].id = x.heard + k
    /\ x.work # "no" => x.q # <<>> /\ ~x.awaiting
    /\ \A k \in DOMAIN x.out : x.out[k].kind = "bad" => x.out[k] = BadReply /\ x.closing
    /\ x.dead \/ (x.closing /\ x.work = "no" /\ ~x.awaiting) \/ Done(x) = Owed(x)
    /\ x.up # "in" => /\ x.q = <<>> /\ x.out = <<>> /\ x.work = "no" /\ ~x.awaiting
                      /\ x.curs = {} /\ x.tx = "none" /\ ~x.dead /\ ~x.closing

\* The replies of x tell of commits that were made, and promise synced ones.
Sent(x, e) ==
    \A k \in DOMAIN x.out : /\ x.out[k].seq <= e.last
                            /\ x.out[k].kind = "commit" => x.out[k].seq <= e.durable

\* What the snapshots of x show is synced.
Sees(x, e) == x.snap <= e.durable /\ x.own <= e.durable

\* The open transaction of x is the engine's.
Agrees(x, e) ==
    /\ x.tx = "none" => x.depth = 0
    /\ x.tx = "write" => /\ Len(x.said) = x.depth + 1
                         /\ e.n = Last(x.said) /\ e.marks = Front(x.said)

\* A request that waits for the slot is at the head of x's queue.
Parked(x) ==
    /\ x.up = "in" /\ x.q # <<>> /\ x.hello /\ x.tx = "none" /\ x.work = "no" /\ ~x.awaiting
    /\ Head(x.q).kind \in {"begin_write", "write", "write_rows"}

\* The place of c in the group g is the newest request c's queue let go.
Grouped(c, x, g) ==
    /\ x.awaiting /\ ~x.dead => \E k \in DOMAIN g : g[k].c = c
    /\ \A k \in DOMAIN g : g[k].c = c => x.awaiting /\ x.up = "in" /\ g[k].id = Done(x)

\* The record x of c, the slot w, the queue f, the group g and the engine e fit.
Fits(c, x, w, f, g, e) ==
    /\ Order(x) /\ Sent(x, e) /\ Sees(x, e) /\ Agrees(x, e)
    /\ w = c <=> x.tx = "write"
    /\ c \in Range(f) => Parked(x)
    /\ Grouped(c, x, g)

Fit(c) == Fits(c, conn[c], writer, fifo, group, eng)

\* Nobody could be served now.
Still == \A c \in Conns : Live(c) => ~Ready(c) /\ conn[c].work = "no"

Turning ==
    /\ phase = "work" => \A c \in slices : Live(c) /\ conn[c].work # "no"
    /\ ~busy /\ phase \in {"work", "flush", "reap", "timeouts"} => Still /\ slices = {}
    /\ ~busy /\ phase = "poll" /\ ~woke => Still

Sound == Types /\ Engine /\ \A c \in Conns : Fit(c)

IInv == Sound /\ Turning

---------------------------------------------------------------------------
(* Records.                                                                *)

\* The parts of a connection's record.
LEMMA ConnParts ==
  ASSUME NEW x \in Conn
  PROVE  /\ x.up \in {"out", "in", "gone"} /\ x.hello \in BOOLEAN
         /\ x.closing \in BOOLEAN /\ x.dead \in BOOLEAN
         /\ x.tx \in Txs /\ x.depth \in Nat /\ x.said \in Seq(Nat) /\ x.snap \in Nat /\ x.own \in Nat
         /\ x.work \in Works /\ x.curs \in Cursors
         /\ x.awaiting \in BOOLEAN /\ x.committed \in BOOLEAN
         /\ x.q \in Seq(Req) /\ x.out \in Seq(Rep) /\ x.sent \in Nat /\ x.heard \in Nat
  BY DEF Conn

\* The parts of the engine's record.
LEMMA EngParts ==
  ASSUME NEW e \in Eng
  PROVE  /\ e.by \in Conns \cup {None} /\ e.n \in Nat /\ e.marks \in Seq(Nat)
         /\ e.last \in Nat /\ e.durable \in Nat /\ e.failed \in BOOLEAN
  BY DEF Eng

\* y and x differ in nothing but what a reply takes and gives.
SameRest(x, y) ==
    /\ y.up = x.up /\ y.hello = x.hello /\ y.closing = x.closing /\ y.dead = x.dead
    /\ y.tx = x.tx /\ y.depth = x.depth /\ y.said = x.said /\ y.snap = x.snap
    /\ y.work = x.work /\ y.curs = x.curs /\ y.awaiting = x.awaiting
    /\ y.committed = x.committed /\ y.sent = x.sent /\ y.heard = x.heard

Answer(x, kind, seq) == [id |-> Head(x.q).id, kind |-> kind, seq |-> seq]

\* What answering the head request makes of a record.
LEMMA AnsweredParts ==
  ASSUME NEW x \in Conn, x.q # <<>>, NEW kind \in {"done", "commit", "rows", "error"},
         NEW seq \in Nat
  PROVE  LET z == Answered(x, kind, seq)
         IN /\ z \in Conn /\ SameRest(x, z)
            /\ z.q = Tail(x.q) /\ z.out = Append(x.out, Answer(x, kind, seq))
            /\ z.own = IF "own" \in x.curs THEN x.own ELSE 0
<1>1. x.q \in Seq(Req) /\ x.out \in Seq(Rep) /\ x.own \in Nat
  BY ConnParts
<1>2. Tail(x.q) \in Seq(Req) /\ Head(x.q) \in Req
  BY <1>1
<1>3. Head(x.q).id \in Nat
  BY <1>2 DEF Req
<1>4. Answer(x, kind, seq) \in Rep
  BY <1>3 DEF Answer, Rep
<1> DEFINE o == Append(x.out, Answer(x, kind, seq))
           t == Tail(x.q)
           n == IF "own" \in x.curs THEN x.own ELSE 0
<1>5. o \in Seq(Rep) /\ t \in Seq(Req) /\ n \in Nat
  BY <1>1, <1>2, <1>4
<1>6. Answered(x, kind, seq) = [x EXCEPT !.out = o, !.q = t, !.own = n]
  BY DEF Answered, Popped, Reply, Answer, Conn
<1> HIDE DEF o, t, n
<1>7. [x EXCEPT !.out = o, !.q = t, !.own = n] \in Conn
  BY <1>5 DEF Conn
<1>8. LET z == [x EXCEPT !.out = o, !.q = t, !.own = n]
      IN SameRest(x, z) /\ z.out = o /\ z.q = t /\ z.own = n
  BY DEF Conn, SameRest
<1> QED
  BY <1>6, <1>7, <1>8 DEF o, t, n

\* The head of a queue leaves it.
LEMMA TailQueue ==
  ASSUME NEW x \in Conn, NEW z \in Conn, Order(x), x.q # <<>>,
         z.q = Tail(x.q), z.sent = x.sent
  PROVE  /\ Len(z.q) = Len(x.q) - 1 /\ Len(z.q) <= z.sent /\ Len(z.q) <= MaxQueue
         /\ Done(z) = Done(x) + 1 /\ Head(x.q).id = Done(x) + 1
         /\ \A k \in DOMAIN z.q : z.q[k].id = Done(z) + k
<1>1. x.q \in Seq(Req) /\ x.sent \in Nat /\ MaxQueue \in Nat
  BY ConnParts, OwnerAssumption
<1>2. Len(x.q) \in Nat /\ Len(x.q) >= 1 /\ Len(x.q) <= x.sent /\ Len(x.q) <= MaxQueue
  BY <1>1 DEF Order
<1>3. Len(z.q) = Len(x.q) - 1 /\ \A k \in DOMAIN z.q : k + 1 \in DOMAIN x.q /\ z.q[k] = x.q[k + 1]
  BY <1>1, <1>2
<1>4. Done(x) \in Nat /\ Done(z) = Done(x) + 1
  BY <1>1, <1>2, <1>3 DEF Done
<1>5. Head(x.q).id = Done(x) + 1
  <2>1. Head(x.q) = x.q[1] /\ 1 \in DOMAIN x.q
    BY <1>1, <1>2
  <2> QED
    BY <2>1 DEF Order
<1>6. ASSUME NEW k \in DOMAIN z.q PROVE z.q[k].id = Done(z) + k
  <2>1. x.q[k + 1].id = Done(x) + (k + 1)
    BY <1>3, <1>6 DEF Order
  <2>2. k \in Nat
    BY <1>1, <1>2, <1>3, ConnParts
  <2> QED
    BY <1>3, <1>4, <2>1, <2>2
<1> QED
  BY <1>1, <1>2, <1>3, <1>4, <1>5, <1>6

\* z is x with its head request answered by kind and seq.
Replied(x, z, kind, seq) ==
    /\ z.q = Tail(x.q) /\ z.out = Append(x.out, Answer(x, kind, seq))
    /\ z.up = x.up /\ z.dead = x.dead /\ (x.closing => z.closing)
    /\ z.awaiting = x.awaiting /\ z.sent = x.sent /\ z.heard = x.heard /\ z.work = "no"

\* A reply that answers a request is the last of those told.
LEMMA ToldGrows ==
  ASSUME NEW x \in Conn, NEW r \in Rep, r.kind # "bad",
         NEW z \in Conn, z.out = Append(x.out, r)
  PROVE  /\ Told(x) \in Seq(Rep) /\ Told(z) \in Seq(Rep)
         /\ Told(z) = Append(Told(x), r) /\ Len(Told(z)) = Len(Told(x)) + 1
         /\ \A k \in DOMAIN Told(z) :
               \/ k \in DOMAIN Told(x) /\ Told(z)[k] = Told(x)[k]
               \/ k = Len(Told(x)) + 1 /\ Told(z)[k] = r
<1>1. x.out \in Seq(Rep) /\ z.out \in Seq(Rep)
  BY ConnParts
<1>2. r \notin {BadReply}
  BY DEF BadReply
<1>3. Dropped(Append(x.out, r), {BadReply}) = Append(Dropped(x.out, {BadReply}), r)
  BY <1>1, <1>2, DroppedAppend
<1>4. Dropped(x.out, {BadReply}) \in Seq(Rep)
  BY <1>1, DroppedEmbeds
<1>5. Told(x) \in Seq(Rep) /\ Told(z) = Append(Told(x), r)
  BY <1>3, <1>4 DEF Told
<1> QED
  BY <1>5

\* An answer keeps the order.
LEMMA RepliedOrder ==
  ASSUME NEW x \in Conn, NEW z \in Conn, NEW kind \in {"done", "commit", "rows", "error"},
         NEW seq \in Nat, Order(x), x.q # <<>>, ~x.awaiting, ~x.dead,
         x.closing => x.work # "no", x.up = "in", Replied(x, z, kind, seq)
  PROVE  Order(z)
<1> DEFINE r == Answer(x, kind, seq)
<1>1. /\ z.q = Tail(x.q) /\ z.out = Append(x.out, r)
      /\ z.up = x.up /\ z.dead = x.dead /\ (x.closing => z.closing)
      /\ z.awaiting = x.awaiting /\ z.sent = x.sent /\ z.heard = x.heard /\ z.work = "no"
  BY DEF Replied
<1>2. /\ x.q \in Seq(Req) /\ x.sent \in Nat /\ x.heard \in Nat /\ x.out \in Seq(Rep)
      /\ z.out \in Seq(Rep)
  BY ConnParts
<1>3. /\ Len(z.q) = Len(x.q) - 1 /\ Len(z.q) <= z.sent /\ Len(z.q) <= MaxQueue
      /\ Done(z) = Done(x) + 1 /\ Head(x.q).id = Done(x) + 1
      /\ \A k \in DOMAIN z.q : z.q[k].id = Done(z) + k
  BY <1>1, TailQueue
<1>4. Head(x.q) \in Req
  BY <1>2
<1>5. r \in Rep /\ r.kind # "bad" /\ r.id = Head(x.q).id /\ r # BadReply
  BY <1>4 DEF Answer, Req, Rep, BadReply
<1> HIDE DEF r
<1>6. /\ Told(x) \in Seq(Rep) /\ Told(z) \in Seq(Rep)
      /\ Len(Told(z)) = Len(Told(x)) + 1
      /\ \A k \in DOMAIN Told(z) :
            \/ k \in DOMAIN Told(x) /\ Told(z)[k] = Told(x)[k]
            \/ k = Len(Told(x)) + 1 /\ Told(z)[k] = r
  BY <1>1, <1>5, ToldGrows
<1>7. Done(x) = x.heard + Len(Told(x))
  <2>1. Done(x) = Owed(x)
    BY DEF Order
  <2> QED
    BY <1>2, <1>6, <2>1 DEF Owed
<1>8. Done(z) = Owed(z)
  <2>1. Len(Told(x)) \in Nat /\ x.heard \in Nat
    BY <1>2, <1>6
  <2>2. Owed(z) = x.heard + (Len(Told(x)) + 1) + 0
    BY <1>1, <1>6 DEF Owed
  <2>3. Done(z) = (x.heard + Len(Told(x))) + 1
    BY <1>3, <1>7
  <2> QED
    BY <2>1, <2>2, <2>3
<1>9. \A k \in DOMAIN Told(z) : Told(z)[k].id = z.heard + k
  <2>1. Len(Told(x)) \in Nat /\ x.heard \in Nat
    BY <1>2, <1>6
  <2>2. \A k \in DOMAIN Told(x) : Told(x)[k].id = x.heard + k
    BY DEF Order
  <2>3. r.id = x.heard + (Len(Told(x)) + 1)
    <3>1. r.id = (x.heard + Len(Told(x))) + 1
      BY <1>3, <1>5, <1>7
    <3> QED
      BY <2>1, <3>1
  <2> QED
    BY <1>1, <1>6, <2>2, <2>3
<1>10. \A k \in DOMAIN z.out : z.out[k].kind = "bad" => z.out[k] = BadReply /\ z.closing
  <2> SUFFICES ASSUME NEW k \in DOMAIN z.out, z.out[k].kind = "bad"
               PROVE  z.out[k] = BadReply /\ z.closing
    OBVIOUS
  <2>1. (k \in DOMAIN x.out /\ z.out[k] = x.out[k]) \/ z.out[k] = r
    BY <1>1, <1>2, <1>5
  <2>2. k \in DOMAIN x.out /\ z.out[k] = x.out[k]
    BY <1>5, <2>1
  <2>3. x.out[k] = BadReply /\ x.closing
    BY <2>2 DEF Order
  <2> QED
    BY <1>1, <2>2, <2>3
<1> QED
  BY <1>1, <1>3, <1>8, <1>9, <1>10 DEF Order

\* An answer that shows a commit that was made keeps Sent.
LEMMA RepliedSent ==
  ASSUME NEW x \in Conn, NEW z \in Conn, NEW kind \in {"done", "commit", "rows", "error"},
         NEW seq \in Nat, NEW e \in Eng, NEW f \in Eng, Sent(x, e),
         Replied(x, z, kind, seq),
         e.last <= f.last, e.durable <= f.durable,
         seq <= f.last, kind = "commit" => seq <= f.durable
  PROVE  Sent(z, f)
<1>1. x.out \in Seq(Rep) /\ z.out = Append(x.out, Answer(x, kind, seq))
  BY ConnParts DEF Replied
<1>2. /\ Answer(x, kind, seq).kind = kind /\ Answer(x, kind, seq).seq = seq
  BY DEF Answer
<1> SUFFICES ASSUME NEW k \in DOMAIN z.out
             PROVE  /\ z.out[k].seq <= f.last
                    /\ z.out[k].kind = "commit" => z.out[k].seq <= f.durable
  BY DEF Sent
<1>3. (k \in DOMAIN x.out /\ z.out[k] = x.out[k]) \/ z.out[k] = Answer(x, kind, seq)
  BY <1>1
<1>4. CASE k \in DOMAIN x.out /\ z.out[k] = x.out[k]
  <2>1. x.out[k] \in Rep
    BY <1>1, <1>4
  <2>2. x.out[k].seq \in Nat
    BY <2>1 DEF Rep
  <2>3. x.out[k].seq <= e.last /\ (x.out[k].kind = "commit" => x.out[k].seq <= e.durable)
    BY <1>4 DEF Sent
  <2>4. {e.last, f.last, e.durable, f.durable} \subseteq Nat
    BY EngParts
  <2> QED
    BY <1>4, <2>2, <2>3, <2>4
<1>5. CASE z.out[k] = Answer(x, kind, seq)
  BY <1>2, <1>5
<1> QED
  BY <1>3, <1>4, <1>5

---------------------------------------------------------------------------
(* Steps that change one connection.                                       *)

\* A connection that a step leaves alone still fits.
LEMMA Untouched ==
  ASSUME Sound, NEW d \in Conns, conn'[d] = conn[d], eng' \in Eng,
         eng.last <= eng'.last, eng.durable <= eng'.durable,
         eng.by = d => eng'.n = eng.n /\ eng'.marks = eng.marks,
         writer' = d <=> writer = d, d \in Range(fifo') => d \in Range(fifo),
         Grouped(d, conn[d], group')
  PROVE  Fit(d)'
<1> DEFINE x == conn[d]
<1>1. x \in Conn /\ eng \in Eng
  BY DEF Sound, Types
<1>2. Fits(d, x, writer, fifo, group, eng) /\ writer = eng.by
  BY DEF Sound, Fit, Engine
<1> HIDE DEF x
<1>3. /\ x.snap \in Nat /\ x.own \in Nat /\ x.out \in Seq(Rep)
      /\ {eng.last, eng.durable, eng'.last, eng'.durable} \subseteq Nat
  BY <1>1, ConnParts, EngParts
<1>4. Order(x) /\ Sees(x, eng')
  BY <1>2, <1>3 DEF Fits, Sees
<1>5. Sent(x, eng')
  <2> SUFFICES ASSUME NEW k \in DOMAIN x.out
               PROVE  /\ x.out[k].seq <= eng'.last
                      /\ x.out[k].kind = "commit" => x.out[k].seq <= eng'.durable
    BY DEF Sent
  <2>1. x.out[k] \in Rep
    BY <1>3
  <2>2. x.out[k].seq \in Nat
    BY <2>1 DEF Rep
  <2>3. x.out[k].seq <= eng.last /\ (x.out[k].kind = "commit" => x.out[k].seq <= eng.durable)
    BY <1>2 DEF Fits, Sent
  <2> QED
    BY <1>3, <2>2, <2>3
<1>6. Agrees(x, eng')
  BY <1>2 DEF Fits, Agrees
<1>7. (writer' = d <=> x.tx = "write") /\ (d \in Range(fifo') => Parked(x))
  BY <1>2 DEF Fits
<1>8. Fits(d, x, writer', fifo', group', eng')
  BY <1>4, <1>5, <1>6, <1>7 DEF Fits, x
<1> QED
  BY <1>8 DEF Fit, x

\* What Unblocked says of the record of c.
LEMMA UnblockedParts ==
  ASSUME Sound, NEW c \in Conns, Unblocked(c)
  PROVE  /\ conn[c] \in Conn /\ conn[c].up = "in" /\ ~conn[c].dead /\ conn[c].q # <<>>
         /\ ~conn[c].closing /\ conn[c].work = "no" /\ ~conn[c].awaiting
         /\ Order(conn[c]) /\ Sent(conn[c], eng) /\ Sees(conn[c], eng) /\ Agrees(conn[c], eng)
         /\ writer = c <=> conn[c].tx = "write"
         /\ \A k \in DOMAIN group : group[k].c # c
         /\ c \in Range(fifo) =>
               /\ conn[c].hello /\ conn[c].tx = "none"
               /\ Head(conn[c].q).kind \in {"begin_write", "write", "write_rows"}
<1>1. conn[c] \in Conn
  BY DEF Sound, Types
<1>2. Fits(c, conn[c], writer, fifo, group, eng)
  BY DEF Sound, Fit
<1>3. /\ conn[c].up = "in" /\ ~conn[c].dead /\ conn[c].q # <<>>
      /\ ~conn[c].closing /\ conn[c].work = "no" /\ ~conn[c].awaiting
  BY DEF Unblocked, Live
<1> QED
  BY <1>1, <1>2, <1>3 DEF Fits, Grouped, Parked

\* The engine and the slot after a step of c.
EngineMoves(c) ==
    /\ eng' \in Eng /\ eng.last <= eng'.last /\ eng.durable <= eng'.durable
    /\ eng'.durable <= eng'.last
    /\ writer' = eng'.by /\ (eng'.by = None => eng'.n = 0 /\ eng'.marks = <<>>)
    /\ \A d \in Conns : d # c => /\ eng'.by = d <=> eng.by = d
                                 /\ eng.by = d => eng'.n = eng.n /\ eng'.marks = eng.marks

\* The queue after a step of c, which leaves it.
Leaves(c) ==
    /\ fifo' \in Seq(Conns) /\ IsInjective(fifo') /\ Range(fifo') = Range(fifo) \ {c}

\* The record of c becomes x, and what else changes is c's.
LEMMA ConnStep ==
  ASSUME Sound, NEW c \in Conns, NEW x \in Conn,
         conn' = [conn EXCEPT ![c] = x], EngineMoves(c),
         fifo' \in Seq(Conns), IsInjective(fifo'), Range(fifo') \subseteq Range(fifo),
         c \in Range(fifo') => Parked(x),
         phase' \in Phases, slices' \subseteq Conns, busy' \in BOOLEAN, woke' \in BOOLEAN, told' = told,
         group' \in Seq(Grp),
         \A k \in DOMAIN group' : 1 <= group'[k].seq /\ group'[k].seq <= eng'.last,
         \A d \in Conns : d # c => Grouped(d, conn[d], group'),
         Order(x), Sent(x, eng'), Sees(x, eng'), Agrees(x, eng'), Grouped(c, x, group'),
         writer' = c <=> x.tx = "write"
  PROVE  Sound'
<1>1. conn \in [Conns -> Conn] /\ eng \in Eng /\ writer = eng.by
  BY DEF Sound, Types, Engine
<1>2. conn'[c] = x /\ \A d \in Conns : d # c => conn'[d] = conn[d]
  BY <1>1
<1>3. told \in [done : Nat, rows : Nat]
  BY DEF Sound, Types
<1>4. Types'
  <2>1. conn' \in [Conns -> Conn]
    BY <1>1
  <2>2. writer' \in Conns \cup {None}
    BY EngParts DEF EngineMoves
  <2> QED
    BY <1>3, <2>1, <2>2 DEF Types, EngineMoves
<1>5. Engine'
  <2>1. told.done <= eng.durable /\ told.rows <= eng.last
    BY DEF Sound, Engine
  <2>2. told.done \in Nat /\ told.rows \in Nat
    BY <1>3
  <2>3. {eng.last, eng.durable, eng'.last, eng'.durable} \subseteq Nat
    BY <1>1, EngParts DEF EngineMoves
  <2>4. told'.done <= eng'.durable /\ told'.rows <= eng'.last
    BY <2>1, <2>2, <2>3 DEF EngineMoves
  <2> QED
    BY <2>4 DEF Engine, EngineMoves
<1>6. ASSUME NEW d \in Conns PROVE Fit(d)'
  <2>1. CASE d = c
    <3>1. Fits(c, x, writer', fifo', group', eng')
      BY DEF Fits
    <3> QED
      BY <1>2, <2>1, <3>1 DEF Fit
  <2>2. CASE d # c
    <3>1. d \in Range(fifo') => d \in Range(fifo)
      OBVIOUS
    <3>2. writer' = d <=> writer = d
      BY <1>1, <2>2 DEF EngineMoves
    <3>3. eng.by = d => eng'.n = eng.n /\ eng'.marks = eng.marks
      BY <2>2 DEF EngineMoves
    <3>4. Grouped(d, conn[d], group')
      BY <2>2
    <3> QED
      BY <1>2, <2>2, <3>1, <3>2, <3>3, <3>4, Untouched DEF EngineMoves
  <2> QED
    BY <2>1, <2>2
<1> QED
  BY <1>4, <1>5, <1>6 DEF Sound

\* The request of c is answered or withheld, and c's record becomes x.
LEMMA RequestStep ==
  ASSUME Sound, phase = "process", NEW c \in Conns, NEW x \in Conn,
         conn' = [conn EXCEPT ![c] = x], EngineMoves(c), Leaves(c),
         UNCHANGED loop, group' \in Seq(Grp),
         \A k \in DOMAIN group' : 1 <= group'[k].seq /\ group'[k].seq <= eng'.last,
         \A d \in Conns : d # c => Grouped(d, conn[d], group'),
         Order(x), Sent(x, eng'), Sees(x, eng'), Agrees(x, eng'), Grouped(c, x, group'),
         writer' = c <=> x.tx = "write"
  PROVE  IInv'
<1>1. phase' = phase /\ slices' = slices /\ busy' = busy /\ woke' = woke /\ told' = told
  BY DEF loop
<1>2. /\ phase' \in Phases /\ slices' \subseteq Conns /\ busy' \in BOOLEAN /\ woke' \in BOOLEAN
  BY <1>1 DEF Sound, Types
<1>3. /\ fifo' \in Seq(Conns) /\ IsInjective(fifo') /\ Range(fifo') \subseteq Range(fifo)
      /\ c \in Range(fifo') => Parked(x)
  BY DEF Leaves
<1>4. Sound'
  BY <1>1, <1>2, <1>3, ConnStep
<1>5. Turning'
  BY <1>1 DEF Turning
<1> QED
  BY <1>4, <1>5 DEF IInv

\* The head request of c is answered, and the group is left alone.
LEMMA AnswerStep ==
  ASSUME Sound, phase = "process", NEW c \in Conns, Unblocked(c), NEW x \in Conn,
         conn' = [conn EXCEPT ![c] = x], EngineMoves(c), Leaves(c), UNCHANGED <<group, loop>>,
         NEW kind \in {"done", "commit", "rows", "error"}, NEW seq \in Nat,
         Replied(conn[c], x, kind, seq), seq <= eng'.last, kind = "commit" => seq <= eng'.durable,
         Sees(x, eng'), Agrees(x, eng'), writer' = c <=> x.tx = "write"
  PROVE  IInv'
<1>1. /\ conn[c] \in Conn /\ conn[c].up = "in" /\ ~conn[c].dead /\ conn[c].q # <<>>
      /\ ~conn[c].closing /\ ~conn[c].awaiting
      /\ Order(conn[c]) /\ Sent(conn[c], eng)
      /\ \A k \in DOMAIN group : group[k].c # c
  BY UnblockedParts
<1>2. Order(x)
  BY <1>1, RepliedOrder
<1>3. eng \in Eng /\ eng' \in Eng /\ eng.last <= eng'.last /\ eng.durable <= eng'.durable
  BY DEF Sound, Types, EngineMoves
<1>4. Sent(x, eng')
  BY <1>1, <1>3, RepliedSent
<1>5. group' = group
  OBVIOUS
<1>6. Grouped(c, x, group')
  BY <1>1, <1>5 DEF Grouped, Replied
<1>7. ASSUME NEW d \in Conns PROVE Grouped(d, conn[d], group')
  BY <1>5 DEF Sound, Fit, Fits
<1>8. group' \in Seq(Grp)
  BY <1>5 DEF Sound, Types
<1>9. \A k \in DOMAIN group' : 1 <= group'[k].seq /\ group'[k].seq <= eng'.last
  <2> SUFFICES ASSUME NEW k \in DOMAIN group PROVE 1 <= group[k].seq /\ group[k].seq <= eng'.last
    BY <1>5
  <2>1. 1 <= group[k].seq /\ group[k].seq <= eng.last
    BY DEF Sound, Engine
  <2>2. group[k] \in Grp
    BY DEF Sound, Types
  <2>3. group[k].seq \in Nat /\ eng.last \in Nat /\ eng'.last \in Nat
    BY <1>3, <2>2, EngParts DEF Grp
  <2> QED
    BY <1>3, <2>1, <2>3
<1> QED
  BY <1>2, <1>4, <1>6, <1>7, <1>8, <1>9, RequestStep DEF loop

\* y is x, but for what it holds open.
SameTalk(x, y) ==
    /\ y.q = x.q /\ y.out = x.out /\ y.up = x.up /\ y.dead = x.dead /\ y.closing = x.closing
    /\ y.awaiting = x.awaiting /\ y.sent = x.sent /\ y.heard = x.heard

\* The answer to the head request of x, from a record y made of x.
LEMMA AnsweredOf ==
  ASSUME NEW x \in Conn, NEW y \in Conn, SameTalk(x, y), x.q # <<>>, y.work = "no",
         NEW kind \in {"done", "commit", "rows", "error"}, NEW seq \in Nat,
         NEW z, z = Answered(y, kind, seq)
  PROVE  /\ z \in Conn /\ Replied(x, z, kind, seq)
         /\ z.tx = y.tx /\ z.depth = y.depth /\ z.said = y.said /\ z.snap = y.snap
         /\ z.own = y.own \/ z.own = 0
         /\ z.closing = y.closing /\ z.hello = y.hello
<1>1. y.q = x.q /\ y.out = x.out
  BY DEF SameTalk
<1>2. /\ z \in Conn /\ SameRest(y, z)
      /\ z.q = Tail(y.q) /\ z.out = Append(y.out, Answer(y, kind, seq))
      /\ z.own = IF "own" \in y.curs THEN y.own ELSE 0
  BY <1>1, AnsweredParts
<1>3. Answer(y, kind, seq) = Answer(x, kind, seq)
  BY <1>1 DEF Answer
<1>4. Replied(x, z, kind, seq)
  BY <1>1, <1>2, <1>3 DEF Replied, SameRest, SameTalk
<1> QED
  BY <1>2, <1>4 DEF SameRest

\* The engine with no write transaction.
LEMMA EngEmptied ==
  ASSUME NEW e \in Eng, NEW f, f = [e EXCEPT !.by = None, !.n = 0, !.marks = <<>>]
  PROVE  /\ f \in Eng /\ f.by = None /\ f.n = 0 /\ f.marks = <<>>
         /\ f.last = e.last /\ f.durable = e.durable /\ f.failed = e.failed
<1>1. ASSUME NEW s \in Seq(Nat), NEW g, g = [e EXCEPT !.by = None, !.n = 0, !.marks = s]
      PROVE  /\ g \in Eng /\ g.by = None /\ g.n = 0 /\ g.marks = s
             /\ g.last = e.last /\ g.durable = e.durable /\ g.failed = e.failed
  BY <1>1 DEF Eng
<1>2. <<>> \in Seq(Nat)
  OBVIOUS
<1> QED
  BY <1>1, <1>2

\* x with what it holds open replaced.
Edited(x, tx, depth, said, snap, own, work, curs) ==
    [x EXCEPT !.tx = tx, !.depth = depth, !.said = said, !.snap = snap, !.own = own,
              !.work = work, !.curs = curs]

\* The parts of an edited record.
LEMMA EditedParts ==
  ASSUME NEW x \in Conn, NEW tx \in Txs,
         NEW depth \in Nat, NEW said \in Seq(Nat), NEW snap \in Nat, NEW own \in Nat,
         NEW work \in Works, NEW curs \in Cursors,
         NEW y, y = Edited(x, tx, depth, said, snap, own, work, curs)
  PROVE  /\ y \in Conn /\ SameTalk(x, y) /\ y.tx = tx /\ y.depth = depth /\ y.said = said
         /\ y.snap = snap /\ y.own = own /\ y.work = work /\ y.curs = curs
         /\ y.hello = x.hello /\ y.committed = x.committed
<1>1. y \in Conn
  BY DEF Edited, Conn
<1> QED
  BY <1>1 DEF Edited, Conn, SameTalk

\* The record of a transaction that ends.
LEMMA EndedParts ==
  ASSUME NEW x \in Conn, NEW tx \in {"none", "failed", "timed_out"}, NEW y, y = Ended(x, tx)
  PROVE  /\ y \in Conn /\ SameTalk(x, y) /\ y.work = x.work /\ y.tx = tx
         /\ (tx # "failed" => y.depth = 0) /\ y.snap = 0 /\ y.own = x.own
         /\ y.curs = x.curs \ {"txn"} /\ y.hello = x.hello
<1> DEFINE m == IF tx = "failed" THEN x.depth ELSE 0
           l == x.curs \ {"txn"}
           t == <<>>
<1>1. t \in Seq(Nat) /\ m \in Nat /\ l \in Cursors
  BY ConnParts DEF Cursors
<1>2. x.own \in Nat /\ x.work \in Works /\ 0 \in Nat
  BY ConnParts
<1>3. y = Edited(x, tx, m, t, 0, x.own, x.work, l)
  BY DEF Ended, Edited, Conn
<1>4. tx # "failed" => m = 0
  OBVIOUS
<1> HIDE DEF m, l, t
<1>5. /\ y \in Conn /\ SameTalk(x, y) /\ y.work = x.work /\ y.tx = tx
      /\ y.depth = m /\ y.snap = 0 /\ y.own = x.own /\ y.curs = l /\ y.hello = x.hello
  <2>1. tx \in Txs
    BY DEF Txs
  <2>2. PICK s \in Nat, o \in Nat, k \in Works : s = 0 /\ o = x.own /\ k = x.work
    BY <1>2
  <2>3. y = Edited(x, tx, m, t, s, o, k, l)
    BY <1>3, <2>2
  <2>4. y \in Conn /\ SameTalk(x, y)
    BY <1>1, <2>1, <2>3, EditedParts
  <2>7. y.work = k /\ y.tx = tx
    BY <1>1, <2>1, <2>3, EditedParts
  <2>5. y.depth = m /\ y.snap = s /\ y.own = o
    BY <1>1, <2>1, <2>3, EditedParts
  <2>6. y.curs = l /\ y.hello = x.hello
    BY <1>1, <2>1, <2>3, EditedParts
  <2> QED
    BY <2>2, <2>4, <2>5, <2>6, <2>7
<1> QED
  BY <1>4, <1>5 DEF l

\* The engine and the slot are left alone.
LEMMA EngineStays ==
  ASSUME Sound, NEW c \in Conns, UNCHANGED <<writer, eng>>
  PROVE  EngineMoves(c)
<1>1. eng' = eng /\ writer' = writer
  OBVIOUS
<1>2. eng \in Eng /\ Engine
  BY DEF Sound, Types
<1>3. eng.last \in Nat /\ eng.durable \in Nat
  BY <1>2, EngParts
<1> QED
  BY <1>1, <1>2, <1>3 DEF EngineMoves, Engine

\* The engine's write transaction, if it is c's, is aborted.
LEMMA EngineAborts ==
  ASSUME Sound, NEW c \in Conns, eng' = Aborted(eng, c), Released(c)
  PROVE  /\ EngineMoves(c) /\ writer' # c
         /\ eng'.last = eng.last /\ eng'.durable = eng.durable
<1>1. /\ eng \in Eng /\ writer = eng.by /\ eng.durable <= eng.last
      /\ (eng.by = None => eng.n = 0 /\ eng.marks = <<>>)
  BY DEF Sound, Types, Engine
<1>2. eng.last \in Nat /\ eng.durable \in Nat
  BY <1>1, EngParts
<1>3. c # None
  BY OwnerAssumption
<1>4. CASE eng.by = c
  <2>1. eng' = [eng EXCEPT !.by = None, !.n = 0, !.marks = <<>>] /\ writer' = None
    BY <1>1, <1>4 DEF Aborted, Released
  <2>2. /\ eng' \in Eng /\ eng'.by = None /\ eng'.n = 0 /\ eng'.marks = <<>>
        /\ eng'.last = eng.last /\ eng'.durable = eng.durable
    BY <1>1, <2>1, EngEmptied
  <2>3. \A d \in Conns : d # c => eng'.by # d /\ eng.by # d
    BY <1>4, <2>2, OwnerAssumption
  <2> QED
    BY <1>1, <1>2, <1>3, <2>1, <2>2, <2>3 DEF EngineMoves
<1>5. CASE eng.by # c
  <2>1. eng' = eng /\ writer' = writer
    BY <1>1, <1>5 DEF Aborted, Released
  <2>2. EngineMoves(c)
    BY <2>1, EngineStays
  <2> QED
    BY <1>1, <1>5, <2>1, <2>2
<1> QED
  BY <1>4, <1>5

\* The engine with other contents and savepoints.
Rewritten(e, m, s) == [e EXCEPT !.n = m, !.marks = s]

\* The contents and the savepoints of c's write transaction change.
LEMMA EngineWrites ==
  ASSUME Sound, NEW c \in Conns, writer = c, NEW m \in Nat, NEW s \in Seq(Nat),
         eng' = Rewritten(eng, m, s), writer' = writer
  PROVE  /\ EngineMoves(c) /\ eng'.n = m /\ eng'.marks = s
         /\ eng'.last = eng.last /\ eng'.durable = eng.durable
<1>1. eng \in Eng /\ writer = eng.by /\ eng.durable <= eng.last
  BY DEF Sound, Types, Engine
<1>2. eng.last \in Nat /\ eng.durable \in Nat
  BY <1>1, EngParts
<1>3. c # None
  BY OwnerAssumption
<1>4. /\ eng' \in Eng /\ eng'.by = eng.by /\ eng'.n = m /\ eng'.marks = s
      /\ eng'.last = eng.last /\ eng'.durable = eng.durable
  BY <1>1 DEF Eng, Rewritten
<1> QED
  BY <1>1, <1>2, <1>3, <1>4 DEF EngineMoves

\* c is not in the queue, which is left alone.
LEMMA QueueStays ==
  ASSUME Sound, NEW c \in Conns, c \notin Range(fifo), fifo' = fifo
  PROVE  Leaves(c)
  BY DEF Sound, Types, Leaves

\* What Dropped leaves of a list with no element twice has none twice.
LEMMA DroppedOnce ==
  ASSUME NEW S, NEW s \in Seq(S), NEW X, IsInjective(s)
  PROVE  /\ Dropped(s, X) \in Seq(S) /\ IsInjective(Dropped(s, X))
         /\ Range(Dropped(s, X)) = Range(s) \ X
<1> DEFINE r == Dropped(s, X)
<1>1. r \in Seq(S) /\ \E g : Embeds(g, r, s, X)
  BY DroppedEmbeds
<1>2. ToSet(r) = ToSet(s) \ X
  BY DroppedSet
<1> HIDE DEF r
<1>3. PICK g : Embeds(g, r, s, X)
  BY <1>1
<1>4. DOMAIN r = 1 .. Len(r) /\ DOMAIN s = 1 .. Len(s) /\ Len(r) \in Nat /\ Len(s) \in Nat
  BY <1>1
<1>5. ASSUME NEW j \in DOMAIN r, NEW k \in DOMAIN r, r[j] = r[k] PROVE j = k
  <2>1. /\ g[j] \in DOMAIN s /\ g[k] \in DOMAIN s /\ s[g[j]] = s[g[k]]
        /\ (j < k => g[j] < g[k]) /\ (k < j => g[k] < g[j])
    BY <1>3, <1>4, <1>5 DEF Embeds
  <2>2. g[j] = g[k]
    BY <2>1 DEF IsInjective
  <2>3. g[j] \in Nat /\ j \in Nat /\ k \in Nat
    BY <1>4, <2>1
  <2> QED
    BY <2>1, <2>2, <2>3
<1>6. IsInjective(r)
  BY <1>5 DEF IsInjective
<1>7. Range(r) = Range(s) \ X
  BY <1>2 DEF ToSet, Range
<1> QED
  BY <1>1, <1>6, <1>7 DEF r

\* c leaves the queue.
LEMMA QueueLeft ==
  ASSUME Sound, NEW c \in Conns, fifo' = Dropped(fifo, {c})
  PROVE  Leaves(c)
<1>1. fifo \in Seq(Conns) /\ IsInjective(fifo)
  BY DEF Sound, Types
<1> QED
  BY <1>1, DroppedOnce DEF Leaves

\* The head request of c is answered, and only c's record changes.
LEMMA OnlyStep ==
  ASSUME Sound, phase = "process", NEW c \in Conns, Unblocked(c), NEW x \in Conn,
         Only(c, x), Leaves(c), UNCHANGED <<group, loop>>,
         NEW kind \in {"done", "rows", "error"}, NEW seq \in Nat,
         Replied(conn[c], x, kind, seq), seq <= eng.last,
         x.snap <= eng.durable, x.own <= eng.durable,
         \/ x.tx = conn[c].tx /\ x.depth = conn[c].depth /\ x.said = conn[c].said
         \/ x.tx \notin {"write", "none"} /\ conn[c].tx # "write"
  PROVE  IInv'
<1>1. conn' = [conn EXCEPT ![c] = x] /\ UNCHANGED <<writer, eng>>
  BY DEF Only, Set
<1>2. EngineMoves(c)
  BY <1>1, EngineStays
<1>3. eng' = eng /\ writer' = writer
  BY <1>1
<1>4. Agrees(conn[c], eng) /\ (writer = c <=> conn[c].tx = "write")
  BY UnblockedParts
<1>5. Sees(x, eng')
  BY <1>3 DEF Sees
<1>6. Agrees(x, eng')
  BY <1>3, <1>4 DEF Agrees
<1>7. writer' = c <=> x.tx = "write"
  BY <1>3, <1>4
<1>8. kind # "commit" /\ kind \in {"done", "commit", "rows", "error"} /\ seq <= eng'.last
  BY <1>3
<1> QED
  BY <1>1, <1>2, <1>5, <1>6, <1>7, <1>8, AnswerStep

\* A request is answered with an error, and nothing else changes.
LEMMA RefuseStep ==
  ASSUME Sound, phase = "process", NEW c \in Conns, Unblocked(c), Refuse(c), Leaves(c),
         UNCHANGED <<group, loop>>
  PROVE  IInv'
<1> DEFINE z == Answered(conn[c], "error", 0)
<1>1. /\ conn[c] \in Conn /\ conn[c].q # <<>> /\ conn[c].work = "no" /\ Sees(conn[c], eng)
  BY UnblockedParts
<1>2. SameTalk(conn[c], conn[c])
  BY DEF SameTalk
<1>3. /\ z \in Conn /\ Replied(conn[c], z, "error", 0)
      /\ z.tx = conn[c].tx /\ z.depth = conn[c].depth /\ z.said = conn[c].said
      /\ z.snap = conn[c].snap /\ (z.own = conn[c].own \/ z.own = 0)
  BY <1>1, <1>2, AnsweredOf
<1>4. Only(c, z)
  BY DEF Refuse
<1> HIDE DEF z
<1>5. 0 <= eng.last /\ 0 <= eng.durable
  BY EngParts DEF Sound, Types
<1>6. z.snap <= eng.durable /\ z.own <= eng.durable
  BY <1>1, <1>3, <1>5 DEF Sees
<1> QED
  BY <1>3, <1>4, <1>5, <1>6, OnlyStep

\* The transaction of c ends or fails with the answer to its head request.
LEMMA EndTxnStep ==
  ASSUME Sound, phase = "process", NEW c \in Conns, Unblocked(c), c \notin Range(fifo),
         NEW tx \in {"none", "failed"}, NEW kind \in {"done", "error"},
         EndTxn(c, tx, kind), UNCHANGED <<fifo, group, loop>>
  PROVE  IInv'
<1> DEFINE y == Ended(conn[c], tx)
           z == Answered(y, kind, 0)
<1>1. conn[c] \in Conn /\ conn[c].q # <<>> /\ conn[c].work = "no" /\ Sees(conn[c], eng)
  BY UnblockedParts
<1>2. /\ y \in Conn /\ SameTalk(conn[c], y) /\ y.work = "no" /\ y.tx = tx
      /\ (tx # "failed" => y.depth = 0) /\ y.snap = 0 /\ y.own = conn[c].own
  BY <1>1, EndedParts
<1> HIDE DEF y
<1>3. /\ z \in Conn /\ Replied(conn[c], z, kind, 0)
      /\ z.tx = y.tx /\ z.depth = y.depth /\ z.snap = y.snap /\ (z.own = y.own \/ z.own = 0)
  BY <1>1, <1>2, AnsweredOf
<1>4. conn' = [conn EXCEPT ![c] = z] /\ eng' = Aborted(eng, c) /\ Released(c)
  BY DEF EndTxn, Set, y
<1> HIDE DEF z
<1>5. EngineMoves(c) /\ writer' # c /\ eng'.last = eng.last /\ eng'.durable = eng.durable
  BY <1>4, EngineAborts
<1>6. 0 <= eng.last /\ 0 <= eng.durable
  BY EngParts DEF Sound, Types
<1>7. Sees(z, eng')
  BY <1>1, <1>2, <1>3, <1>5, <1>6 DEF Sees
<1>8. Agrees(z, eng') /\ (writer' = c <=> z.tx = "write")
  BY <1>2, <1>3, <1>5 DEF Agrees
<1>9. Leaves(c)
  BY QueueStays
<1>10. kind # "commit" /\ kind \in {"done", "commit", "rows", "error"} /\ 0 <= eng'.last
  BY <1>5, <1>6
<1> QED
  BY <1>3, <1>4, <1>5, <1>7, <1>8, <1>9, <1>10, AnswerStep

\* The head request of c is answered, and only what c holds open changes, to y.
LEMMA EditStep ==
  ASSUME Sound, phase = "process", NEW c \in Conns, Unblocked(c), Leaves(c),
         UNCHANGED <<group, loop>>, NEW y \in Conn, SameTalk(conn[c], y), y.work = "no",
         NEW kind \in {"done", "rows", "error"}, NEW seq \in Nat,
         seq <= eng.last, y.snap <= eng.durable, y.own <= eng.durable,
         \/ y.tx = conn[c].tx /\ y.depth = conn[c].depth /\ y.said = conn[c].said
         \/ y.tx \notin {"write", "none"} /\ conn[c].tx # "write",
         Only(c, Answered(y, kind, seq))
  PROVE  IInv'
<1>1. conn[c] \in Conn /\ conn[c].q # <<>>
  BY UnblockedParts
<1>2. kind \in {"done", "commit", "rows", "error"}
  OBVIOUS
<1>3. PICK z : z = Answered(y, kind, seq)
  OBVIOUS
<1>4. /\ z \in Conn /\ Replied(conn[c], z, kind, seq)
      /\ z.tx = y.tx /\ z.depth = y.depth /\ z.said = y.said /\ z.snap = y.snap
      /\ z.own = y.own \/ z.own = 0
  BY <1>1, <1>2, <1>3, AnsweredOf
<1>5. Only(c, z)
  BY <1>3
<1>6. eng.durable \in Nat
  BY EngParts DEF Sound, Types
<1>7. z.snap <= eng.durable /\ z.own <= eng.durable
  BY <1>4, <1>6
<1>8. \/ z.tx = conn[c].tx /\ z.depth = conn[c].depth /\ z.said = conn[c].said
      \/ z.tx \notin {"write", "none"} /\ conn[c].tx # "write"
  BY <1>4
<1> QED
  BY <1>4, <1>5, <1>7, <1>8, OnlyStep

\* The record of x with other cursors.
WithCursors(x, curs, own) == [x EXCEPT !.curs = curs, !.own = own]

\* The parts of a record with other cursors.
LEMMA CursParts ==
  ASSUME NEW x \in Conn, NEW curs \in Cursors, NEW own \in Nat,
         NEW y, y = WithCursors(x, curs, own)
  PROVE  /\ y \in Conn /\ SameTalk(x, y) /\ y.work = x.work /\ y.tx = x.tx /\ y.depth = x.depth
         /\ y.said = x.said /\ y.snap = x.snap /\ y.own = own /\ y.curs = curs
<1>1. y \in Conn
  BY DEF Conn, WithCursors
<1> QED
  BY <1>1 DEF Conn, SameTalk, WithCursors

\* The head request of c is answered, and only c's cursors change.
LEMMA CursorStep ==
  ASSUME Sound, phase = "process", NEW c \in Conns, Unblocked(c), Leaves(c),
         UNCHANGED <<group, loop>>, NEW curs \in Cursors, NEW own \in Nat,
         NEW y, y = WithCursors(conn[c], curs, own),
         NEW kind \in {"done", "rows", "error"}, NEW seq \in Nat,
         seq <= eng.last, own <= eng.durable, Only(c, Answered(y, kind, seq))
  PROVE  IInv'
<1>1. conn[c] \in Conn /\ conn[c].work = "no" /\ conn[c].snap <= eng.durable
  BY UnblockedParts DEF Sees
<1>2. /\ y \in Conn /\ SameTalk(conn[c], y) /\ y.work = conn[c].work
      /\ y.tx = conn[c].tx /\ y.depth = conn[c].depth
      /\ y.said = conn[c].said /\ y.snap = conn[c].snap /\ y.own = own
  BY <1>1, CursParts
<1>3. y.work = "no" /\ y.snap <= eng.durable /\ y.own <= eng.durable
  BY <1>1, <1>2
<1> QED
  BY <1>2, <1>3, EditStep

\* The head request of c is answered, and nothing else changes.
LEMMA PlainStep ==
  ASSUME Sound, phase = "process", NEW c \in Conns, Unblocked(c), Leaves(c),
         UNCHANGED <<group, loop>>, NEW kind \in {"done", "rows", "error"}, NEW seq \in Nat,
         seq <= eng.last, Only(c, Answered(conn[c], kind, seq))
  PROVE  IInv'
<1>1. PICK y : y = conn[c]
  OBVIOUS
<1>2. y \in Conn /\ y.work = "no" /\ y.snap <= eng.durable /\ y.own <= eng.durable
  BY <1>1, UnblockedParts DEF Sees
<1>3. SameTalk(conn[c], y) /\ Only(c, Answered(y, kind, seq))
  BY <1>1 DEF SameTalk
<1>4. y.tx = conn[c].tx /\ y.depth = conn[c].depth /\ y.said = conn[c].said
  BY <1>1
<1> QED
  BY <1>2, <1>3, <1>4, EditStep

\* What Handle says.
LEMMA HandleParts ==
  ASSUME Sound, NEW c \in Conns, NEW kinds, Handle(c, kinds)
  PROVE  /\ phase = "process" /\ Unblocked(c) /\ conn[c].hello
         /\ Head(conn[c].q).kind \in kinds
  BY DEF Handle, Ready

\* A request that needs no slot, or that is part of a transaction, is not parked.
LEMMA NotParked ==
  ASSUME Sound, NEW c \in Conns, Unblocked(c), fifo' = fifo,
         \/ Head(conn[c].q).kind \notin {"begin_write", "write", "write_rows"}
         \/ conn[c].tx # "none" \/ ~conn[c].hello
  PROVE  c \notin Range(fifo) /\ Leaves(c)
<1>1. c \notin Range(fifo)
  BY UnblockedParts
<1> QED
  BY <1>1, QueueStays

\* Ping keeps the invariant.
LEMMA PingStep ==
  ASSUME Sound, NEW c \in Conns, Ping(c)
  PROVE  IInv'
<1>1. /\ Handle(c, {"ping", "cancel"}) /\ Only(c, Answered(conn[c], "done", 0))
      /\ UNCHANGED <<fifo, group, loop>>
  BY DEF Ping
<1>2. /\ phase = "process" /\ Unblocked(c)
      /\ Head(conn[c].q).kind \notin {"begin_write", "write", "write_rows"}
  BY <1>1, HandleParts
<1>3. Leaves(c)
  BY <1>1, <1>2, NotParked
<1>4. 0 <= eng.last
  BY EngParts DEF Sound, Types
<1> QED
  BY <1>1, <1>2, <1>3, <1>4, PlainStep

\* The newest commit that a statement of c shows was made.
LEMMA ShownMade ==
  ASSUME Sound, NEW c \in Conns
  PROVE  /\ Shown(c) \in Nat /\ Shown(c) <= eng.last /\ eng.durable \in Nat
         /\ eng.durable <= eng.last /\ conn[c].own \in Nat /\ conn[c].own <= eng.durable
         /\ conn[c].own <= eng.last
<1>1. conn[c] \in Conn /\ Sees(conn[c], eng) /\ eng \in Eng /\ eng.durable <= eng.last
  BY DEF Sound, Types, Engine, Fit, Fits
<1>2. eng.last \in Nat /\ eng.durable \in Nat /\ conn[c].snap \in Nat /\ conn[c].own \in Nat
  BY <1>1, EngParts, ConnParts
<1>3. conn[c].snap <= eng.durable /\ conn[c].own <= eng.durable
  BY <1>1 DEF Sees
<1> QED
  BY <1>1, <1>2, <1>3 DEF Shown

\* One record of a set is the one c's becomes.
LEMMA SetInOne ==
  ASSUME NEW c \in Conns, NEW X, SetIn(c, X)
  PROVE  \E x \in X : Only(c, x)
  BY DEF SetIn, Only, Set

\* Fetch keeps the invariant.
LEMMA FetchStep ==
  ASSUME Sound, NEW c \in Conns, Fetch(c)
  PROVE  IInv'
<1>1. Handle(c, {"fetch"}) /\ UNCHANGED <<fifo, group, loop>>
  BY DEF Fetch
<1>2. /\ phase = "process" /\ Unblocked(c)
      /\ Head(conn[c].q).kind \notin {"begin_write", "write", "write_rows"}
  BY <1>1, HandleParts
<1>3. Leaves(c)
  BY <1>1, <1>2, NotParked
<1>4. CASE Refuse(c)
  BY <1>1, <1>2, <1>3, <1>4, RefuseStep
<1>5. ASSUME NEW k \in conn[c].curs, NEW seq, seq = IF k = "own" THEN conn[c].own ELSE Shown(c),
             NEW x, x = [conn[c] EXCEPT !.curs = @ \ {k}],
             SetIn(c, {Answered(conn[c], "rows", seq), Answered(x, "rows", seq), Answered(x, "error", 0)})
      PROVE  IInv'
  <2>1. /\ seq \in Nat /\ seq <= eng.last /\ conn[c].own \in Nat /\ conn[c].own <= eng.durable
        /\ 0 <= eng.last
    BY <1>5, ShownMade, EngParts DEF Sound, Types
  <2>2. conn[c] \in Conn
    BY <1>2, UnblockedParts
  <2>3. PICK own \in Nat, curs \in Cursors : own = conn[c].own /\ curs = conn[c].curs \ {k}
    BY <2>1, <2>2, ConnParts DEF Cursors
  <2>4. x = WithCursors(conn[c], curs, own)
    BY <1>5, <2>2, <2>3 DEF Conn, WithCursors
  <2>5. \/ Only(c, Answered(conn[c], "rows", seq))
        \/ Only(c, Answered(x, "rows", seq)) \/ Only(c, Answered(x, "error", 0))
    BY <1>5, SetInOne
  <2>6. CASE Only(c, Answered(conn[c], "rows", seq))
    BY <1>1, <1>2, <1>3, <2>1, <2>6, PlainStep
  <2>7. ASSUME NEW kind \in {"rows", "error"}, NEW n \in Nat, n <= eng.last,
               Only(c, Answered(x, kind, n))
        PROVE  IInv'
    <3>2. kind \in {"done", "rows", "error"} /\ own <= eng.durable
      BY <2>1, <2>3, <2>7
    <3> QED
      BY <1>1, <1>2, <1>3, <2>4, <2>7, <3>2, CursorStep
  <2> QED
    BY <2>1, <2>5, <2>6, <2>7
<1> QED
  BY <1>4, <1>5 DEF Fetch

\* Close keeps the invariant.
LEMMA CloseStep ==
  ASSUME Sound, NEW c \in Conns, Close(c)
  PROVE  IInv'
<1>1. Handle(c, {"close"}) /\ UNCHANGED <<fifo, group, loop>>
  BY DEF Close
<1>2. /\ phase = "process" /\ Unblocked(c)
      /\ Head(conn[c].q).kind \notin {"begin_write", "write", "write_rows"}
  BY <1>1, HandleParts
<1>3. Leaves(c)
  BY <1>1, <1>2, NotParked
<1>4. CASE Refuse(c)
  BY <1>1, <1>2, <1>3, <1>4, RefuseStep
<1>5. ASSUME NEW k \in conn[c].curs, NEW x, x = [conn[c] EXCEPT !.curs = @ \ {k}],
             Only(c, Answered(x, "done", 0))
      PROVE  IInv'
  <2>1. conn[c].own \in Nat /\ conn[c].own <= eng.durable /\ 0 <= eng.last
    BY ShownMade, EngParts DEF Sound, Types
  <2>2. conn[c] \in Conn
    BY <1>2, UnblockedParts
  <2>3. PICK own \in Nat, curs \in Cursors : own = conn[c].own /\ curs = conn[c].curs \ {k}
    BY <2>1, <2>2, ConnParts DEF Cursors
  <2>4. x = WithCursors(conn[c], curs, own)
    BY <1>5, <2>2, <2>3 DEF Conn, WithCursors
  <2> QED
    BY <1>1, <1>2, <1>3, <1>5, <2>1, <2>3, <2>4, CursorStep
<1> QED
  BY <1>4, <1>5 DEF Close

\* The group and its numbers, when a step leaves it alone.
LEMMA GroupStays ==
  ASSUME Sound, group' = group, eng' \in Eng, eng.last <= eng'.last
  PROVE  /\ group' \in Seq(Grp)
         /\ \A k \in DOMAIN group' : 1 <= group'[k].seq /\ group'[k].seq <= eng'.last
         /\ \A d \in Conns : Grouped(d, conn[d], group')
<1>1. ASSUME NEW d \in Conns PROVE Grouped(d, conn[d], group')
  BY DEF Sound, Fit, Fits
<1>2. group' \in Seq(Grp)
  BY DEF Sound, Types
<1>3. \A k \in DOMAIN group' : 1 <= group'[k].seq /\ group'[k].seq <= eng'.last
  <2> SUFFICES ASSUME NEW k \in DOMAIN group PROVE 1 <= group[k].seq /\ group[k].seq <= eng'.last
    OBVIOUS
  <2>1. 1 <= group[k].seq /\ group[k].seq <= eng.last
    BY DEF Sound, Engine
  <2>2. group[k] \in Grp /\ eng \in Eng
    BY DEF Sound, Types
  <2>3. group[k].seq \in Nat /\ eng.last \in Nat /\ eng'.last \in Nat
    BY <2>2, EngParts DEF Grp
  <2> QED
    BY <2>1, <2>3
<1> QED
  BY <1>1, <1>2, <1>3

\* A record that talks as x does, and works or not, is in order as x is.
LEMMA SameOrder ==
  ASSUME NEW x, NEW y, SameTalk(x, y), Order(x),
         y.work # "no" => x.q # <<>> /\ ~x.awaiting,
         y.work # "no" => x.dead \/ Done(x) = Owed(x),
         x.up = "in"
  PROVE  Order(y)
<1>1. Told(y) = Told(x) /\ Done(y) = Done(x) /\ Owed(y) = Owed(x)
  BY DEF SameTalk, Told, Done, Owed
<1> QED
  BY <1>1 DEF Order, SameTalk

\* A read of c goes on working: its request stays at the head.
LEMMA WorkBegins ==
  ASSUME Sound, phase = "process", NEW c \in Conns, Unblocked(c), Leaves(c),
         UNCHANGED <<group, loop>>, NEW y \in Conn, SameTalk(conn[c], y),
         y.snap <= eng.durable, y.own <= eng.durable,
         y.tx = conn[c].tx, y.depth = conn[c].depth, y.said = conn[c].said, Only(c, y)
  PROVE  IInv'
<1>1. /\ conn[c] \in Conn /\ conn[c].up = "in" /\ ~conn[c].dead /\ conn[c].q # <<>>
      /\ ~conn[c].closing /\ ~conn[c].awaiting
      /\ Order(conn[c]) /\ Sent(conn[c], eng) /\ Agrees(conn[c], eng)
      /\ writer = c <=> conn[c].tx = "write"
      /\ \A k \in DOMAIN group : group[k].c # c
  BY UnblockedParts
<1>2. conn' = [conn EXCEPT ![c] = y] /\ UNCHANGED <<writer, eng>>
  BY DEF Only, Set
<1>3. EngineMoves(c) /\ eng' = eng /\ writer' = writer /\ group' = group
  BY <1>2, EngineStays
<1>4. Done(conn[c]) = Owed(conn[c])
  BY <1>1 DEF Order
<1>5. Order(y)
  BY <1>1, <1>4, SameOrder
<1>6. Sent(y, eng') /\ Sees(y, eng') /\ Agrees(y, eng')
  BY <1>1, <1>3 DEF Sent, Sees, Agrees, SameTalk
<1>7. Grouped(c, y, group')
  BY <1>1, <1>3 DEF Grouped, SameTalk
<1>8. writer' = c <=> y.tx = "write"
  BY <1>1, <1>3
<1>9. /\ group' \in Seq(Grp)
      /\ \A k \in DOMAIN group' : 1 <= group'[k].seq /\ group'[k].seq <= eng'.last
      /\ \A d \in Conns : Grouped(d, conn[d], group')
  BY <1>3, GroupStays DEF EngineMoves
<1> QED
  BY <1>2, <1>3, <1>5, <1>6, <1>7, <1>8, <1>9, RequestStep DEF loop

\* Hello keeps the invariant.
LEMMA HelloStep ==
  ASSUME Sound, NEW c \in Conns, Hello(c)
  PROVE  IInv'
<1>1. phase = "process" /\ Unblocked(c) /\ ~conn[c].hello /\ UNCHANGED <<fifo, group, loop>>
  BY DEF Hello, Ready
<1>2. Leaves(c)
  BY <1>1, NotParked
<1>3. /\ conn[c] \in Conn /\ conn[c].q # <<>> /\ conn[c].work = "no" /\ Sees(conn[c], eng)
      /\ SameTalk(conn[c], conn[c])
  BY <1>1, UnblockedParts DEF SameTalk
<1>4. eng.last \in Nat /\ eng.durable \in Nat
  BY EngParts DEF Sound, Types
<1>5. ASSUME NEW kind \in {"done", "error"}, NEW z, z = Answered(conn[c], kind, 0),
             NEW w, w = [z EXCEPT !.hello = TRUE] \/ w = [z EXCEPT !.closing = TRUE],
             Only(c, w)
      PROVE  IInv'
  <2>1. kind \in {"done", "commit", "rows", "error"} /\ kind \in {"done", "rows", "error"} /\ 0 \in Nat
    BY <1>5
  <2>2. /\ z \in Conn /\ Replied(conn[c], z, kind, 0)
        /\ z.tx = conn[c].tx /\ z.depth = conn[c].depth /\ z.said = conn[c].said
        /\ z.snap = conn[c].snap /\ (z.own = conn[c].own \/ z.own = 0)
    BY <1>3, <1>5, <2>1, AnsweredOf
  <2>3. w \in Conn
    <3>1. CASE w = [z EXCEPT !.hello = TRUE]
      BY <2>2, <3>1 DEF Conn
    <3>2. CASE w = [z EXCEPT !.closing = TRUE]
      BY <2>2, <3>2 DEF Conn
    <3> QED
      BY <1>5, <3>1, <3>2
  <2>4. /\ w.q = z.q /\ w.out = z.out /\ w.up = z.up /\ w.dead = z.dead /\ (z.closing => w.closing)
        /\ w.awaiting = z.awaiting /\ w.sent = z.sent /\ w.heard = z.heard /\ w.work = z.work
        /\ w.tx = z.tx /\ w.depth = z.depth /\ w.said = z.said /\ w.snap = z.snap /\ w.own = z.own
    <3>1. CASE w = [z EXCEPT !.hello = TRUE]
      BY <2>2, <3>1 DEF Conn
    <3>2. CASE w = [z EXCEPT !.closing = TRUE]
      BY <2>2, <3>2 DEF Conn
    <3> QED
      BY <1>5, <3>1, <3>2
  <2>5. Replied(conn[c], w, kind, 0)
    BY <2>2, <2>4 DEF Replied
  <2>6. w.snap <= eng.durable /\ w.own <= eng.durable /\ 0 <= eng.last
    BY <1>3, <1>4, <2>2, <2>4 DEF Sees
  <2>7. w.tx = conn[c].tx /\ w.depth = conn[c].depth /\ w.said = conn[c].said
    BY <2>2, <2>4
  <2> QED
    BY <1>1, <1>2, <1>5, <2>1, <2>3, <2>5, <2>6, <2>7, OnlyStep
<1> QED
  BY <1>5 DEF Hello

\* The record of a request that leaves the queue without a reply.
LEMMA PoppedParts ==
  ASSUME NEW x \in Conn, x.q # <<>>, NEW z, z = Popped(x)
  PROVE  /\ z \in Conn /\ SameRest(x, z) /\ z.q = Tail(x.q) /\ z.out = x.out
         /\ z.own = IF "own" \in x.curs THEN x.own ELSE 0
<1>1. x.q \in Seq(Req) /\ x.own \in Nat
  BY ConnParts
<1>0. Tail(x.q) \in Seq(Req) /\ (IF "own" \in x.curs THEN x.own ELSE 0) \in Nat
  BY <1>1
<1>2. PICK t \in Seq(Req), n \in Nat : t = Tail(x.q) /\ n = (IF "own" \in x.curs THEN x.own ELSE 0)
  BY <1>0
<1>3. z = [x EXCEPT !.q = t, !.own = n]
  BY <1>2 DEF Popped, Conn
<1>4. t \in Seq(Req) /\ n \in Nat
  BY <1>2
<1>5. z \in Conn
  BY <1>3, <1>4 DEF Conn
<1>6. SameRest(x, z) /\ z.out = x.out /\ z.q = t /\ z.own = n
  BY <1>3, <1>4 DEF Conn, SameRest
<1> QED
  BY <1>2, <1>5, <1>6

\* Bye keeps the invariant.
LEMMA ByeStep ==
  ASSUME Sound, NEW c \in Conns, Bye(c)
  PROVE  IInv'
<1> DEFINE x == conn[c]
<1>1. Handle(c, {"bye"}) /\ UNCHANGED <<fifo, group, loop>>
  BY DEF Bye
<1>2. /\ phase = "process" /\ Unblocked(c)
      /\ Head(conn[c].q).kind \notin {"begin_write", "write", "write_rows"}
  BY <1>1, HandleParts
<1>3. Leaves(c)
  BY <1>1, <1>2, NotParked
<1>4. /\ x \in Conn /\ x.up = "in" /\ ~x.dead /\ x.q # <<>> /\ ~x.closing /\ x.work = "no"
      /\ ~x.awaiting /\ Order(x) /\ Sent(x, eng) /\ Sees(x, eng) /\ Agrees(x, eng)
      /\ writer = c <=> x.tx = "write"
      /\ \A k \in DOMAIN group : group[k].c # c
  BY <1>2, UnblockedParts
<1>5. PICK z : z = Popped(x)
  OBVIOUS
<1>6. PICK w : w = [z EXCEPT !.closing = TRUE]
  OBVIOUS
<1>7. Only(c, w)
  BY <1>5, <1>6 DEF Bye
<1> HIDE DEF x
<1>8. /\ z \in Conn /\ SameRest(x, z) /\ z.q = Tail(x.q) /\ z.out = x.out
      /\ z.own = IF "own" \in x.curs THEN x.own ELSE 0
  BY <1>4, <1>5, PoppedParts
<1>9. w \in Conn
  BY <1>6, <1>8 DEF Conn
<1>10. /\ w.closing /\ w.q = Tail(x.q) /\ w.out = x.out /\ w.up = x.up /\ w.dead = x.dead
       /\ w.awaiting = x.awaiting /\ w.sent = x.sent /\ w.heard = x.heard /\ w.work = x.work
       /\ w.tx = x.tx /\ w.depth = x.depth /\ w.said = x.said /\ w.snap = x.snap
       /\ w.own = z.own
  BY <1>6, <1>8 DEF Conn, SameRest
<1>11. Order(w)
  <2>1. /\ Len(w.q) <= w.sent /\ Len(w.q) <= MaxQueue
        /\ \A k \in DOMAIN w.q : w.q[k].id = Done(w) + k
    BY <1>4, <1>9, <1>10, TailQueue
  <2>2. Told(w) = Told(x)
    BY <1>10 DEF Told
  <2> QED
    BY <1>4, <1>10, <2>1, <2>2 DEF Order
<1>12. conn' = [conn EXCEPT ![c] = w] /\ UNCHANGED <<writer, eng>>
  BY <1>7 DEF Only, Set
<1>13. EngineMoves(c) /\ eng' = eng /\ writer' = writer /\ group' = group
  BY <1>1, <1>12, EngineStays
<1>14. Sent(w, eng') /\ Agrees(w, eng')
  BY <1>4, <1>10, <1>13 DEF Sent, Agrees
<1>15. Sees(w, eng')
  <2>1. eng.durable \in Nat
    BY EngParts DEF Sound, Types
  <2> QED
    BY <1>4, <1>8, <1>10, <1>13, <2>1 DEF Sees
<1>16. Grouped(c, w, group') /\ (writer' = c <=> w.tx = "write")
  BY <1>4, <1>10, <1>13 DEF Grouped
<1>17. /\ group' \in Seq(Grp)
       /\ \A k \in DOMAIN group' : 1 <= group'[k].seq /\ group'[k].seq <= eng'.last
       /\ \A d \in Conns : Grouped(d, conn[d], group')
  BY <1>13, GroupStays DEF EngineMoves
<1> QED
  BY <1>1, <1>2, <1>3, <1>9, <1>11, <1>12, <1>13, <1>14, <1>15, <1>16, <1>17, RequestStep
     DEF loop

\* Read keeps the invariant.
LEMMA ReadStep ==
  ASSUME Sound, NEW c \in Conns, Read(c)
  PROVE  IInv'
<1> DEFINE x == conn[c]
<1>1. Handle(c, {"read"}) /\ UNCHANGED <<fifo, group, loop>>
  BY DEF Read
<1>2. /\ phase = "process" /\ Unblocked(c)
      /\ Head(conn[c].q).kind \notin {"begin_write", "write", "write_rows"}
  BY <1>1, HandleParts
<1>3. Leaves(c) /\ c \notin Range(fifo)
  BY <1>1, <1>2, NotParked
<1>4. /\ x \in Conn /\ x.work = "no" /\ x.snap <= eng.durable /\ x.own <= eng.durable
  BY <1>2, UnblockedParts DEF Sees
<1>5. /\ Shown(c) \in Nat /\ Shown(c) <= eng.last /\ eng.durable \in Nat
      /\ eng.durable <= eng.last /\ x.own \in Nat /\ 0 <= eng.last
  BY ShownMade, EngParts DEF Sound, Types
<1>6. x.curs \in Cursors
  BY <1>4, ConnParts
<1>7. CASE Refuse(c)
  BY <1>1, <1>2, <1>3, <1>7, RefuseStep
<1>8. CASE Only(c, Answered(x, "error", 0))
  BY <1>1, <1>2, <1>3, <1>5, <1>8, PlainStep
<1>9. ASSUME NEW of \in {"own", "txn"}, NEW seq \in Nat, seq <= eng.last,
             of = "own" => seq <= eng.durable,
             NEW z \in Rows(x, of, seq), Only(c, z)
      PROVE  IInv'
  <2> DEFINE w == [x EXCEPT !.curs = @ \cup {of}, !.own = IF of = "own" THEN seq ELSE @]
  <2>1. z = Answered(x, "rows", seq) \/ z = Answered(w, "rows", seq)
    BY <1>9 DEF Rows
  <2>2. CASE z = Answered(x, "rows", seq)
    BY <1>1, <1>2, <1>3, <1>9, <2>2, PlainStep
  <2>3. CASE z = Answered(w, "rows", seq)
    <3>1. x.curs \cup {of} \in Cursors /\ (IF of = "own" THEN seq ELSE x.own) \in Nat
      BY <1>5, <1>6, <1>9 DEF Cursors
    <3>2. PICK curs \in Cursors, own \in Nat :
            curs = x.curs \cup {of} /\ own = (IF of = "own" THEN seq ELSE x.own)
      BY <3>1
    <3>3. PICK y : y = WithCursors(x, curs, own)
      OBVIOUS
    <3>4. w = y
      BY <1>4, <3>2, <3>3 DEF WithCursors, Conn
    <3>5. own <= eng.durable
      BY <1>4, <1>9, <3>2
    <3>6. Only(c, Answered(y, "rows", seq))
      BY <1>9, <2>3, <3>4
    <3> HIDE DEF w
    <3> QED
      BY <1>1, <1>2, <1>3, <1>9, <3>2, <3>3, <3>5, <3>6, CursorStep
  <2> QED
    BY <2>1, <2>2, <2>3
<1>10. ASSUME NEW y, y = [x EXCEPT !.work = "own", !.own = eng.durable] \/ y = [x EXCEPT !.work = "txn"],
              Only(c, y)
       PROVE  IInv'
  <2>1. "own" \in Works /\ "txn" \in Works
    BY DEF Works
  <2>2. /\ y \in Conn
        /\ SameTalk(x, y) /\ y.tx = x.tx /\ y.depth = x.depth /\ y.said = x.said /\ y.snap = x.snap
        /\ y.own = x.own \/ y.own = eng.durable
    <3> HIDE DEF x
    <3>1. CASE y = [x EXCEPT !.work = "own", !.own = eng.durable]
      <4>1. y \in Conn
        BY <1>4, <1>5, <2>1, <3>1 DEF Conn
      <4> QED
        BY <1>4, <1>5, <3>1, <4>1 DEF Conn, SameTalk
    <3>2. CASE y = [x EXCEPT !.work = "txn"]
      <4>1. y \in Conn
        BY <1>4, <1>5, <2>1, <3>2 DEF Conn
      <4> QED
        BY <1>4, <1>5, <3>2, <4>1 DEF Conn, SameTalk
    <3> QED
      BY <1>10, <3>1, <3>2 DEF x
  <2>3. /\ SameTalk(x, y) /\ y.tx = x.tx /\ y.depth = x.depth /\ y.said = x.said /\ y.snap = x.snap
        /\ y.own = x.own \/ y.own = eng.durable
    BY <2>2
  <2>4. y.snap <= eng.durable /\ y.own <= eng.durable
    BY <1>4, <1>5, <2>3
  <2> QED
    BY <1>1, <1>2, <1>3, <1>10, <2>2, <2>3, <2>4, WorkBegins
<1>11. CASE SetIn(c, Rows(x, "own", eng.durable)
               \cup {[x EXCEPT !.work = "own", !.own = eng.durable], Answered(x, "error", 0)})
  <2>1. PICK z \in Rows(x, "own", eng.durable)
               \cup {[x EXCEPT !.work = "own", !.own = eng.durable], Answered(x, "error", 0)} : Only(c, z)
    BY <1>11, SetInOne
  <2>2. eng.durable <= eng.durable
    BY <1>5
  <2> QED
    BY <1>5, <1>8, <1>9, <1>10, <2>1, <2>2
<1>12. CASE SetIn(c, Rows(x, "txn", Shown(c)) \cup {[x EXCEPT !.work = "txn"], Answered(x, "error", 0)})
  <2>1. PICK z \in Rows(x, "txn", Shown(c)) \cup {[x EXCEPT !.work = "txn"], Answered(x, "error", 0)} :
          Only(c, z)
    BY <1>12, SetInOne
  <2> QED
    BY <1>5, <1>8, <1>9, <1>10, <2>1
<1>13. CASE EndTxn(c, "failed", "error")
  BY <1>1, <1>2, <1>3, <1>13, EndTxnStep
<1> QED
  BY <1>7, <1>11, <1>12, <1>13 DEF Read

\* BeginRead keeps the invariant.
LEMMA BeginReadStep ==
  ASSUME Sound, NEW c \in Conns, BeginRead(c)
  PROVE  IInv'
<1> DEFINE x == conn[c]
<1>1. Handle(c, {"begin_read"}) /\ UNCHANGED <<fifo, group, loop>> /\ x.tx = "none"
  BY DEF BeginRead
<1>2. /\ phase = "process" /\ Unblocked(c)
      /\ Head(conn[c].q).kind \notin {"begin_write", "write", "write_rows"}
  BY <1>1, HandleParts
<1>3. Leaves(c)
  BY <1>1, <1>2, NotParked
<1>4. /\ x \in Conn /\ x.work = "no" /\ x.own <= eng.durable
  BY <1>2, UnblockedParts DEF Sees
<1>5. CASE Refuse(c)
  BY <1>1, <1>2, <1>3, <1>5, RefuseStep
<1>6. ASSUME NEW y, y = [x EXCEPT !.tx = "read", !.snap = eng.durable],
             Only(c, Answered(y, "done", 0))
      PROVE  IInv'
  <2>1. eng.durable \in Nat /\ 0 <= eng.last /\ eng.durable <= eng.durable
    BY EngParts DEF Sound, Types
  <2>2. "read" \in Txs
    BY DEF Txs
  <2>3. y \in Conn
    BY <1>4, <1>6, <2>1, <2>2 DEF Conn
  <2>4. /\ SameTalk(x, y) /\ y.tx = "read" /\ y.snap = eng.durable /\ y.own = x.own /\ y.work = x.work
    BY <1>4, <1>6, <2>1, <2>2 DEF Conn, SameTalk
  <2>5. y.work = "no" /\ y.snap <= eng.durable /\ y.own <= eng.durable
    BY <1>4, <2>1, <2>4
  <2>6. y.tx \notin {"write", "none"} /\ conn[c].tx # "write"
    BY <1>1, <2>4
  <2> QED
    BY <1>1, <1>2, <1>3, <1>6, <2>1, <2>3, <2>4, <2>5, <2>6, EditStep
<1> QED
  BY <1>5, <1>6 DEF BeginRead

\* WriteRefused keeps the invariant.
LEMMA WriteRefusedStep ==
  ASSUME Sound, NEW c \in Conns, WriteRefused(c)
  PROVE  IInv'
<1>1. /\ Handle(c, {"write", "write_rows"}) /\ UNCHANGED <<fifo, group, loop>>
      /\ conn[c].tx # "none" /\ Refuse(c)
  BY DEF WriteRefused
<1>2. phase = "process" /\ Unblocked(c)
  BY <1>1, HandleParts
<1>3. Leaves(c)
  BY <1>1, <1>2, NotParked
<1> QED
  BY <1>1, <1>2, <1>3, RefuseStep

\* EndOther keeps the invariant.
LEMMA EndOtherStep ==
  ASSUME Sound, NEW c \in Conns, EndOther(c)
  PROVE  IInv'
<1>1. Handle(c, {"commit", "rollback"}) /\ UNCHANGED <<fifo, group, loop>>
  BY DEF EndOther
<1>2. /\ phase = "process" /\ Unblocked(c)
      /\ Head(conn[c].q).kind \notin {"begin_write", "write", "write_rows"}
  BY <1>1, HandleParts
<1>3. Leaves(c) /\ c \notin Range(fifo)
  BY <1>1, <1>2, NotParked
<1>4. CASE Refuse(c)
  BY <1>1, <1>2, <1>3, <1>4, RefuseStep
<1>5. ASSUME NEW kind \in {"done", "error"}, EndTxn(c, "none", kind) PROVE IInv'
  BY <1>1, <1>2, <1>3, <1>5, EndTxnStep
<1> QED
  BY <1>4, <1>5 DEF EndOther

\* c is parked at the end of the queue.
LEMMA ParkStep ==
  ASSUME Sound, NEW c \in Conns, Park(c)
  PROVE  IInv'
<1>1. /\ phase = "process" /\ Ready(c) /\ NeedsSlot(c) /\ ~MayWrite(c)
      /\ fifo' = Append(fifo, c) /\ UNCHANGED <<conn, writer, eng, group, loop>>
  BY DEF Park
<1>2. Unblocked(c) /\ ~Queued(c)
  BY <1>1 DEF Ready
<1>3. /\ conn' = conn /\ writer' = writer /\ eng' = eng /\ group' = group
      /\ phase' = phase /\ slices' = slices /\ busy' = busy /\ woke' = woke /\ told' = told
  BY <1>1 DEF loop
<1>4. fifo \in Seq(Conns) /\ IsInjective(fifo)
  BY DEF Sound, Types
<1>5. fifo' \in Seq(Conns) /\ Range(fifo') = Range(fifo) \cup {c}
  <2>1. ToSet(Append(fifo, c)) = ToSet(fifo) \cup {c}
    BY <1>4, GrownSet
  <2> QED
    BY <1>1, <1>4, <2>1 DEF ToSet, Range
<1>6. IsInjective(fifo')
  <2>1. \A k \in DOMAIN fifo : fifo[k] # c
    BY <1>2, <1>4 DEF Queued, Contains
  <2>2. \A k \in DOMAIN fifo' : (k \in DOMAIN fifo /\ fifo'[k] = fifo[k])
                                  \/ (k = Len(fifo) + 1 /\ fifo'[k] = c)
    BY <1>1, <1>4
  <2> QED
    BY <1>4, <2>1, <2>2 DEF IsInjective
<1>7. Types'
  BY <1>3, <1>5, <1>6 DEF Sound, Types
<1>8. Engine'
  BY <1>3 DEF Sound, Engine
<1>9. ASSUME NEW d \in Conns PROVE Fit(d)'
  <2>1. Fits(d, conn[d], writer, fifo, group, eng)
    BY DEF Sound, Fit
  <2>2. d = c => Parked(conn[d])
    BY <1>1, <1>2, UnblockedParts DEF NeedsSlot, Parked
  <2>3. d \in Range(fifo') => Parked(conn[d])
    BY <1>5, <2>1, <2>2 DEF Fits
  <2>4. Fits(d, conn[d], writer, fifo', group, eng)
    BY <2>1, <2>3 DEF Fits
  <2> QED
    BY <1>3, <2>4 DEF Fit
<1>10. Turning'
  BY <1>1, <1>3 DEF Turning
<1> QED
  BY <1>7, <1>8, <1>9, <1>10 DEF IInv, Sound

\* A statement of c's write transaction is answered, its record becomes y and
\* the engine's contents and savepoints are y's.
LEMMA WriteStep ==
  ASSUME Sound, phase = "process", NEW c \in Conns, Unblocked(c), conn[c].tx = "write",
         UNCHANGED <<fifo, group, loop>>, NEW y \in Conn, SameTalk(conn[c], y), y.work = "no",
         y.tx = "write", y.snap = conn[c].snap, y.own = conn[c].own,
         NEW m \in Nat, NEW s \in Seq(Nat), eng' = Rewritten(eng, m, s), writer' = writer,
         Len(y.said) = y.depth + 1, m = Last(y.said), s = Front(y.said),
         NEW kind \in {"done", "rows"}, NEW seq \in Nat, seq <= eng.last,
         Set(c, Answered(y, kind, seq))
  PROVE  IInv'
<1>1. /\ conn[c] \in Conn /\ conn[c].q # <<>> /\ Sees(conn[c], eng)
      /\ writer = c <=> conn[c].tx = "write"
  BY UnblockedParts
<1>2. /\ EngineMoves(c) /\ eng'.n = m /\ eng'.marks = s
      /\ eng'.last = eng.last /\ eng'.durable = eng.durable
  BY <1>1, EngineWrites
<1>3. kind \in {"done", "commit", "rows", "error"} /\ kind # "commit"
  OBVIOUS
<1>4. PICK z : z = Answered(y, kind, seq)
  OBVIOUS
<1>5. /\ z \in Conn /\ Replied(conn[c], z, kind, seq)
      /\ z.tx = y.tx /\ z.depth = y.depth /\ z.said = y.said /\ z.snap = y.snap
      /\ z.own = y.own \/ z.own = 0
  BY <1>1, <1>3, <1>4, AnsweredOf
<1>6. conn' = [conn EXCEPT ![c] = z]
  BY <1>4 DEF Set
<1>7. eng.durable \in Nat
  BY EngParts DEF Sound, Types
<1>8. Sees(z, eng')
  BY <1>1, <1>2, <1>5, <1>7 DEF Sees
<1>9. Agrees(z, eng')
  BY <1>2, <1>5 DEF Agrees
<1>10. writer' = c <=> z.tx = "write"
  BY <1>1, <1>5
<1>11. Leaves(c)
  BY NotParked
<1>12. seq <= eng'.last
  BY <1>2
<1> QED
  BY <1>2, <1>3, <1>5, <1>6, <1>8, <1>9, <1>10, <1>11, <1>12, AnswerStep

\* The savepoints of c's write transaction.
LEMMA Nesting ==
  ASSUME Sound, NEW c \in Conns, Unblocked(c), conn[c].tx = "write"
  PROVE  /\ conn[c].said \in Seq(Nat) /\ conn[c].said # <<>> /\ conn[c].depth \in Nat
         /\ Len(conn[c].said) = conn[c].depth + 1
         /\ eng.n = Last(conn[c].said) /\ eng.marks = Front(conn[c].said)
         /\ eng \in Eng /\ eng.n \in Nat /\ eng.marks \in Seq(Nat)
         /\ Len(eng.marks) = conn[c].depth /\ conn[c].said = Append(eng.marks, eng.n)
<1>1. conn[c] \in Conn /\ Agrees(conn[c], eng)
  BY UnblockedParts
<1>2. conn[c].said \in Seq(Nat) /\ conn[c].depth \in Nat
  BY <1>1, ConnParts
<1>3. /\ Len(conn[c].said) = conn[c].depth + 1
      /\ eng.n = Last(conn[c].said) /\ eng.marks = Front(conn[c].said)
  BY <1>1 DEF Agrees
<1>4. conn[c].said # <<>>
  BY <1>2, <1>3
<1>5. eng \in Eng /\ eng.n \in Nat /\ eng.marks \in Seq(Nat)
  BY EngParts DEF Sound, Types
<1>6. /\ Len(Front(conn[c].said)) = Len(conn[c].said) - 1
      /\ conn[c].said = Append(Front(conn[c].said), Last(conn[c].said))
  BY <1>2, <1>4, FrontLast
<1>7. Len(eng.marks) = conn[c].depth
  BY <1>2, <1>3, <1>6
<1> QED
  BY <1>2, <1>3, <1>4, <1>5, <1>6, <1>7

\* The record of a statement that changes the contents or the nesting.
WithSaid(x, depth, said, curs) == [x EXCEPT !.depth = depth, !.said = said, !.curs = curs]

\* The parts of a record with another depth, levels and cursors.
LEMMA SaidParts ==
  ASSUME NEW x \in Conn, NEW depth \in Nat, NEW said \in Seq(Nat), NEW curs \in Cursors,
         NEW y, y = WithSaid(x, depth, said, curs)
  PROVE  /\ y \in Conn /\ SameTalk(x, y) /\ y.work = x.work /\ y.tx = x.tx /\ y.depth = depth
         /\ y.said = said /\ y.snap = x.snap /\ y.own = x.own
<1>1. y \in Conn
  BY DEF Conn, WithSaid
<1> QED
  BY <1>1 DEF Conn, SameTalk, WithSaid

\* BeginNested keeps the invariant.
LEMMA BeginNestedStep ==
  ASSUME Sound, NEW c \in Conns, BeginNested(c)
  PROVE  IInv'
<1> DEFINE x == conn[c]
           d == [x EXCEPT !.depth = @ + 1]
<1>1. Handle(c, {"begin_write", "begin_read"}) /\ x.tx # "none" /\ UNCHANGED <<fifo, group, loop>>
  BY DEF BeginNested
<1>2. phase = "process" /\ Unblocked(c)
  BY <1>1, HandleParts
<1>3. Leaves(c)
  BY <1>1, <1>2, NotParked
<1>4. x \in Conn /\ x.work = "no" /\ x.snap <= eng.durable /\ x.own <= eng.durable
  BY <1>2, UnblockedParts DEF Sees
<1>5. x.depth \in Nat /\ x.said \in Seq(Nat) /\ x.curs \in Cursors
  BY <1>4, ConnParts
<1>6. /\ d \in Conn /\ SameTalk(x, d) /\ d.work = "no" /\ d.tx = x.tx /\ d.depth = x.depth + 1
      /\ d.said = x.said /\ d.snap = x.snap /\ d.own = x.own
  <2>1. PICK k \in Nat : k = x.depth + 1
    BY <1>5
  <2>2. PICK y : y = [x EXCEPT !.depth = k]
    OBVIOUS
  <2>3. y \in Conn
    BY <1>4, <2>2 DEF Conn
  <2>4. /\ SameTalk(x, y) /\ y.work = x.work /\ y.tx = x.tx /\ y.depth = k
        /\ y.said = x.said /\ y.snap = x.snap /\ y.own = x.own
    BY <1>4, <2>2 DEF Conn, SameTalk
  <2>5. d = y
    BY <1>4, <2>1, <2>2 DEF Conn
  <2> HIDE DEF d
  <2> QED
    BY <1>4, <2>1, <2>3, <2>4, <2>5
<1>7. 0 <= eng.last /\ 0 \in Nat
  BY EngParts DEF Sound, Types
<1>8. CASE Refuse(c)
  BY <1>1, <1>2, <1>3, <1>8, RefuseStep
<1>9. CASE d.tx = "read" /\ Only(c, Answered(d, "done", 0))
  <2>1. d.tx \notin {"write", "none"} /\ conn[c].tx # "write"
    BY <1>6, <1>9
  <2>2. d.snap <= eng.durable /\ d.own <= eng.durable
    BY <1>4, <1>6
  <2>3. PICK y : y = d
    OBVIOUS
  <2> HIDE DEF d
  <2>4. /\ y \in Conn /\ SameTalk(conn[c], y) /\ y.work = "no" /\ y.snap <= eng.durable
        /\ y.own <= eng.durable /\ y.tx \notin {"write", "none"} /\ Only(c, Answered(y, "done", 0))
    BY <1>6, <1>9, <2>1, <2>2, <2>3
  <2> QED
    BY <1>1, <1>2, <1>3, <1>7, <2>1, <2>4, EditStep
<1>10. CASE /\ d.tx = "write"
            /\ Set(c, Answered([d EXCEPT !.said = Append(@, Last(@))], "done", 0))
            /\ eng' = Marked(eng) /\ UNCHANGED writer
  <2>1. x.tx = "write"
    BY <1>6, <1>10
  <2>2. /\ x.said # <<>> /\ Len(x.said) = x.depth + 1
        /\ eng.n = Last(x.said) /\ eng \in Eng /\ eng.n \in Nat /\ eng.marks \in Seq(Nat)
        /\ x.said = Append(eng.marks, eng.n)
    BY <1>2, <2>1, Nesting
  <2>3. Append(x.said, eng.n) \in Seq(Nat) /\ x.depth + 1 \in Nat
    BY <1>5, <2>2
  <2>4. PICK said \in Seq(Nat), depth \in Nat, curs \in Cursors :
          said = Append(x.said, eng.n) /\ depth = x.depth + 1 /\ curs = x.curs
    BY <1>5, <2>3
  <2>5. PICK y : y = WithSaid(x, depth, said, curs)
    OBVIOUS
  <2>6. [d EXCEPT !.said = Append(@, Last(@))] = y
    BY <1>4, <2>2, <2>4, <2>5 DEF Conn, WithSaid
  <2>7. /\ y \in Conn /\ SameTalk(x, y) /\ y.work = x.work /\ y.tx = x.tx /\ y.depth = depth
        /\ y.said = said /\ y.snap = x.snap /\ y.own = x.own
    <3>1. said \in Seq(Nat) /\ depth \in Nat /\ curs \in Cursors
      BY <2>4
    <3> HIDE DEF x
    <3> QED
      BY <1>4, <2>5, <3>1, SaidParts
  <2>8. Set(c, Answered(y, "done", 0)) /\ writer' = writer
    BY <1>10, <2>6
  <2> HIDE DEF d
  <2>9. PICK m \in Nat, s \in Seq(Nat) : m = eng.n /\ s = Append(eng.marks, eng.n)
    <3>1. eng.n \in Nat /\ eng.marks \in Seq(Nat)
      BY <2>2
    <3>2. Append(eng.marks, eng.n) \in Seq(Nat)
      BY <3>1
    <3> QED
      BY <3>1, <3>2
  <2>10. eng' = Rewritten(eng, m, s)
    BY <1>10, <2>2, <2>9 DEF Marked, Rewritten, Eng
  <2>11. Len(y.said) = y.depth + 1 /\ m = Last(y.said) /\ s = Front(y.said)
    <3>0. x.said \in Seq(Nat) /\ eng.n \in Nat
      BY <1>5, <2>2
    <3>1. Front(Append(x.said, eng.n)) = x.said /\ Last(Append(x.said, eng.n)) = eng.n
      BY <3>0, FrontLast
    <3>2. Len(Append(x.said, eng.n)) = Len(x.said) + 1
      BY <1>5
    <3> QED
      BY <2>2, <2>4, <2>7, <2>9, <3>1, <3>2
  <2>12. y.work = "no" /\ y.tx = "write"
    BY <1>4, <2>1, <2>7
  <2> QED
    BY <1>1, <1>2, <1>7, <2>1, <2>7, <2>8, <2>10, <2>11, <2>12, WriteStep
<1> QED
  BY <1>8, <1>9, <1>10 DEF BeginNested

\* The newest count of a list grows by one.
LEMMA Bumped ==
  ASSUME NEW m \in Seq(Nat), NEW n \in Nat, NEW s, s = Append(m, n)
  PROVE  [s EXCEPT ![Len(s)] = s[Len(s)] + 1] = Append(m, n + 1)
<1>1. s \in Seq(Nat) /\ Len(s) = Len(m) + 1 /\ s[Len(m) + 1] = n /\ \A i \in 1 .. Len(m) : s[i] = m[i]
  OBVIOUS
<1>2. Len(m) \in Nat /\ DOMAIN s = 1 .. Len(m) + 1
  BY <1>1
<1> DEFINE t == [s EXCEPT ![Len(s)] = s[Len(s)] + 1]
<1>3. t = [i \in 1 .. Len(m) + 1 |-> IF i = Len(m) + 1 THEN n + 1 ELSE m[i]]
  <2>1. t = [i \in 1 .. Len(m) + 1 |-> IF i = Len(s) THEN s[Len(s)] + 1 ELSE s[i]]
    BY <1>1, <1>2
  <2>2. \A i \in 1 .. Len(m) + 1 :
          (IF i = Len(s) THEN s[Len(s)] + 1 ELSE s[i]) = (IF i = Len(m) + 1 THEN n + 1 ELSE m[i])
    BY <1>1, <1>2
  <2> HIDE DEF t
  <2> QED
    BY <2>1, <2>2
<1>4. Append(m, n + 1) = [i \in 1 .. Len(m) + 1 |-> IF i = Len(m) + 1 THEN n + 1 ELSE m[i]]
  BY <1>2
<1> QED
  BY <1>3, <1>4

\* WriteInTxn keeps the invariant.
LEMMA WriteInTxnStep ==
  ASSUME Sound, NEW c \in Conns, WriteInTxn(c)
  PROVE  IInv'
<1> DEFINE x == conn[c]
           b == [x EXCEPT !.said[Len(conn[c].said)] = @ + 1]
<1>1. Handle(c, {"write", "write_rows"}) /\ x.tx = "write" /\ UNCHANGED <<fifo, group, loop>>
  BY DEF WriteInTxn
<1>2. phase = "process" /\ Unblocked(c)
  BY <1>1, HandleParts
<1>3. Leaves(c) /\ c \notin Range(fifo)
  BY <1>1, <1>2, NotParked
<1>4. x \in Conn /\ x.work = "no"
  BY <1>2, UnblockedParts
<1>5. /\ Len(x.said) = x.depth + 1 /\ x.depth \in Nat
      /\ eng \in Eng /\ eng.n \in Nat /\ eng.marks \in Seq(Nat)
      /\ x.said = Append(eng.marks, eng.n)
  BY <1>1, <1>2, Nesting
<1>6. x.curs \in Cursors
  BY <1>4, ConnParts
<1>7. CASE Refuse(c)
  BY <1>1, <1>2, <1>3, <1>7, RefuseStep
<1>8. CASE EndTxn(c, "failed", "error")
  BY <1>1, <1>2, <1>3, <1>8, EndTxnStep
<1>9. CASE /\ Set(c, IF Head(b.q).kind = "write" THEN Answered(b, "done", 0) ELSE Answered(b, "rows", eng.last))
           /\ eng' = [eng EXCEPT !.n = @ + 1] /\ UNCHANGED writer
  <2>1. PICK m \in Nat, s \in Seq(Nat) : m = eng.n + 1 /\ s = eng.marks
    BY <1>5
  <2>2. m \in Nat /\ s \in Seq(Nat)
    BY <2>1
  <2>3. [x.said EXCEPT ![Len(x.said)] = x.said[Len(x.said)] + 1] = Append(s, m)
    BY <1>5, <2>1, Bumped
  <2>4. PICK said \in Seq(Nat), depth \in Nat, curs \in Cursors :
          said = Append(s, m) /\ depth = x.depth /\ curs = x.curs
    <3>1. Append(s, m) \in Seq(Nat)
      BY <2>2
    <3>2. x.depth \in Nat
      BY <1>5
    <3> QED
      BY <1>6, <3>1, <3>2
  <2>5. PICK y : y = WithSaid(x, depth, said, curs)
    OBVIOUS
  <2>6. b = y
    BY <1>4, <2>3, <2>4, <2>5 DEF Conn, WithSaid
  <2>7. /\ y \in Conn /\ SameTalk(x, y) /\ y.work = x.work /\ y.tx = x.tx /\ y.depth = depth
        /\ y.said = said /\ y.snap = x.snap /\ y.own = x.own
    <3>1. said \in Seq(Nat) /\ depth \in Nat /\ curs \in Cursors
      BY <2>4
    <3> HIDE DEF x
    <3> QED
      BY <1>4, <2>5, <3>1, SaidParts
  <2> HIDE DEF b
  <2>8. eng' = Rewritten(eng, m, s) /\ writer' = writer
    BY <1>5, <1>9, <2>1 DEF Rewritten, Eng
  <2>9. Len(y.said) = y.depth + 1 /\ m = Last(y.said) /\ s = Front(y.said)
    <3>1. Front(Append(s, m)) = s /\ Last(Append(s, m)) = m
      BY <2>2, FrontLast
    <3>2. Len(x.said) = Len(eng.marks) + 1
      <4>1. eng.n \in Nat /\ eng.marks \in Seq(Nat)
        BY <1>5
      <4>2. Len(Append(eng.marks, eng.n)) = Len(eng.marks) + 1
        BY <4>1
      <4> QED
        BY <1>5, <4>2
    <3>3. Len(Append(s, m)) = Len(s) + 1
      BY <2>2
    <3>4. Len(s) = Len(eng.marks)
      BY <2>1
    <3>5. Len(said) = x.depth + 1
      BY <1>5, <2>4, <3>2, <3>3, <3>4
    <3> QED
      BY <2>4, <2>7, <3>1, <3>5
  <2>10. y.work = "no" /\ y.tx = "write"
    BY <1>1, <1>4, <2>7
  <2>11. eng.last \in Nat /\ 0 <= eng.last /\ eng.last <= eng.last /\ 0 \in Nat
    BY <1>5, EngParts
  <2>12. Set(c, Answered(y, "done", 0)) \/ Set(c, Answered(y, "rows", eng.last))
    BY <1>9, <2>6
  <2> QED
    BY <1>1, <1>2, <2>2, <2>7, <2>8, <2>9, <2>10, <2>11, <2>12, WriteStep
<1> QED
  BY <1>7, <1>8, <1>9 DEF WriteInTxn

\* The record of a level of nesting less.
LEMMA ShallowParts ==
  ASSUME NEW x \in Conn, x.depth > 0, NEW y, y = [x EXCEPT !.depth = @ - 1]
  PROVE  /\ y \in Conn /\ SameTalk(x, y) /\ y.work = x.work /\ y.tx = x.tx
         /\ y.depth = x.depth - 1 /\ y.depth \in Nat
         /\ y.said = x.said /\ y.snap = x.snap /\ y.own = x.own /\ y.curs = x.curs
<1>1. x.depth \in Nat
  BY ConnParts
<1>2. PICK k \in Nat : k = x.depth - 1
  BY <1>1
<1>3. y = [x EXCEPT !.depth = k] /\ k \in Nat
  BY <1>2 DEF Conn
<1>4. y \in Conn
  BY <1>3 DEF Conn
<1>5. /\ SameTalk(x, y) /\ y.work = x.work /\ y.tx = x.tx /\ y.depth = k
      /\ y.said = x.said /\ y.snap = x.snap /\ y.own = x.own /\ y.curs = x.curs
  BY <1>3 DEF Conn, SameTalk
<1> QED
  BY <1>2, <1>4, <1>5

\* A nested level of a read transaction ends.
LEMMA ReadShallower ==
  ASSUME Sound, phase = "process", NEW c \in Conns, Unblocked(c), Leaves(c),
         UNCHANGED <<group, loop>>, conn[c].depth > 0,
         NEW d, d = [conn[c] EXCEPT !.depth = @ - 1], d.tx = "read", Only(c, Answered(d, "done", 0))
  PROVE  IInv'
<1>1. conn[c] \in Conn /\ conn[c].work = "no" /\ conn[c].snap <= eng.durable /\ conn[c].own <= eng.durable
  BY UnblockedParts DEF Sees
<1>2. PICK x \in Conn : x = conn[c]
  BY <1>1
<1>3. d = [x EXCEPT !.depth = @ - 1] /\ x.depth > 0
  BY <1>2
<1>4. /\ d \in Conn /\ SameTalk(x, d) /\ d.work = x.work /\ d.tx = x.tx
      /\ d.snap = x.snap /\ d.own = x.own
  BY <1>3, ShallowParts
<1>5. /\ SameTalk(conn[c], d) /\ d.work = "no" /\ d.snap <= eng.durable /\ d.own <= eng.durable
      /\ d.tx \notin {"write", "none"} /\ conn[c].tx # "write"
  BY <1>1, <1>2, <1>4
<1>6. 0 \in Nat /\ 0 <= eng.last
  BY EngParts DEF Sound, Types
<1> QED
  BY <1>4, <1>5, <1>6, EditStep

\* CommitNested keeps the invariant.
LEMMA CommitNestedStep ==
  ASSUME Sound, NEW c \in Conns, CommitNested(c)
  PROVE  IInv'
<1> DEFINE x == conn[c]
<1>0. PICK d : d = [conn[c] EXCEPT !.depth = @ - 1]
  OBVIOUS
<1>1. /\ Handle(c, {"commit"}) /\ x.tx \in {"read", "write"} /\ x.depth > 0
      /\ UNCHANGED <<fifo, group, loop>>
  BY DEF CommitNested
<1>2. phase = "process" /\ Unblocked(c)
  BY <1>1, HandleParts
<1>3. Leaves(c) /\ c \notin Range(fifo)
  BY <1>1, <1>2, NotParked
<1>4. x \in Conn /\ x.work = "no"
  BY <1>2, UnblockedParts
<1>5. CASE d.tx = "read" /\ Only(c, Answered(d, "done", 0))
  BY <1>0, <1>1, <1>2, <1>3, <1>5, ReadShallower
<1>6. CASE /\ d.tx = "write"
           /\ Set(c, Answered([d EXCEPT !.said = Append(Front(Front(@)), Last(@))], "done", 0))
           /\ eng' = Kept(eng) /\ UNCHANGED writer
  <2>1. x.tx = "write"
    BY <1>0, <1>4, <1>6 DEF Conn
  <2>2. /\ x.said \in Seq(Nat) /\ Len(x.said) = x.depth + 1 /\ x.depth \in Nat
        /\ eng.n = Last(x.said) /\ eng.marks = Front(x.said)
        /\ eng \in Eng /\ eng.n \in Nat /\ eng.marks \in Seq(Nat)
        /\ Len(eng.marks) = x.depth
    BY <1>2, <2>1, Nesting
  <2>3. Front(eng.marks) \in Seq(Nat) /\ Len(Front(eng.marks)) = x.depth - 1
    <3>1. eng.marks \in Seq(Nat) /\ eng.marks # <<>> /\ eng.n \in Nat
      BY <1>1, <2>2
    <3> QED
      BY <2>2, <3>1, FrontLast
  <2>4. PICK m \in Nat, s \in Seq(Nat) : m = eng.n /\ s = Front(eng.marks)
    BY <2>2, <2>3
  <2>5. m \in Nat /\ s \in Seq(Nat) /\ Len(s) = x.depth - 1
    BY <2>3, <2>4
  <2>6. x.curs \in Cursors /\ x.depth - 1 \in Nat /\ Append(s, m) \in Seq(Nat)
    BY <1>1, <1>4, <2>2, <2>5, ConnParts
  <2>7. PICK said \in Seq(Nat), depth \in Nat, curs \in Cursors :
          said = Append(s, m) /\ depth = x.depth - 1 /\ curs = x.curs
    BY <2>6
  <2>8. PICK y : y = WithSaid(x, depth, said, curs)
    OBVIOUS
  <2>9. Append(Front(Front(x.said)), Last(x.said)) = said
    BY <2>2, <2>4, <2>7
  <2>10. [d EXCEPT !.said = Append(Front(Front(@)), Last(@))] = y
    BY <1>0, <1>4, <2>7, <2>8, <2>9 DEF Conn, WithSaid
  <2>11. /\ y \in Conn /\ SameTalk(x, y) /\ y.work = x.work /\ y.tx = x.tx /\ y.depth = depth
         /\ y.said = said /\ y.snap = x.snap /\ y.own = x.own
    <3>1. said \in Seq(Nat) /\ depth \in Nat /\ curs \in Cursors
      BY <2>7
    <3> HIDE DEF x
    <3> QED
      BY <1>4, <2>8, <3>1, SaidParts
  <2>12. eng' = Rewritten(eng, m, s) /\ writer' = writer
    BY <1>6, <2>2, <2>4 DEF Kept, Rewritten, Eng
  <2>13. Len(y.said) = y.depth + 1 /\ m = Last(y.said) /\ s = Front(y.said)
    <3>1. Front(Append(s, m)) = s /\ Last(Append(s, m)) = m
      BY <2>5, FrontLast
    <3>2. Len(Append(s, m)) = x.depth
      BY <2>2, <2>5
    <3> QED
      BY <2>2, <2>7, <2>11, <3>1, <3>2
  <2>14. y.work = "no" /\ y.tx = "write" /\ Set(c, Answered(y, "done", 0))
    BY <1>4, <1>6, <2>1, <2>10, <2>11
  <2>15. 0 <= eng.last /\ 0 \in Nat
    BY <2>2, EngParts
  <2> QED
    BY <1>1, <1>2, <2>1, <2>5, <2>11, <2>12, <2>13, <2>14, <2>15, WriteStep
<1> QED
  BY <1>0, <1>5, <1>6 DEF CommitNested

\* RollbackNested keeps the invariant.
LEMMA RollbackNestedStep ==
  ASSUME Sound, NEW c \in Conns, RollbackNested(c)
  PROVE  IInv'
<1> DEFINE x == conn[c]
<1>0. PICK d : d = [conn[c] EXCEPT !.depth = @ - 1]
  OBVIOUS
<1>1. /\ Handle(c, {"rollback"}) /\ x.tx \in {"read", "write"} /\ x.depth > 0
      /\ UNCHANGED <<fifo, group, loop>>
  BY DEF RollbackNested
<1>2. phase = "process" /\ Unblocked(c)
  BY <1>1, HandleParts
<1>3. Leaves(c) /\ c \notin Range(fifo)
  BY <1>1, <1>2, NotParked
<1>4. x \in Conn /\ x.work = "no"
  BY <1>2, UnblockedParts
<1>5. CASE d.tx = "read" /\ Only(c, Answered(d, "done", 0))
  BY <1>0, <1>1, <1>2, <1>3, <1>5, ReadShallower
<1>6. CASE /\ d.tx = "write"
           /\ Set(c, Answered([d EXCEPT !.said = Front(@), !.curs = @ \ {"txn"}], "done", 0))
           /\ eng' = Undone(eng) /\ UNCHANGED writer
  <2>1. x.tx = "write"
    BY <1>0, <1>4, <1>6 DEF Conn
  <2>2. /\ x.said \in Seq(Nat) /\ Len(x.said) = x.depth + 1 /\ x.depth \in Nat
        /\ eng.n = Last(x.said) /\ eng.marks = Front(x.said)
        /\ eng \in Eng /\ eng.n \in Nat /\ eng.marks \in Seq(Nat)
        /\ Len(eng.marks) = x.depth
    BY <1>2, <2>1, Nesting
  <2>3. Front(eng.marks) \in Seq(Nat) /\ Last(eng.marks) \in Nat
    <3>1. eng.marks \in Seq(Nat) /\ eng.marks # <<>> /\ eng.n \in Nat
      BY <1>1, <2>2
    <3> QED
      BY <2>2, <3>1, FrontLast
  <2>4. PICK m \in Nat, s \in Seq(Nat) : m = Last(eng.marks) /\ s = Front(eng.marks)
    BY <2>3
  <2>5. m \in Nat /\ s \in Seq(Nat)
    BY <2>4
  <2>6. x.curs \ {"txn"} \in Cursors /\ x.depth - 1 \in Nat
    <3>1. x.curs \in Cursors
      BY <1>4, ConnParts
    <3>2. x.curs \ {"txn"} \in Cursors
      BY <3>1 DEF Cursors
    <3>3. x.depth - 1 \in Nat
      BY <1>1, <2>2
    <3> QED
      BY <3>2, <3>3
  <2>7. PICK said \in Seq(Nat), depth \in Nat, curs \in Cursors :
          said = eng.marks /\ depth = x.depth - 1 /\ curs = x.curs \ {"txn"}
    BY <2>2, <2>6
  <2>8. PICK y : y = WithSaid(x, depth, said, curs)
    OBVIOUS
  <2>9. Front(x.said) = said
    BY <2>2, <2>7
  <2>10. [d EXCEPT !.said = Front(@), !.curs = @ \ {"txn"}] = y
    BY <1>0, <1>4, <2>7, <2>8, <2>9 DEF Conn, WithSaid
  <2>11. /\ y \in Conn /\ SameTalk(x, y) /\ y.work = x.work /\ y.tx = x.tx /\ y.depth = depth
         /\ y.said = said /\ y.snap = x.snap /\ y.own = x.own
    <3>1. said \in Seq(Nat) /\ depth \in Nat /\ curs \in Cursors
      BY <2>7
    <3> HIDE DEF x
    <3> QED
      BY <1>4, <2>8, <3>1, SaidParts
  <2>12. eng' = Rewritten(eng, m, s) /\ writer' = writer
    <3>1. eng' = Undone(eng) /\ writer' = writer
      BY <1>6
    <3>2. Undone(eng) = Rewritten(eng, m, s)
      BY <2>2, <2>4 DEF Undone, Rewritten, Eng
    <3> QED
      BY <3>1, <3>2
  <2>13. Len(y.said) = y.depth + 1 /\ m = Last(y.said) /\ s = Front(y.said)
    BY <2>2, <2>4, <2>7, <2>11
  <2>14. y.work = "no" /\ y.tx = "write" /\ Set(c, Answered(y, "done", 0))
    BY <1>4, <1>6, <2>1, <2>10, <2>11
  <2>15. 0 <= eng.last /\ 0 \in Nat
    BY <2>2, EngParts
  <2> QED
    BY <1>1, <1>2, <2>1, <2>5, <2>11, <2>12, <2>13, <2>14, <2>15, WriteStep
<1>7. CASE EndTxn(c, "failed", "error")
  BY <1>1, <1>2, <1>3, <1>7, EndTxnStep
<1> QED
  BY <1>0, <1>5, <1>6, <1>7 DEF RollbackNested

\* BeginWrite keeps the invariant.
LEMMA BeginWriteStep ==
  ASSUME Sound, NEW c \in Conns, BeginWrite(c)
  PROVE  IInv'
<1> DEFINE x == conn[c]
<1>1. /\ Handle(c, {"begin_write"}) /\ x.tx = "none" /\ fifo' = Dropped(fifo, {c})
      /\ UNCHANGED <<group, loop>>
  BY DEF BeginWrite
<1>2. phase = "process" /\ Unblocked(c)
  BY <1>1, HandleParts
<1>3. Leaves(c)
  BY <1>1, QueueLeft
<1>4. CASE Refuse(c)
  BY <1>1, <1>2, <1>3, <1>4, RefuseStep
<1>5. PICK y : y = [x EXCEPT !.tx = "write", !.said = <<0>>]
  OBVIOUS
<1>6. ASSUME Begins, Set(c, Answered(y, "done", 0)), eng' = [eng EXCEPT !.by = c], writer' = c
      PROVE  IInv'
  <2>1. /\ x \in Conn /\ x.work = "no" /\ x.q # <<>> /\ Sees(x, eng) /\ x.depth = 0
    BY <1>1, <1>2, UnblockedParts DEF Agrees
  <2>2. /\ eng \in Eng /\ eng.by = None /\ eng.n = 0 /\ eng.marks = <<>>
        /\ eng.durable <= eng.last /\ writer = eng.by
    BY <1>6 DEF Sound, Types, Engine, Begins
  <2>3. eng.last \in Nat /\ eng.durable \in Nat
    BY <2>2, EngParts
  <2>4. /\ eng' \in Eng /\ eng'.by = c /\ eng'.n = eng.n /\ eng'.marks = eng.marks
        /\ eng'.last = eng.last /\ eng'.durable = eng.durable
    BY <1>6, <2>2 DEF Eng
  <2>5. EngineMoves(c)
    <3>1. c # None /\ \A d \in Conns : d # None
      BY OwnerAssumption
    <3> QED
      BY <1>6, <2>2, <2>3, <2>4, <3>1 DEF EngineMoves
  <2>6. PICK tx \in Txs, said \in Seq(Nat) : tx = "write" /\ said = <<0>>
    <3>1. "write" \in Txs
      BY DEF Txs
    <3>2. <<0>> \in Seq(Nat)
      OBVIOUS
    <3> QED
      BY <3>1, <3>2
  <2>7. y \in Conn
    BY <1>5, <2>1, <2>6 DEF Conn
  <2>8. /\ SameTalk(x, y) /\ y.work = x.work /\ y.tx = "write" /\ y.said = <<0>>
        /\ y.depth = x.depth /\ y.snap = x.snap /\ y.own = x.own
    BY <1>5, <2>1, <2>6 DEF Conn, SameTalk
  <2>9. PICK z : z = Answered(y, "done", 0)
    OBVIOUS
  <2>10. /\ z \in Conn /\ Replied(x, z, "done", 0)
         /\ z.tx = y.tx /\ z.depth = y.depth /\ z.said = y.said /\ z.snap = y.snap
         /\ z.own = y.own \/ z.own = 0
    BY <2>1, <2>7, <2>8, <2>9, AnsweredOf
  <2>11. conn' = [conn EXCEPT ![c] = z]
    BY <1>6, <2>9 DEF Set
  <2>12. Sees(z, eng')
    BY <2>1, <2>3, <2>4, <2>8, <2>10 DEF Sees
  <2>13. Agrees(z, eng')
    <3>1. Len(<<0>>) = 1 /\ Last(<<0>>) = 0 /\ Front(<<0>>) = <<>>
      BY DEF Last, Front
    <3>2. z.said = <<0>> /\ z.depth = 0 /\ z.tx = "write"
      BY <2>1, <2>8, <2>10
    <3> QED
      BY <2>2, <2>4, <3>1, <3>2 DEF Agrees
  <2>14. (writer' = c <=> z.tx = "write") /\ 0 <= eng'.last
    BY <1>6, <2>3, <2>4, <2>8, <2>10
  <2> QED
    BY <1>1, <1>2, <1>3, <2>5, <2>10, <2>11, <2>12, <2>13, <2>14, AnswerStep
<1> QED
  BY <1>4, <1>5, <1>6 DEF BeginWrite

\* The engine e without a write transaction, with these numbers.
Ends(e, s, l, d, b) ==
    [e EXCEPT !.by = None, !.n = 0, !.marks = s, !.last = l, !.durable = d, !.failed = b]

\* The parts of an engine whose write transaction ended.
LEMMA EndsParts ==
  ASSUME NEW e \in Eng, NEW s \in Seq(Nat), NEW l \in Nat, NEW d \in Nat, NEW b \in BOOLEAN,
         NEW f, f = Ends(e, s, l, d, b)
  PROVE  /\ f \in Eng /\ f.by = None /\ f.n = 0 /\ f.marks = s /\ f.last = l /\ f.durable = d
<1>1. f \in Eng
  BY DEF Eng, Ends
<1> QED
  BY <1>1 DEF Eng, Ends

\* What the engine is after a commit that r answers.
After(e, r) ==
    [e EXCEPT !.by = None, !.n = 0, !.marks = <<>>,
              !.last = IF r.stands THEN e.last + 1 ELSE @,
              !.durable = IF r.durable THEN e.last + 1 ELSE @,
              !.failed = @ \/ r.failed]

\* The parts of the engine after a commit, whatever it answered.
LEMMA CommitsParts ==
  ASSUME NEW e \in Eng, e.durable <= e.last, NEW sync \in BOOLEAN, NEW r \in Commits(sync), NEW f,
         f = After(e, r)
  PROVE  /\ f \in Eng /\ f.by = None /\ f.n = 0 /\ f.marks = <<>>
         /\ e.last <= f.last /\ e.durable <= f.durable /\ f.durable <= f.last
         /\ r.ok => f.last = e.last + 1
<1>1. /\ r.ok \in BOOLEAN /\ r.stands \in BOOLEAN /\ r.durable \in BOOLEAN /\ r.failed \in BOOLEAN
      /\ r.ok => r.stands
      /\ r.durable => r.stands
  BY DEF Commits
<1>2. e.last \in Nat /\ e.durable \in Nat /\ e.failed \in BOOLEAN
  BY EngParts
<1>3. PICK l \in Nat, d \in Nat, b \in BOOLEAN, s \in Seq(Nat) :
        /\ l = (IF r.stands THEN e.last + 1 ELSE e.last)
        /\ d = (IF r.durable THEN e.last + 1 ELSE e.durable)
        /\ b = (e.failed \/ r.failed) /\ s = <<>>
  <2>1. (IF r.stands THEN e.last + 1 ELSE e.last) \in Nat
    BY <1>2
  <2>2. (IF r.durable THEN e.last + 1 ELSE e.durable) \in Nat
    BY <1>2
  <2>3. (e.failed \/ r.failed) \in BOOLEAN /\ <<>> \in Seq(Nat)
    OBVIOUS
  <2> QED
    BY <2>1, <2>2, <2>3
<1>4. f = Ends(e, s, l, d, b)
  BY <1>3 DEF Eng, Ends, After
<1>5. l \in Nat /\ d \in Nat /\ b \in BOOLEAN /\ s \in Seq(Nat)
  BY <1>3
<1>6. /\ f \in Eng /\ f.by = None /\ f.n = 0 /\ f.marks = s /\ f.last = l /\ f.durable = d
  <2>1. f \in Eng
    BY <1>4, <1>5, EndsParts
  <2>4. f.by = None
    BY <1>4, <1>5, EndsParts
  <2>2. f.n = 0 /\ f.marks = s
    BY <1>4, <1>5, EndsParts
  <2>3. f.last = l /\ f.durable = d
    BY <1>4, <1>5, EndsParts
  <2> QED
    BY <2>1, <2>2, <2>3, <2>4
<1>8. e.last <= l /\ e.durable <= d /\ d <= l /\ (r.ok => l = e.last + 1)
  BY <1>1, <1>2, <1>3
<1> QED
  BY <1>3, <1>6, <1>8

\* The reply of c's commit joins the group, and its record becomes w.
LEMMA GroupJoined ==
  ASSUME Sound, phase = "process", NEW c \in Conns, Unblocked(c), Leaves(c), UNCHANGED loop,
         EngineMoves(c), eng'.last = eng.last + 1, writer' = None,
         NEW x \in Conn, SameTalk(conn[c], x), x.work = "no", x.tx = "none", x.depth = 0,
         x.snap <= eng.durable, x.own <= eng.durable,
         NEW z, z = Popped(x), NEW w, w = [z EXCEPT !.awaiting = TRUE, !.committed = TRUE],
         Set(c, w), group' = Append(group, [c |-> c, id |-> Head(x.q).id, seq |-> eng.last + 1])
  PROVE  IInv'
<1>1. /\ conn[c] \in Conn /\ conn[c].up = "in" /\ ~conn[c].dead /\ conn[c].q # <<>>
      /\ ~conn[c].closing /\ conn[c].work = "no" /\ ~conn[c].awaiting
      /\ Order(conn[c]) /\ Sent(conn[c], eng)
      /\ \A k \in DOMAIN group : group[k].c # c
  BY UnblockedParts
<1>2. Order(x) /\ x.q # <<>> /\ ~x.awaiting /\ ~x.dead /\ ~x.closing /\ x.up = "in"
  BY <1>1, SameOrder DEF SameTalk
<1>3. /\ z \in Conn /\ SameRest(x, z) /\ z.q = Tail(x.q) /\ z.out = x.out
      /\ z.own = IF "own" \in x.curs THEN x.own ELSE 0
  BY <1>2, PoppedParts
<1>4. w \in Conn
  BY <1>3 DEF Conn
<1>5. /\ w.awaiting /\ w.q = Tail(x.q) /\ w.out = x.out /\ w.up = x.up /\ w.dead = x.dead
      /\ w.closing = x.closing /\ w.sent = x.sent /\ w.heard = x.heard /\ w.work = x.work
  BY <1>3 DEF Conn, SameRest
<1>6. w.tx = x.tx /\ w.depth = x.depth /\ w.said = x.said /\ w.snap = x.snap /\ w.own = z.own
  BY <1>3 DEF Conn, SameRest
<1>7. /\ Len(w.q) = Len(x.q) - 1 /\ Len(w.q) <= w.sent /\ Len(w.q) <= MaxQueue
      /\ Done(w) = Done(x) + 1 /\ Head(x.q).id = Done(x) + 1
      /\ \A k \in DOMAIN w.q : w.q[k].id = Done(w) + k
  BY <1>2, <1>4, <1>5, TailQueue
<1>8. Told(w) = Told(x)
  BY <1>5 DEF Told
<1>9. Done(w) = Owed(w)
  <2>1. x.heard \in Nat /\ x.out \in Seq(Rep)
    BY ConnParts
  <2>2. Told(x) \in Seq(Rep)
    BY <2>1, DroppedEmbeds DEF Told
  <2>3. Len(Told(x)) \in Nat
    BY <2>2
  <2>4. Done(x) = x.heard + Len(Told(x)) + 0
    BY <1>2 DEF Order, Owed
  <2>5. Owed(w) = x.heard + Len(Told(x)) + 1
    BY <1>5, <1>8 DEF Owed
  <2> QED
    BY <1>7, <2>1, <2>3, <2>4, <2>5
<1>10. Order(w)
  BY <1>2, <1>5, <1>7, <1>8, <1>9 DEF Order
<1>11. eng \in Eng /\ eng' \in Eng /\ eng.last <= eng'.last /\ eng.durable <= eng'.durable
  BY DEF Sound, Types, EngineMoves
<1>12. {eng.last, eng'.last, eng.durable, eng'.durable} \subseteq Nat
  BY <1>11, EngParts
<1>13. Sent(w, eng')
  <2> SUFFICES ASSUME NEW k \in DOMAIN w.out
               PROVE  /\ w.out[k].seq <= eng'.last
                      /\ w.out[k].kind = "commit" => w.out[k].seq <= eng'.durable
    BY DEF Sent
  <2>1. w.out = conn[c].out /\ w.out \in Seq(Rep)
    BY <1>4, <1>5, ConnParts DEF SameTalk
  <2>2. w.out[k] \in Rep
    BY <2>1
  <2>3. w.out[k].seq \in Nat
    BY <2>2 DEF Rep
  <2>4. w.out[k].seq <= eng.last /\ (w.out[k].kind = "commit" => w.out[k].seq <= eng.durable)
    BY <1>1, <2>1 DEF Sent
  <2> QED
    BY <1>11, <1>12, <2>3, <2>4
<1>14. Sees(w, eng') /\ Agrees(w, eng')
  <2>1. x.snap \in Nat /\ x.own \in Nat
    BY ConnParts
  <2>2. w.snap <= eng'.durable /\ w.own <= eng'.durable
    BY <1>3, <1>6, <1>11, <1>12, <2>1
  <2> QED
    BY <1>6, <2>2 DEF Sees, Agrees
<1> DEFINE p == [c |-> c, id |-> Head(x.q).id, seq |-> eng.last + 1]
<1>15. p \in Grp /\ p.c = c /\ p.id = Head(x.q).id /\ p.seq = eng.last + 1
  <2>1. x.q \in Seq(Req)
    BY ConnParts
  <2>2. Head(x.q) \in Req
    BY <1>2, <2>1
  <2>3. Head(x.q).id \in Nat
    BY <2>2 DEF Req
  <2> QED
    BY <1>12, <2>3 DEF Grp
<1> HIDE DEF p
<1>16. group \in Seq(Grp)
  BY DEF Sound, Types
<1>17. /\ group' \in Seq(Grp) /\ Len(group) + 1 \in DOMAIN group' /\ group'[Len(group) + 1] = p
       /\ \A k \in DOMAIN group : k \in DOMAIN group' /\ group'[k] = group[k]
       /\ \A k \in DOMAIN group' : (k \in DOMAIN group /\ group'[k] = group[k]) \/ group'[k] = p
  <2>1. group' = Append(group, p)
    BY DEF p
  <2> QED
    BY <1>15, <1>16, <2>1
<1>18. \A k \in DOMAIN group' : 1 <= group'[k].seq /\ group'[k].seq <= eng'.last
  <2> SUFFICES ASSUME NEW k \in DOMAIN group' PROVE 1 <= group'[k].seq /\ group'[k].seq <= eng'.last
    OBVIOUS
  <2>1. CASE group'[k] = p
    BY <1>12, <1>15, <2>1
  <2>2. CASE k \in DOMAIN group /\ group'[k] = group[k]
    <3>1. group[k] \in Grp
      BY <1>16, <2>2
    <3>2. group[k].seq \in Nat
      BY <3>1 DEF Grp
    <3>3. 1 <= group[k].seq /\ group[k].seq <= eng.last
      BY <2>2 DEF Sound, Engine
    <3> QED
      BY <1>11, <1>12, <2>2, <3>2, <3>3
  <2> QED
    BY <1>17, <2>1, <2>2
<1>19. Grouped(c, w, group')
  <2>1. \A k \in DOMAIN group' : group'[k].c = c => group'[k] = p
    BY <1>1, <1>17
  <2>2. p.id = Done(w)
    BY <1>7, <1>15
  <2> QED
    BY <1>2, <1>5, <1>15, <1>17, <2>1, <2>2 DEF Grouped
<1>20. ASSUME NEW d \in Conns, d # c PROVE Grouped(d, conn[d], group')
  <2>1. Grouped(d, conn[d], group)
    BY DEF Sound, Fit, Fits
  <2>2. \A k \in DOMAIN group' : group'[k].c = d => k \in DOMAIN group /\ group'[k] = group[k]
    BY <1>15, <1>17, <1>20
  <2> QED
    BY <1>17, <2>1, <2>2 DEF Grouped
<1>21. conn' = [conn EXCEPT ![c] = w] /\ (writer' = c <=> w.tx = "write")
  BY <1>6, OwnerAssumption DEF Set
<1> QED
  BY <1>4, <1>10, <1>13, <1>14, <1>17, <1>18, <1>19, <1>20, <1>21, RequestStep

\* A commit of c is answered, or its reply withheld.
LEMMA CommittedStep ==
  ASSUME Sound, phase = "process", NEW c \in Conns, Unblocked(c), Leaves(c), UNCHANGED loop,
         NEW x \in Conn, SameTalk(conn[c], x), x.work = "no", x.tx = "none", x.depth = 0,
         x.snap <= eng.durable, x.own <= eng.durable, eng.by \in {None, c}, writer' = None,
         NEW sync \in BOOLEAN, NEW r \in Commits(sync), NEW rows, Committed(c, x, r, rows)
  PROVE  IInv'
<1>1. eng \in Eng /\ eng.durable <= eng.last
  BY DEF Sound, Types, Engine
<1>2. eng.last \in Nat /\ eng.durable \in Nat
  BY <1>1, EngParts
<1>3. eng' = After(eng, r)
  BY DEF Committed, After
<1>4. PICK f : f = eng'
  OBVIOUS
<1>5. /\ f \in Eng /\ f.by = None /\ f.n = 0 /\ f.marks = <<>>
      /\ eng.last <= f.last /\ eng.durable <= f.durable /\ f.durable <= f.last
      /\ r.ok => f.last = eng.last + 1
  BY <1>1, <1>3, <1>4, CommitsParts
<1>6. EngineMoves(c)
  <2>1. \A d \in Conns : d # c => f.by # d /\ eng.by # d
    BY <1>5, OwnerAssumption
  <2> QED
    BY <1>4, <1>5, <2>1 DEF EngineMoves
<1>7. f.last \in Nat /\ f.durable \in Nat
  BY <1>5, EngParts
<1>8. conn[c] \in Conn /\ conn[c].q # <<>>
  BY UnblockedParts
<1>9. ASSUME NEW kind \in {"error", "rows"}, NEW seq \in Nat, seq <= f.last,
             Set(c, Answered(x, kind, seq)), group' = group
      PROVE  IInv'
  <2>1. PICK z : z = Answered(x, kind, seq)
    OBVIOUS
  <2>2. kind \in {"done", "commit", "rows", "error"} /\ kind # "commit"
    BY <1>9
  <2>3. z \in Conn /\ Replied(conn[c], z, kind, seq)
    BY <1>8, <1>9, <2>1, <2>2, AnsweredOf
  <2>4. z.tx = x.tx /\ z.depth = x.depth /\ z.snap = x.snap /\ (z.own = x.own \/ z.own = 0)
    BY <1>8, <1>9, <2>1, <2>2, AnsweredOf
  <2>5. x.snap \in Nat /\ x.own \in Nat
    BY ConnParts
  <2>6. Sees(z, eng') /\ Agrees(z, eng') /\ (writer' = c <=> z.tx = "write")
    <3>1. z.snap <= f.durable /\ z.own <= f.durable
      BY <1>2, <1>5, <1>7, <2>4, <2>5
    <3> QED
      BY <1>4, <2>4, <3>1, OwnerAssumption DEF Sees, Agrees
  <2>7. conn' = [conn EXCEPT ![c] = z] /\ seq <= eng'.last
    BY <1>4, <1>9, <2>1 DEF Set
  <2>8. UNCHANGED <<group, loop>>
    BY <1>9
  <2> QED
    BY <1>6, <1>9, <2>2, <2>3, <2>6, <2>7, <2>8, AnswerStep
<1>10. CASE ~r.ok /\ Set(c, Answered(x, "error", 0)) /\ UNCHANGED group
  <2>1. 0 \in Nat /\ 0 <= f.last /\ group' = group
    BY <1>7, <1>10
  <2> QED
    BY <1>9, <1>10, <2>1
<1>11. CASE r.ok /\ Set(c, Answered(x, "rows", eng.last + 1)) /\ UNCHANGED group
  <2>1. eng.last + 1 \in Nat /\ eng.last + 1 <= f.last /\ group' = group
    BY <1>2, <1>5, <1>11
  <2> QED
    BY <1>9, <1>11, <2>1
<1>12. CASE /\ r.ok /\ Set(c, [Popped(x) EXCEPT !.awaiting = TRUE, !.committed = TRUE])
            /\ group' = Append(group, [c |-> c, id |-> Head(x.q).id, seq |-> eng.last + 1])
  <2>1. eng'.last = eng.last + 1
    BY <1>4, <1>5, <1>12
  <2> QED
    BY <1>6, <1>12, <2>1, GroupJoined
<1> QED
  BY <1>10, <1>11, <1>12 DEF Committed

\* AutoWrite keeps the invariant.
LEMMA AutoWriteStep ==
  ASSUME Sound, NEW c \in Conns, AutoWrite(c)
  PROVE  IInv'
<1>1. /\ Handle(c, {"write", "write_rows"}) /\ conn[c].tx = "none"
      /\ fifo' = Dropped(fifo, {c}) /\ UNCHANGED loop
  BY DEF AutoWrite
<1>2. phase = "process" /\ Unblocked(c)
  BY <1>1, HandleParts
<1>3. Leaves(c)
  BY <1>1, QueueLeft
<1>4. CASE Refuse(c) /\ UNCHANGED group
  BY <1>1, <1>2, <1>3, <1>4, RefuseStep
<1>5. ASSUME NEW rows \in BOOLEAN, Begins, NEW r \in Commits(rows), Committed(c, conn[c], r, rows),
             UNCHANGED writer
      PROVE  IInv'
  <2>1. PICK x : x = conn[c]
    OBVIOUS
  <2>2. /\ x \in Conn /\ x.work = "no" /\ x.tx = "none" /\ x.depth = 0
        /\ x.snap <= eng.durable /\ x.own <= eng.durable
    BY <1>1, <1>2, <2>1, UnblockedParts DEF Sees, Agrees
  <2>3. SameTalk(conn[c], x) /\ Committed(c, x, r, rows)
    BY <1>5, <2>1 DEF SameTalk
  <2>4. eng.by \in {None, c} /\ writer' = None
    BY <1>5 DEF Begins, Sound, Engine
  <2> QED
    BY <1>1, <1>2, <1>3, <1>5, <2>2, <2>3, <2>4, CommittedStep
<1> QED
  BY <1>4, <1>5 DEF AutoWrite

\* CommitWrite keeps the invariant.
LEMMA CommitWriteStep ==
  ASSUME Sound, NEW c \in Conns, CommitWrite(c)
  PROVE  IInv'
<1>1. /\ Handle(c, {"commit"}) /\ conn[c].tx = "write" /\ Released(c) /\ UNCHANGED <<fifo, loop>>
  BY DEF CommitWrite
<1>2. phase = "process" /\ Unblocked(c)
  BY <1>1, HandleParts
<1>3. Leaves(c)
  BY <1>1, <1>2, NotParked
<1>4. PICK r \in Commits(FALSE) : Committed(c, Ended(conn[c], "none"), r, FALSE)
  BY DEF CommitWrite
<1>5. PICK x : x = Ended(conn[c], "none")
  OBVIOUS
<1>6. conn[c] \in Conn /\ conn[c].work = "no" /\ Sees(conn[c], eng) /\ writer = c
  BY <1>1, <1>2, UnblockedParts
<1>7. /\ x \in Conn /\ SameTalk(conn[c], x) /\ x.work = conn[c].work /\ x.tx = "none"
      /\ x.depth = 0 /\ x.snap = 0 /\ x.own = conn[c].own
  BY <1>5, <1>6, EndedParts
<1>8. x.work = "no" /\ x.snap <= eng.durable /\ x.own <= eng.durable
  <2>1. eng.durable \in Nat
    BY EngParts DEF Sound, Types
  <2> QED
    BY <1>6, <1>7, <2>1 DEF Sees
<1>9. eng.by \in {None, c} /\ writer' = None
  BY <1>1, <1>6 DEF Sound, Engine, Released
<1>10. Committed(c, x, r, FALSE) /\ FALSE \in BOOLEAN /\ UNCHANGED loop
  BY <1>1, <1>4, <1>5
<1> QED
  BY <1>2, <1>3, <1>4, <1>7, <1>8, <1>9, <1>10, CommittedStep

\* A request keeps the invariant.
LEMMA RequestKeeps ==
  ASSUME Sound, NEW c \in Conns, Request(c)
  PROVE  IInv'
  BY HelloStep, PingStep, ByeStep, ReadStep, FetchStep, CloseStep, ParkStep, BeginWriteStep,
     BeginReadStep, BeginNestedStep, WriteInTxnStep, WriteRefusedStep, AutoWriteStep,
     CommitWriteStep, CommitNestedStep, RollbackNestedStep, EndOtherStep DEF Request

---------------------------------------------------------------------------
(* The rest of a turn.                                                     *)

\* A step that changes nothing but where the loop is.
LEMMA SoundStays ==
  ASSUME Sound, UNCHANGED <<conn, writer, fifo, group, eng, told>>,
         phase' \in Phases, slices' \subseteq Conns, busy' \in BOOLEAN, woke' \in BOOLEAN
  PROVE  Sound'
<1>1. /\ conn' = conn /\ writer' = writer /\ fifo' = fifo /\ group' = group /\ eng' = eng
      /\ told' = told
  OBVIOUS
<1>2. Types'
  BY <1>1 DEF Sound, Types
<1>3. Engine'
  BY <1>1 DEF Sound, Engine
<1>4. ASSUME NEW c \in Conns PROVE Fit(c)'
  <2>1. Fits(c, conn[c], writer, fifo, group, eng)
    BY DEF Sound, Fit
  <2> QED
    BY <1>1, <2>1 DEF Fit
<1> QED
  BY <1>2, <1>3, <1>4 DEF Sound

\* Whether anybody could be served depends on the connections and the queue.
LEMMA StillStays ==
  ASSUME Still, UNCHANGED <<conn, writer, fifo>>
  PROVE  Still'
  BY DEF Still, Live, Ready, Unblocked, NeedsSlot, MayWrite, Queued

\* Answers keeps the invariant.
LEMMA AnswersStep ==
  ASSUME IInv, Answers
  PROVE  IInv'
<1>1. /\ phase' = "work" /\ slices' = {c \in Conns : Live(c) /\ conn[c].work # "no"}
      /\ busy' = (slices' # {}) /\ \A c \in Conns : ~Ready(c)
      /\ UNCHANGED <<conn, writer, fifo, group, eng, woke, told>>
  BY DEF Answers
<1>2. Sound /\ woke \in BOOLEAN
  BY DEF IInv, Sound, Types
<1>3. Sound'
  <2>1. phase' \in Phases /\ slices' \subseteq Conns /\ busy' \in BOOLEAN /\ woke' \in BOOLEAN
    BY <1>1, <1>2 DEF Phases
  <2> QED
    BY <1>1, <1>2, <2>1, SoundStays
<1>4. ~busy' => Still
  BY <1>1 DEF Still
<1>5. Turning'
  <2>1. ~busy' => Still' /\ slices' = {}
    BY <1>1, <1>4, StillStays
  <2>2. \A c \in slices' : Live(c)' /\ conn'[c].work # "no"
    BY <1>1 DEF Live
  <2> QED
    BY <1>1, <2>1, <2>2 DEF Turning
<1> QED
  BY <1>3, <1>5 DEF IInv

\* Gather keeps the invariant.
LEMMA GatherStep ==
  ASSUME IInv, Gather
  PROVE  IInv'
<1>1. /\ phase = "work" /\ phase' = "flush"
      /\ UNCHANGED <<conn, writer, fifo, group, eng, slices, busy, woke, told>>
  BY DEF Gather
<1>2. Sound /\ woke \in BOOLEAN /\ busy \in BOOLEAN /\ slices \subseteq Conns
  BY DEF IInv, Sound, Types
<1>3. Sound'
  <2>1. phase' \in Phases /\ slices' \subseteq Conns /\ busy' \in BOOLEAN /\ woke' \in BOOLEAN
    BY <1>1, <1>2 DEF Phases
  <2> QED
    BY <1>1, <1>2, <2>1, SoundStays
<1>4. ~busy' => Still' /\ slices' = {}
  BY <1>1, StillStays DEF IInv, Turning
<1>5. Turning'
  BY <1>1, <1>4 DEF Turning
<1> QED
  BY <1>3, <1>5 DEF IInv

\* Turn keeps the invariant.
LEMMA TurnStep ==
  ASSUME IInv, Turn
  PROVE  IInv'
<1>1. /\ phase' = "process" /\ woke' = FALSE
      /\ UNCHANGED <<conn, writer, fifo, group, eng, slices, busy, told>>
  BY DEF Turn
<1>2. Sound /\ busy \in BOOLEAN /\ slices \subseteq Conns
  BY DEF IInv, Sound, Types
<1>3. Sound'
  <2>1. phase' \in Phases /\ slices' \subseteq Conns /\ busy' \in BOOLEAN /\ woke' \in BOOLEAN
    BY <1>1, <1>2 DEF Phases
  <2> QED
    BY <1>1, <1>2, <2>1, SoundStays
<1> QED
  BY <1>1, <1>3 DEF IInv, Turning

\* Stop keeps the invariant.
LEMMA StopStep ==
  ASSUME IInv, Stop
  PROVE  IInv'
<1>1. /\ phase' = "last_sync"
      /\ UNCHANGED <<conn, writer, fifo, group, eng, slices, busy, woke, told>>
  BY DEF Stop
<1>2. Sound /\ busy \in BOOLEAN /\ woke \in BOOLEAN /\ slices \subseteq Conns
  BY DEF IInv, Sound, Types
<1>3. Sound'
  <2>1. phase' \in Phases /\ slices' \subseteq Conns /\ busy' \in BOOLEAN /\ woke' \in BOOLEAN
    BY <1>1, <1>2 DEF Phases
  <2> QED
    BY <1>1, <1>2, <2>1, SoundStays
<1> QED
  BY <1>1, <1>3 DEF IInv, Turning

\* The read that c works on is answered, from a record y made of c's.
LEMMA WorkAnswered ==
  ASSUME IInv, phase = "work", NEW c \in Conns, c \in slices, slices' = slices \ {c},
         UNCHANGED <<phase, fifo, group, busy, woke, told>>,
         NEW y \in Conn, SameTalk(conn[c], y), y.work = "no",
         NEW kind \in {"rows", "error"}, NEW seq \in Nat, seq <= eng.last,
         Set(c, Answered(y, kind, seq)),
         EngineMoves(c), eng'.last = eng.last, eng'.durable = eng.durable,
         y.snap <= eng.durable, y.own <= eng.durable, Agrees(y, eng'),
         writer' = c <=> y.tx = "write"
  PROVE  IInv'
<1> DEFINE x == conn[c]
<1>1. Sound /\ x \in Conn /\ eng \in Eng
  BY DEF IInv, Sound, Types
<1>2. x.up = "in" /\ ~x.dead /\ x.work # "no"
  BY DEF IInv, Turning, Live
<1>3. Order(x) /\ Sent(x, eng) /\ (c \in Range(fifo) => Parked(x)) /\ Grouped(c, x, group)
  BY <1>1 DEF Sound, Fit, Fits
<1>4. x.q # <<>> /\ ~x.awaiting /\ c \notin Range(fifo)
  BY <1>2, <1>3 DEF Order, Parked
<1>5. kind \in {"done", "commit", "rows", "error"} /\ kind # "commit"
  OBVIOUS
<1>6. PICK z : z = Answered(y, kind, seq)
  OBVIOUS
<1>7. conn' = [conn EXCEPT ![c] = z]
  BY <1>6 DEF Set
<1> HIDE DEF x
<1>8. /\ z \in Conn /\ Replied(x, z, kind, seq)
      /\ z.tx = y.tx /\ z.depth = y.depth /\ z.said = y.said /\ z.snap = y.snap
      /\ z.own = y.own \/ z.own = 0
  BY <1>1, <1>4, <1>5, <1>6, AnsweredOf DEF x
<1>9. Order(z)
  BY <1>1, <1>2, <1>3, <1>4, <1>5, <1>8, RepliedOrder
<1>10. /\ eng' \in Eng /\ eng.last <= eng'.last /\ eng.durable <= eng'.durable
       /\ eng.durable \in Nat
  BY <1>1, EngParts DEF EngineMoves
<1>11. Sent(z, eng')
  BY <1>1, <1>3, <1>5, <1>8, <1>10, RepliedSent
<1>12. Sees(z, eng') /\ Agrees(z, eng')
  BY <1>8, <1>10 DEF Sees, Agrees
<1>13. /\ group' \in Seq(Grp)
       /\ \A k \in DOMAIN group' : 1 <= group'[k].seq /\ group'[k].seq <= eng'.last
       /\ \A d \in Conns : Grouped(d, conn[d], group')
  BY <1>1, <1>10, GroupStays
<1>14. Grouped(c, z, group')
  BY <1>3, <1>4, <1>8 DEF Grouped, Replied
<1>15. fifo' \in Seq(Conns) /\ IsInjective(fifo') /\ Range(fifo') = Range(fifo)
  BY <1>1 DEF Sound, Types
<1>16. /\ phase' \in Phases /\ slices' \subseteq Conns /\ busy' \in BOOLEAN /\ woke' \in BOOLEAN
       /\ told' = told
  BY <1>1 DEF Sound, Types
<1>17. writer' = c <=> z.tx = "write"
  BY <1>8
<1>18. Sound'
  BY <1>1, <1>4, <1>7, <1>8, <1>9, <1>11, <1>12, <1>13, <1>14, <1>15, <1>16, <1>17, ConnStep
<1>19. \A d \in slices' : Live(d)' /\ conn'[d].work # "no"
  <2> SUFFICES ASSUME NEW d \in slices' PROVE Live(d)' /\ conn'[d].work # "no"
    OBVIOUS
  <2>1. d \in Conns /\ d # c /\ d \in slices
    BY <1>1 DEF Sound, Types
  <2>2. conn'[d] = conn[d]
    BY <1>1, <1>7, <2>1 DEF Sound, Types
  <2>3. Live(d) /\ conn[d].work # "no"
    BY <2>1 DEF IInv, Turning
  <2> QED
    BY <2>2, <2>3 DEF Live
<1>20. busy'
  BY DEF IInv, Turning
<1>21. Turning'
  BY <1>19, <1>20 DEF Turning
<1> QED
  BY <1>18, <1>21 DEF IInv

\* A slice of a read keeps the invariant.
LEMMA WorkStepStep ==
  ASSUME IInv, NEW c \in Conns, WorkStep(c)
  PROVE  IInv'
<1> DEFINE of == conn[c].work
           x  == [conn[c] EXCEPT !.work = "no"]
           seq == IF of = "own" THEN conn[c].own ELSE Shown(c)
<1>1. /\ phase = "work" /\ c \in slices /\ slices' = slices \ {c}
      /\ UNCHANGED <<phase, fifo, group, busy, woke, told>>
  BY DEF WorkStep
<1>2. \/ UNCHANGED <<conn, writer, eng>>
      \/ SetIn(c, Rows(x, of, seq) \cup {Answered(x, "error", 0)})
      \/ /\ of = "txn"
         /\ Set(c, Answered(Ended(x, "failed"), "error", 0))
         /\ eng' = Aborted(eng, c)
         /\ Released(c)
  BY DEF WorkStep
<1>3. Sound /\ conn[c] \in Conn /\ eng \in Eng
  BY DEF IInv, Sound, Types
<1>4. conn[c].work # "no" /\ conn[c].work \in Works /\ conn[c].curs \in Cursors
  BY <1>1, <1>3, ConnParts DEF IInv, Turning
<1>5. of \in {"own", "txn"}
  BY <1>4 DEF Works
<1>6. "no" \in Works
  BY DEF Works
<1>7. x \in Conn
  BY <1>3, <1>6 DEF Conn
<1>8. /\ SameTalk(conn[c], x) /\ x.work = "no" /\ x.tx = conn[c].tx /\ x.depth = conn[c].depth
      /\ x.said = conn[c].said /\ x.snap = conn[c].snap /\ x.own = conn[c].own
      /\ x.curs = conn[c].curs
  BY <1>3, <1>6 DEF Conn, SameTalk
<1>9. /\ seq \in Nat /\ seq <= eng.last /\ eng.durable \in Nat /\ 0 <= eng.last /\ 0 \in Nat
      /\ conn[c].own \in Nat /\ conn[c].own <= eng.durable
      /\ of = "own" => seq <= eng.durable
  BY <1>3, ShownMade, EngParts
<1>10. /\ Sees(conn[c], eng) /\ Agrees(conn[c], eng) /\ (writer = c <=> conn[c].tx = "write")
  BY <1>3 DEF Sound, Fit, Fits
<1>11. x.snap <= eng.durable /\ x.own <= eng.durable
  BY <1>8, <1>10 DEF Sees
<1> HIDE DEF of, x, seq
<1>12. CASE UNCHANGED <<conn, writer, eng>>
  <2>1. phase' \in Phases /\ slices' \subseteq Conns /\ busy' \in BOOLEAN /\ woke' \in BOOLEAN
    BY <1>1, <1>3 DEF Sound, Types
  <2>2. Sound'
    BY <1>1, <1>3, <1>12, <2>1, SoundStays
  <2>3. busy' /\ \A d \in slices' : Live(d)' /\ conn'[d].work # "no"
    BY <1>1, <1>12 DEF IInv, Turning, Live
  <2> QED
    BY <2>2, <2>3 DEF IInv, Turning
<1>13. ASSUME NEW y \in Conn, SameTalk(conn[c], y), y.work = "no", y.tx = conn[c].tx,
              y.depth = conn[c].depth, y.said = conn[c].said,
              y.snap <= eng.durable, y.own <= eng.durable,
              NEW kind \in {"rows", "error"}, NEW n \in Nat, n <= eng.last,
              Only(c, Answered(y, kind, n))
       PROVE  IInv'
  <2>1. Set(c, Answered(y, kind, n)) /\ UNCHANGED <<writer, eng>>
    BY <1>13 DEF Only
  <2>2. EngineMoves(c) /\ eng' = eng /\ writer' = writer
    BY <1>3, <2>1, EngineStays
  <2>3. Agrees(y, eng') /\ (writer' = c <=> y.tx = "write")
    BY <1>10, <1>13, <2>2 DEF Agrees
  <2>4. eng'.last = eng.last /\ eng'.durable = eng.durable
    BY <2>2
  <2> QED
    BY <1>1, <1>13, <2>1, <2>2, <2>3, <2>4, WorkAnswered
<1>14. CASE SetIn(c, Rows(x, of, seq) \cup {Answered(x, "error", 0)})
  <2>1. PICK z \in Rows(x, of, seq) \cup {Answered(x, "error", 0)} : Only(c, z)
    BY <1>14, SetInOne
  <2> DEFINE w == [x EXCEPT !.curs = @ \cup {of}, !.own = IF of = "own" THEN seq ELSE @]
  <2>2. \/ z = Answered(x, "error", 0) \/ z = Answered(x, "rows", seq) \/ z = Answered(w, "rows", seq)
    BY <2>1 DEF Rows
  <2>3. CASE z = Answered(x, "error", 0)
    BY <1>7, <1>8, <1>9, <1>11, <1>13, <2>1, <2>3
  <2>4. CASE z = Answered(x, "rows", seq)
    BY <1>7, <1>8, <1>9, <1>11, <1>13, <2>1, <2>4
  <2>5. CASE z = Answered(w, "rows", seq)
    <3>1. x.curs \cup {of} \in Cursors /\ (IF of = "own" THEN seq ELSE x.own) \in Nat
      BY <1>4, <1>5, <1>8, <1>9 DEF Cursors
    <3>2. PICK curs \in Cursors, own \in Nat :
            curs = x.curs \cup {of} /\ own = (IF of = "own" THEN seq ELSE x.own)
      BY <3>1
    <3>3. PICK y : y = WithCursors(x, curs, own)
      OBVIOUS
    <3>4. w = y
      BY <1>7, <3>2, <3>3 DEF WithCursors, Conn
    <3>5. own <= eng.durable
      BY <1>9, <1>11, <3>2
    <3>6. Only(c, Answered(y, "rows", seq))
      BY <2>1, <2>5, <3>4
    <3> HIDE DEF w
    <3>7. /\ y \in Conn /\ SameTalk(x, y) /\ y.work = x.work /\ y.tx = x.tx /\ y.depth = x.depth
          /\ y.said = x.said /\ y.snap = x.snap /\ y.own = own
      BY <1>7, <3>2, <3>3, CursParts
    <3>8. SameTalk(conn[c], y)
      BY <1>8, <3>7 DEF SameTalk
    <3>9. y.work = "no" /\ y.tx = conn[c].tx /\ y.depth = conn[c].depth /\ y.said = conn[c].said
      BY <1>8, <3>7
    <3>10. y.snap <= eng.durable /\ y.own <= eng.durable
      BY <1>11, <3>5, <3>7
    <3> QED
      BY <1>9, <1>13, <3>6, <3>7, <3>8, <3>9, <3>10
  <2> QED
    BY <2>2, <2>3, <2>4, <2>5
<1>15. CASE /\ Set(c, Answered(Ended(x, "failed"), "error", 0))
            /\ eng' = Aborted(eng, c) /\ Released(c)
  <2>1. PICK y : y = Ended(x, "failed")
    OBVIOUS
  <2>2. /\ y \in Conn /\ SameTalk(x, y) /\ y.work = x.work /\ y.tx = "failed"
        /\ y.snap = 0 /\ y.own = x.own
    BY <1>7, <2>1, EndedParts
  <2>3. SameTalk(conn[c], y) /\ y.work = "no"
    BY <1>8, <2>2 DEF SameTalk
  <2>4. /\ EngineMoves(c) /\ writer' # c /\ eng'.last = eng.last /\ eng'.durable = eng.durable
    BY <1>3, <1>15, EngineAborts
  <2>5. y.snap <= eng.durable /\ y.own <= eng.durable /\ Agrees(y, eng')
    BY <1>9, <1>11, <2>2 DEF Agrees
  <2>6. writer' = c <=> y.tx = "write"
    BY <2>2, <2>4
  <2>7. Set(c, Answered(y, "error", 0))
    BY <1>15, <2>1
  <2> QED
    BY <1>1, <1>9, <2>2, <2>3, <2>4, <2>5, <2>6, <2>7, WorkAnswered
<1> QED
  BY <1>2, <1>12, <1>14, <1>15 DEF of, x, seq

\* A record whose withheld reply is given.
Release(x, r) == [x EXCEPT !.awaiting = FALSE, !.out = Append(@, r)]

\* The parts of a record whose withheld reply is given.
LEMMA ReleaseParts ==
  ASSUME NEW x \in Conn, NEW r \in Rep, NEW z, z = Release(x, r)
  PROVE  /\ z \in Conn /\ ~z.awaiting /\ z.out = Append(x.out, r) /\ z.q = x.q
         /\ z.up = x.up /\ z.hello = x.hello /\ z.closing = x.closing /\ z.dead = x.dead
         /\ z.tx = x.tx /\ z.depth = x.depth /\ z.said = x.said /\ z.snap = x.snap
         /\ z.own = x.own /\ z.work = x.work /\ z.curs = x.curs /\ z.sent = x.sent
         /\ z.heard = x.heard
<1>1. x.out \in Seq(Rep)
  BY ConnParts
<1>2. Append(x.out, r) \in Seq(Rep)
  BY <1>1
<1>3. PICK s \in Seq(Rep) : s = Append(x.out, r)
  BY <1>2
<1>4. z = [x EXCEPT !.awaiting = FALSE, !.out = s]
  BY <1>3 DEF Release
<1>5. s \in Seq(Rep)
  BY <1>3
<1>6. z \in Conn
  BY <1>4, <1>5 DEF Conn
<1>7. /\ ~z.awaiting /\ z.out = s /\ z.q = x.q
      /\ z.up = x.up /\ z.hello = x.hello /\ z.closing = x.closing /\ z.dead = x.dead
      /\ z.tx = x.tx /\ z.depth = x.depth /\ z.said = x.said /\ z.snap = x.snap
      /\ z.own = x.own /\ z.work = x.work /\ z.curs = x.curs /\ z.sent = x.sent
      /\ z.heard = x.heard
  BY <1>4, <1>5 DEF Conn
<1> QED
  BY <1>3, <1>6, <1>7

\* A withheld reply is the next one its client waits for.
LEMMA ReleaseOrder ==
  ASSUME NEW x \in Conn, Order(x), x.awaiting, ~x.dead, x.up = "in",
         NEW r \in Rep, r.kind # "bad", r.id = Done(x), NEW z, z = Release(x, r)
  PROVE  Order(z)
<1>1. /\ z \in Conn /\ ~z.awaiting /\ z.out = Append(x.out, r) /\ z.q = x.q
      /\ z.up = x.up /\ z.closing = x.closing /\ z.dead = x.dead
      /\ z.work = x.work /\ z.sent = x.sent /\ z.heard = x.heard
  BY ReleaseParts
<1>2. /\ Told(x) \in Seq(Rep) /\ Told(z) \in Seq(Rep)
      /\ Len(Told(z)) = Len(Told(x)) + 1
      /\ \A k \in DOMAIN Told(z) :
            \/ k \in DOMAIN Told(x) /\ Told(z)[k] = Told(x)[k]
            \/ k = Len(Told(x)) + 1 /\ Told(z)[k] = r
  BY <1>1, ToldGrows
<1>3. x.heard \in Nat /\ Len(Told(x)) \in Nat /\ x.out \in Seq(Rep)
  BY <1>2, ConnParts
<1>4. Done(x) = x.heard + Len(Told(x)) + 1
  BY DEF Order, Owed
<1>5. Done(z) = Done(x)
  BY <1>1 DEF Done
<1>6. Owed(z) = x.heard + (Len(Told(x)) + 1) + 0
  BY <1>1, <1>2 DEF Owed
<1>7. Done(z) = Owed(z)
  BY <1>3, <1>4, <1>5, <1>6
<1>8. \A k \in DOMAIN Told(z) : Told(z)[k].id = z.heard + k
  <2>1. \A k \in DOMAIN Told(x) : Told(x)[k].id = x.heard + k
    BY DEF Order
  <2>2. r.id = x.heard + (Len(Told(x)) + 1)
    BY <1>3, <1>4
  <2> QED
    BY <1>1, <1>2, <2>1, <2>2
<1>9. \A k \in DOMAIN z.out : z.out[k].kind = "bad" => z.out[k] = BadReply /\ z.closing
  <2> SUFFICES ASSUME NEW k \in DOMAIN z.out, z.out[k].kind = "bad"
               PROVE  z.out[k] = BadReply /\ z.closing
    OBVIOUS
  <2>1. k \in DOMAIN x.out /\ z.out[k] = x.out[k]
    BY <1>1, <1>3
  <2> QED
    BY <1>1, <2>1 DEF Order
<1>10. Len(z.q) <= z.sent /\ Len(z.q) <= MaxQueue /\ \A k \in DOMAIN z.q : z.q[k].id = Done(z) + k
  BY <1>1, <1>5 DEF Order
<1>11. z.work # "no" => z.q # <<>> /\ ~z.awaiting
  BY <1>1 DEF Order
<1> QED
  BY <1>1, <1>7, <1>8, <1>9, <1>10, <1>11 DEF Order

\* The engine after a sync.
LEMMA SyncedEng ==
  ASSUME NEW e \in Eng, e.durable <= e.last, NEW f,
         f = [e EXCEPT !.durable = e.last] \/ f = [e EXCEPT !.failed = TRUE]
  PROVE  /\ f \in Eng /\ f.by = e.by /\ f.n = e.n /\ f.marks = e.marks /\ f.last = e.last
         /\ e.durable <= f.durable /\ f.durable <= f.last
         /\ f = [e EXCEPT !.durable = e.last] => f.durable = e.last
<1>1. e.last \in Nat /\ e.durable \in Nat
  BY EngParts
<1>2. CASE f = [e EXCEPT !.durable = e.last]
  <2>1. f \in Eng
    BY <1>1, <1>2 DEF Eng
  <2>2. /\ f.by = e.by /\ f.n = e.n /\ f.marks = e.marks /\ f.last = e.last
        /\ f.durable = e.last
    BY <1>2 DEF Eng
  <2> QED
    BY <1>1, <2>1, <2>2
<1>3. CASE f = [e EXCEPT !.failed = TRUE]
  <2>1. f \in Eng
    BY <1>3 DEF Eng
  <2>2. /\ f.by = e.by /\ f.n = e.n /\ f.marks = e.marks /\ f.last = e.last
        /\ f.durable = e.durable
    BY <1>3 DEF Eng
  <2>3. f = [e EXCEPT !.durable = e.last] => f.durable = e.last
    BY DEF Eng
  <2> QED
    BY <1>1, <2>1, <2>2, <2>3
<1> QED
  BY <1>2, <1>3

\* A reply that says more of the same engine, or an engine that made more.
LEMMA SentMore ==
  ASSUME NEW x \in Conn, NEW e \in Eng, NEW f \in Eng, Sent(x, e),
         e.last <= f.last, e.durable <= f.durable
  PROVE  Sent(x, f)
<1>1. x.out \in Seq(Rep)
  BY ConnParts
<1> SUFFICES ASSUME NEW k \in DOMAIN x.out
             PROVE  /\ x.out[k].seq <= f.last
                    /\ x.out[k].kind = "commit" => x.out[k].seq <= f.durable
  BY DEF Sent
<1>2. x.out[k] \in Rep
  BY <1>1
<1>3. x.out[k].seq \in Nat
  BY <1>2 DEF Rep
<1>4. x.out[k].seq <= e.last /\ (x.out[k].kind = "commit" => x.out[k].seq <= e.durable)
  BY DEF Sent
<1>5. {e.last, f.last, e.durable, f.durable} \subseteq Nat
  BY EngParts
<1> QED
  BY <1>3, <1>4, <1>5

\* What the end of a list adds to what is said of its elements.
LEMMA SentAppend ==
  ASSUME NEW x \in Conn, NEW z \in Conn, NEW r \in Rep, NEW f, Sent(x, f),
         z.out = Append(x.out, r), r.seq <= f.last, r.kind = "commit" => r.seq <= f.durable
  PROVE  Sent(z, f)
<1>1. x.out \in Seq(Rep)
  BY ConnParts
<1>2. \A k \in DOMAIN z.out : (k \in DOMAIN x.out /\ z.out[k] = x.out[k]) \/ z.out[k] = r
  BY <1>1
<1> QED
  BY <1>2 DEF Sent

\* The entry of c in the group.
EntryOf(c) == group[CHOOSE k \in DOMAIN group : group[k].c = c]

\* What the entry p hears when the sync is done.
Outcome(p, ok) ==
    [id |-> p.id, kind |-> IF ok THEN "commit" ELSE "error", seq |-> IF ok THEN p.seq ELSE 0]

\* The record of a connection that waits for the sync, when it is done.
LEMMA SyncedOne ==
  ASSUME Sound, NEW c \in Waiting, NEW ok \in BOOLEAN, NEW f \in Eng,
         f.n = eng.n, f.marks = eng.marks, f.last = eng.last,
         eng.durable <= f.durable, f.durable <= f.last, ok => f.durable = eng.last,
         NEW p, p = EntryOf(c), NEW r, r = Outcome(p, ok), NEW z, z = Release(conn[c], r)
  PROVE  /\ z \in Conn /\ z.q = conn[c].q /\ z.work = "no"
         /\ Fits(c, z, writer, fifo, <<>>, f)
<1> DEFINE x == conn[c]
<1>1. c \in Conns /\ x.up = "in" /\ ~x.dead /\ \E k \in DOMAIN group : group[k].c = c
  BY DEF Waiting, Live
<1>2. x \in Conn /\ Fits(c, x, writer, fifo, group, eng) /\ group \in Seq(Grp) /\ eng \in Eng
  BY <1>1 DEF Sound, Types, Fit
<1>3. PICK k \in DOMAIN group : p = group[k] /\ group[k].c = c
  BY <1>1 DEF EntryOf
<1>4. p \in Grp
  BY <1>2, <1>3
<1>5. p.id \in Nat /\ p.seq \in Nat /\ 1 <= p.seq /\ p.seq <= eng.last
  BY <1>3, <1>4 DEF Grp, Sound, Engine
<1> HIDE DEF x
<1>6. x.awaiting /\ p.id = Done(x)
  BY <1>2, <1>3 DEF Fits, Grouped
<1>7. /\ r \in Rep /\ r.kind # "bad" /\ r.id = p.id
      /\ (r.kind = "commit" => ok /\ r.seq = p.seq) /\ (r.seq = p.seq \/ r.seq = 0)
  BY <1>5 DEF Rep, Outcome
<1>8. {eng.last, f.last, eng.durable, f.durable} \subseteq Nat
  BY <1>2, EngParts
<1>9. r.seq <= f.last /\ (r.kind = "commit" => r.seq <= f.durable)
  BY <1>5, <1>7, <1>8
<1>10. z = Release(x, r)
  BY DEF x
<1>11. Order(x) /\ Sent(x, eng) /\ Sees(x, eng) /\ Agrees(x, eng) /\ (writer = c <=> x.tx = "write")
  BY <1>2 DEF Fits
<1>12. c \notin Range(fifo)
  BY <1>2, <1>6 DEF Fits, Parked
<1>13. Order(z)
  BY <1>1, <1>2, <1>6, <1>7, <1>10, <1>11, ReleaseOrder DEF x
<1>14. /\ z \in Conn /\ ~z.awaiting /\ z.out = Append(x.out, r) /\ z.q = x.q
       /\ z.tx = x.tx /\ z.depth = x.depth /\ z.said = x.said /\ z.snap = x.snap
       /\ z.own = x.own /\ z.work = x.work
  <2>1. x \in Conn /\ r \in Rep
    BY <1>2, <1>7
  <2>2. z \in Conn /\ ~z.awaiting /\ z.out = Append(x.out, r) /\ z.q = x.q
    BY <1>10, <2>1, ReleaseParts
  <2>3. z.tx = x.tx /\ z.depth = x.depth /\ z.said = x.said /\ z.snap = x.snap
    BY <1>10, <2>1, ReleaseParts
  <2>4. z.own = x.own /\ z.work = x.work
    BY <1>10, <2>1, ReleaseParts
  <2> QED
    BY <2>2, <2>3, <2>4
<1>15. Sent(x, f)
  <2>1. eng.last <= f.last
    BY <1>8
  <2> QED
    BY <1>2, <1>11, <2>1, SentMore
<1>16. Sent(z, f)
  BY <1>2, <1>7, <1>9, <1>14, <1>15, SentAppend
<1>17. Sees(z, f) /\ Agrees(z, f)
  <2>1. x.snap \in Nat /\ x.own \in Nat
    BY <1>2, ConnParts
  <2>2. z.snap <= f.durable /\ z.own <= f.durable
    <3>1. x.snap <= eng.durable /\ x.own <= eng.durable
      BY <1>11 DEF Sees
    <3>2. x.snap <= f.durable /\ x.own <= f.durable
      BY <1>8, <2>1, <3>1
    <3> QED
      BY <1>14, <3>2
  <2>3. Agrees(z, f)
    BY <1>11, <1>14 DEF Agrees
  <2> QED
    BY <2>2, <2>3 DEF Sees
<1>18. Grouped(c, z, <<>>)
  <2>1. \A j : j \notin DOMAIN <<>>
    OBVIOUS
  <2> QED
    BY <1>14, <2>1 DEF Grouped
<1>19. Fits(c, z, writer, fifo, <<>>, f)
  BY <1>11, <1>12, <1>13, <1>14, <1>16, <1>17, <1>18 DEF Fits
<1>20. z.work = "no"
  BY <1>6, <1>11, <1>14 DEF Order
<1> QED
  BY <1>14, <1>19, <1>20 DEF x

\* Nobody who could not be served before can be after a step that only ends,
\* or leaves without requests, some of the connections.
LEMMA StillLess ==
  ASSUME Still, UNCHANGED <<writer, fifo>>,
         \A c \in Conns : Live(c)' =>
            /\ Live(c) /\ conn'[c].work = conn[c].work
            /\ \/ conn'[c].q = <<>>
               \/ /\ conn'[c].q = conn[c].q /\ conn'[c].closing = conn[c].closing
                  /\ conn'[c].awaiting = conn[c].awaiting /\ conn'[c].hello = conn[c].hello
                  /\ conn'[c].tx = conn[c].tx
  PROVE  Still'
<1> SUFFICES ASSUME NEW c \in Conns, Live(c)' PROVE ~Ready(c)' /\ conn'[c].work = "no"
  BY DEF Still
<1>1. Live(c) /\ ~Ready(c) /\ conn[c].work = "no" /\ conn'[c].work = conn[c].work
  BY DEF Still
<1>2. CASE conn'[c].q = <<>>
  BY <1>1, <1>2 DEF Ready, Unblocked
<1>3. CASE conn'[c].q # <<>>
  <2>1. /\ conn'[c].q = conn[c].q /\ conn'[c].closing = conn[c].closing
        /\ conn'[c].awaiting = conn[c].awaiting /\ conn'[c].hello = conn[c].hello
        /\ conn'[c].tx = conn[c].tx
    BY <1>3
  <2>2. Unblocked(c)' => Unblocked(c)
    BY <1>1, <2>1 DEF Unblocked
  <2>3. NeedsSlot(c)' = NeedsSlot(c) /\ MayWrite(c)' = MayWrite(c) /\ Queued(c)' = Queued(c)
    BY <2>1 DEF NeedsSlot, MayWrite, Queued
  <2> QED
    BY <1>1, <2>2, <2>3 DEF Ready
<1> QED
  BY <1>2, <1>3

\* The record of a connection that waits, once the sync is done (ok) or failed.
Given(c, ok) == Release(conn[c], Outcome(EntryOf(c), ok))

\* The group is synced, or the sync fails.
LEMMA SyncedStep ==
  ASSUME Sound, Synced, UNCHANGED <<writer, fifo, told>>,
         phase' \in Phases, slices' \subseteq Conns, busy' \in BOOLEAN, woke' \in BOOLEAN
  PROVE  /\ Sound'
         /\ \A c \in Conns : \/ conn'[c] = conn[c]
                             \/ c \in Waiting /\ conn'[c].q = conn[c].q /\ conn'[c].work = "no"
<1>1. CASE group = <<>>
  <2>1. UNCHANGED <<conn, group, eng>>
    BY <1>1 DEF Synced
  <2>2. Sound'
    BY <2>1, SoundStays
  <2> QED
    BY <2>1, <2>2
<1>2. CASE group # <<>>
  <2>0. PICK ok \in BOOLEAN :
        /\ eng' = IF ok THEN [eng EXCEPT !.durable = eng.last] ELSE [eng EXCEPT !.failed = TRUE]
        /\ conn' = [c \in Conns |-> IF c \notin Waiting THEN conn[c] ELSE Given(c, ok)]
        /\ group' = <<>>
    BY <1>2 DEF Synced, Given, Release, Outcome, EntryOf
  <2>1. /\ eng' = (IF ok THEN [eng EXCEPT !.durable = eng.last] ELSE [eng EXCEPT !.failed = TRUE])
        /\ group' = <<>>
    BY <2>0
  <2>2. eng \in Eng /\ Engine /\ conn \in [Conns -> Conn]
    BY DEF Sound, Types
  <2>3. PICK f : f = eng'
    OBVIOUS
  <2>4. /\ f \in Eng /\ f.by = eng.by /\ f.n = eng.n /\ f.marks = eng.marks /\ f.last = eng.last
        /\ eng.durable <= f.durable /\ f.durable <= f.last
        /\ ok => f.durable = eng.last
    <3>1. /\ f = [eng EXCEPT !.durable = eng.last] \/ f = [eng EXCEPT !.failed = TRUE]
          /\ ok => f = [eng EXCEPT !.durable = eng.last]
      BY <2>1, <2>3
    <3>2. eng.durable <= eng.last
      BY <2>2 DEF Engine
    <3> QED
      BY <2>2, <3>1, <3>2, SyncedEng
  <2>5. ASSUME NEW c \in Conns
        PROVE  /\ conn'[c] \in Conn /\ Fits(c, conn'[c], writer, fifo, <<>>, f)
               /\ \/ conn'[c] = conn[c]
                  \/ c \in Waiting /\ conn'[c].q = conn[c].q /\ conn'[c].work = "no"
    <3>1. CASE c \in Waiting
      <4>1. PICK p : p = EntryOf(c)
        OBVIOUS
      <4>2. PICK r : r = Outcome(p, ok)
        OBVIOUS
      <4>3. conn'[c] = Given(c, ok)
        BY <2>0, <3>1
      <4>4. Given(c, ok) = Release(conn[c], r)
        BY <4>1, <4>2 DEF Given
      <4>5. PICK z : z = Release(conn[c], r)
        OBVIOUS
      <4>6. /\ z \in Conn /\ z.q = conn[c].q /\ z.work = "no"
            /\ Fits(c, z, writer, fifo, <<>>, f)
        BY <2>4, <3>1, <4>1, <4>2, <4>5, SyncedOne
      <4> QED
        BY <3>1, <4>3, <4>4, <4>5, <4>6
    <3>2. CASE c \notin Waiting
      <4>1. conn'[c] = conn[c]
        BY <2>0, <3>2
      <4>2. Fits(c, conn[c], writer, fifo, group, eng) /\ conn[c] \in Conn
        BY <2>2 DEF Sound, Fit
      <4>3. Grouped(c, conn[c], group)
        BY <4>2 DEF Fits
      <4>4. ~(conn[c].awaiting /\ ~conn[c].dead)
        BY <3>2, <4>3 DEF Grouped, Waiting, Live
      <4>5. Grouped(c, conn[c], <<>>)
        <5>1. \A k : k \notin DOMAIN <<>>
          OBVIOUS
        <5> QED
          BY <4>4, <5>1 DEF Grouped
      <4>6. Sent(conn[c], f)
        <5>1. eng.last <= f.last
          BY <2>2, <2>4, EngParts
        <5>2. Sent(conn[c], eng)
          BY <4>2 DEF Fits
        <5> QED
          BY <2>2, <2>4, <4>2, <5>1, <5>2, SentMore
      <4>7. Sees(conn[c], f)
        <5>1. conn[c].snap \in Nat /\ conn[c].own \in Nat
          BY <4>2, ConnParts
        <5>2. conn[c].snap <= eng.durable /\ conn[c].own <= eng.durable
          BY <4>2 DEF Fits, Sees
        <5>3. eng.durable \in Nat /\ f.durable \in Nat
          BY <2>2, <2>4, EngParts
        <5> QED
          BY <2>4, <5>1, <5>2, <5>3 DEF Sees
      <4>8. Agrees(conn[c], f)
        BY <2>4, <4>2 DEF Fits, Agrees
      <4>9. Fits(c, conn[c], writer, fifo, <<>>, f)
        BY <4>2, <4>5, <4>6, <4>7, <4>8 DEF Fits
      <4> QED
        BY <4>1, <4>2, <4>9
    <3> QED
      BY <3>1, <3>2
  <2>6. conn' \in [Conns -> Conn]
    <3>1. conn' = [c \in Conns |-> conn'[c]]
      BY <2>0
    <3> QED
      BY <2>5, <3>1
  <2>7. Types'
    <3>0. <<>> \in Seq(Grp)
      OBVIOUS
    <3>1. group' \in Seq(Grp)
      BY <2>1, <3>0
    <3> QED
      BY <2>3, <2>4, <2>6, <3>1 DEF Sound, Types
  <2>8. Engine'
    <3>1. /\ told.done <= eng.durable /\ told.rows <= eng.last /\ writer = eng.by
          /\ (eng.by = None => eng.n = 0 /\ eng.marks = <<>>)
      BY <2>2 DEF Engine
    <3>2. told.done \in Nat /\ told.rows \in Nat
      BY DEF Sound, Types
    <3>3. eng.last \in Nat /\ eng.durable \in Nat /\ f.durable \in Nat
      BY <2>2, <2>4, EngParts
    <3>4. told'.done <= f.durable /\ told'.rows <= f.last
      BY <2>4, <3>1, <3>2, <3>3
    <3>0. \A k : k \notin DOMAIN <<>>
      OBVIOUS
    <3>5. \A k : k \notin DOMAIN group'
      BY <2>1, <3>0
    <3> QED
      BY <2>3, <2>4, <3>1, <3>4, <3>5 DEF Engine
  <2>9. ASSUME NEW c \in Conns PROVE Fit(c)'
    <3>1. Fits(c, conn'[c], writer, fifo, <<>>, f)
      BY <2>5
    <3> QED
      BY <2>1, <2>3, <3>1 DEF Fit
  <2>10. Sound'
    BY <2>7, <2>8, <2>9 DEF Sound
  <2> QED
    BY <2>5, <2>10
<1> QED
  BY <1>1, <1>2

\* GroupSync keeps the invariant.
LEMMA GroupSyncStep ==
  ASSUME IInv, GroupSync
  PROVE  IInv'
<1>1. /\ phase = "work" /\ slices = {} /\ Synced /\ phase' = "flush"
      /\ busy' = (busy \/ \E c \in Waiting : conn[c].q # <<>>)
      /\ UNCHANGED <<writer, fifo, slices, woke, told>>
  BY DEF GroupSync
<1>2. Sound /\ slices \subseteq Conns /\ busy \in BOOLEAN /\ woke \in BOOLEAN
  BY DEF IInv, Sound, Types
<1>3. phase' \in Phases /\ slices' \subseteq Conns /\ busy' \in BOOLEAN /\ woke' \in BOOLEAN
  BY <1>1, <1>2 DEF Phases
<1>4. /\ Sound'
      /\ \A c \in Conns : \/ conn'[c] = conn[c]
                          \/ c \in Waiting /\ conn'[c].q = conn[c].q /\ conn'[c].work = "no"
  BY <1>1, <1>2, <1>3, SyncedStep
<1>5. ASSUME ~busy' PROVE Still' /\ slices' = {}
  <2>1. ~busy /\ Still /\ \A c \in Waiting : conn[c].q = <<>>
    BY <1>1, <1>5 DEF IInv, Turning
  <2>2. ASSUME NEW c \in Conns, Live(c)'
        PROVE  /\ Live(c) /\ conn'[c].work = conn[c].work
               /\ \/ conn'[c].q = <<>>
                  \/ /\ conn'[c].q = conn[c].q /\ conn'[c].closing = conn[c].closing
                     /\ conn'[c].awaiting = conn[c].awaiting /\ conn'[c].hello = conn[c].hello
                     /\ conn'[c].tx = conn[c].tx
    <3>1. CASE conn'[c] = conn[c]
      BY <2>2, <3>1 DEF Live
    <3>2. CASE c \in Waiting /\ conn'[c].q = conn[c].q /\ conn'[c].work = "no"
      BY <2>1, <3>2 DEF Waiting, Still
    <3> QED
      BY <1>4, <3>1, <3>2
  <2>3. Still'
    BY <1>1, <2>1, <2>2, StillLess
  <2> QED
    BY <1>1, <2>3
<1>6. Turning'
  BY <1>1, <1>5 DEF Turning
<1> QED
  BY <1>4, <1>6 DEF IInv

\* LastSync keeps the invariant.
LEMMA LastSyncStep ==
  ASSUME IInv, LastSync
  PROVE  IInv'
<1>1. /\ Synced /\ phase' = "last_flush" /\ UNCHANGED <<writer, fifo, slices, busy, woke, told>>
  BY DEF LastSync
<1>2. Sound /\ slices \subseteq Conns /\ busy \in BOOLEAN /\ woke \in BOOLEAN
  BY DEF IInv, Sound, Types
<1>3. phase' \in Phases /\ slices' \subseteq Conns /\ busy' \in BOOLEAN /\ woke' \in BOOLEAN
  BY <1>1, <1>2 DEF Phases
<1>4. Sound'
  BY <1>1, <1>2, <1>3, SyncedStep
<1> QED
  BY <1>1, <1>4 DEF IInv, Turning

\* The record of a connection whose socket broke, and of one whose socket took
\* what waited for it.
Broken(x) == [x EXCEPT !.dead = TRUE]
Written(x) == [x EXCEPT !.heard = @ + Len(x.out), !.out = <<>>, !.dead = x.closing]

\* What a flush leaves alone.
SameState(x, z) ==
    /\ z.up = x.up /\ z.hello = x.hello /\ z.closing = x.closing /\ z.tx = x.tx
    /\ z.depth = x.depth /\ z.said = x.said /\ z.snap = x.snap /\ z.own = x.own
    /\ z.work = x.work /\ z.curs = x.curs /\ z.awaiting = x.awaiting /\ z.q = x.q /\ z.sent = x.sent

\* The parts of a record whose socket broke.
LEMMA BrokenParts ==
  ASSUME NEW x \in Conn, NEW z, z = Broken(x)
  PROVE  z \in Conn /\ SameState(x, z) /\ z.dead /\ z.out = x.out /\ z.heard = x.heard
<1>1. z \in Conn
  BY DEF Broken, Conn
<1> QED
  BY <1>1 DEF Broken, Conn, SameState

\* The parts of a record whose socket took its output.
LEMMA WrittenParts ==
  ASSUME NEW x \in Conn, NEW z, z = Written(x)
  PROVE  /\ z \in Conn /\ SameState(x, z) /\ z.dead = x.closing /\ z.out = <<>>
         /\ z.heard = x.heard + Len(x.out)
<1>1. x.out \in Seq(Rep) /\ x.heard \in Nat /\ x.closing \in BOOLEAN
  BY ConnParts
<1>2. <<>> \in Seq(Rep) /\ x.heard + Len(x.out) \in Nat
  BY <1>1
<1>3. PICK s \in Seq(Rep), h \in Nat : s = <<>> /\ h = x.heard + Len(x.out)
  BY <1>2
<1>4. s \in Seq(Rep) /\ h \in Nat
  BY <1>3
<1>5. z = [x EXCEPT !.heard = h, !.out = s, !.dead = x.closing]
  BY <1>3 DEF Written, Conn
<1>6. z \in Conn
  BY <1>1, <1>4, <1>5 DEF Conn
<1>7. SameState(x, z) /\ z.dead = x.closing /\ z.out = s /\ z.heard = h
  BY <1>1, <1>4, <1>5 DEF Conn, SameState
<1> QED
  BY <1>3, <1>6, <1>7

\* What waits for a socket is told, and no more is owed for it.
LEMMA WrittenOrder ==
  ASSUME NEW x \in Conn, Order(x), ~x.dead, x.up = "in", NEW z, z = Written(x)
  PROVE  Order(z)
<1>1. /\ z \in Conn /\ SameState(x, z) /\ z.dead = x.closing /\ z.out = <<>>
      /\ z.heard = x.heard + Len(x.out)
  BY WrittenParts
<1>2. x.out \in Seq(Rep) /\ x.heard \in Nat /\ z.out \in Seq(Rep)
  BY <1>1, ConnParts
<1>3. Told(z) = <<>>
  <2>1. \A k \in DOMAIN z.out : z.out[k] \notin {BadReply}
    BY <1>1
  <2>2. Dropped(z.out, {BadReply}) = z.out
    BY <1>2, <2>1, DroppedNone
  <2> QED
    BY <1>1, <2>2 DEF Told
<1>4. Done(z) = Done(x)
  BY <1>1 DEF Done, SameState
<1>5. CASE ~x.closing
  <2>1. \A k \in DOMAIN x.out : x.out[k] \notin {BadReply}
    BY <1>5 DEF Order, BadReply
  <2>2. Dropped(x.out, {BadReply}) = x.out
    BY <1>2, <2>1, DroppedNone
  <2>3. Told(x) = x.out
    BY <2>2 DEF Told
  <2>4. Done(x) = Owed(x)
    BY <1>5 DEF Order
  <2>5. Owed(x) = x.heard + Len(x.out) + (IF x.awaiting THEN 1 ELSE 0)
    BY <2>3 DEF Owed
  <2>6. Len(Told(z)) = 0
    BY <1>3
  <2>7. Owed(z) = x.heard + Len(x.out) + 0 + (IF x.awaiting THEN 1 ELSE 0)
    BY <1>1, <2>6 DEF Owed, SameState
  <2>8. Len(x.out) \in Nat
    BY <1>2
  <2>9. Owed(z) = Owed(x)
    BY <1>2, <2>5, <2>7, <2>8
  <2> QED
    BY <1>1, <1>3, <1>4, <2>4, <2>9 DEF Order, SameState
<1>6. CASE x.closing
  BY <1>1, <1>3, <1>4, <1>6 DEF Order, SameState
<1> QED
  BY <1>5, <1>6

\* A connection still fits after a flush.
LEMMA FlushedOne ==
  ASSUME NEW c, NEW x \in Conn, NEW w, NEW f, NEW g, NEW e, Fits(c, x, w, f, g, e),
         ~x.dead, x.up = "in", NEW z, z = Broken(x) \/ z = Written(x)
  PROVE  z \in Conn /\ SameState(x, z) /\ Fits(c, z, w, f, g, e)
<1>1. /\ Order(x) /\ Sent(x, e) /\ Sees(x, e) /\ Agrees(x, e) /\ (w = c <=> x.tx = "write")
      /\ (c \in Range(f) => Parked(x)) /\ Grouped(c, x, g)
  BY DEF Fits
<1>2. z \in Conn /\ SameState(x, z)
  BY BrokenParts, WrittenParts
<1>3. Sees(z, e) /\ Agrees(z, e) /\ (w = c <=> z.tx = "write") /\ (c \in Range(f) => Parked(z))
  BY <1>1, <1>2 DEF Sees, Agrees, Parked, SameState
<1>4. Done(z) = Done(x)
  BY <1>2 DEF Done, SameState
<1>5. Grouped(c, z, g)
  BY <1>1, <1>2, <1>4 DEF Grouped, SameState
<1>6. CASE z = Broken(x)
  <2>1. z.dead /\ z.out = x.out /\ z.heard = x.heard
    BY <1>6, BrokenParts
  <2>2. Told(z) = Told(x)
    BY <2>1 DEF Told
  <2>3. Order(z)
    BY <1>1, <1>2, <1>4, <2>1, <2>2 DEF Order, SameState
  <2>4. Sent(z, e)
    BY <1>1, <2>1 DEF Sent
  <2> QED
    BY <1>2, <1>3, <1>5, <2>3, <2>4 DEF Fits
<1>7. CASE z = Written(x)
  <2>1. z.out = <<>>
    BY <1>7, WrittenParts
  <2>2. Order(z)
    BY <1>1, <1>7, WrittenOrder
  <2>3. Sent(z, e)
    BY <2>1 DEF Sent
  <2> QED
    BY <1>2, <1>3, <1>5, <2>2, <2>3 DEF Fits
<1> QED
  BY <1>6, <1>7

\* The newest of a set of numbers is no more than what bounds them all.
LEMMA MaxBounded ==
  ASSUME NEW T \in SUBSET Nat, T # {}, NEW b \in Nat, \A y \in T : y <= b
  PROVE  Max(T) \in Nat /\ Max(T) <= b
<1>1. Max(T) \in T
  BY GreatestElement
<1> QED
  BY <1>1

\* The newest commit that the replies of outs show.
LEMMA NewestBounded ==
  ASSUME NEW outs \in SUBSET Seq(Rep), NEW kind, NEW b \in Nat,
         \A s \in outs : \A k \in DOMAIN s : s[k].kind = kind => s[k].seq <= b
  PROVE  Newest(outs, kind) \in Nat /\ Newest(outs, kind) <= b
<1> DEFINE P == {p \in UNION {Range(s) : s \in outs} : p.kind = kind}
           T == {0} \cup {o.seq : o \in P}
<1>1. ASSUME NEW p \in P PROVE p.seq \in Nat /\ p.seq <= b
  <2>1. PICK s \in outs : p \in Range(s)
    OBVIOUS
  <2>2. PICK k \in DOMAIN s : p = s[k]
    BY <2>1 DEF Range
  <2>3. s \in Seq(Rep)
    OBVIOUS
  <2>4. p \in Rep
    BY <2>2, <2>3
  <2> QED
    BY <2>2, <2>4 DEF Rep
<1> HIDE DEF P
<1>2. T \in SUBSET Nat /\ T # {} /\ \A y \in T : y <= b
  BY <1>1
<1>3. Newest(outs, kind) = Max(T)
  BY DEF Newest, P
<1> HIDE DEF T
<1> QED
  BY <1>2, <1>3, MaxBounded

\* The sockets take what waits for them, or break.
LEMMA FlushedStep ==
  ASSUME Sound, Flushed, UNCHANGED <<writer, fifo, group, eng>>,
         phase' \in Phases, slices' \subseteq Conns, busy' \in BOOLEAN, woke' \in BOOLEAN
  PROVE  /\ Sound'
         /\ \A c \in Conns : \/ conn'[c] = conn[c]
                             \/ Live(c) /\ SameState(conn[c], conn'[c])
<1>1. PICK f \in [Conns -> {"sent", "blocked", "broken"}] :
        /\ conn' = [c \in Conns |->
              IF ~Live(c) \/ f[c] = "blocked" THEN conn[c]
              ELSE IF f[c] = "broken" THEN Broken(conn[c]) ELSE Written(conn[c])]
        /\ LET outs == {conn[c].out : c \in {d \in Conns : Live(d) /\ f[d] = "sent"}}
           IN told' = [done |-> Max({told.done, Newest(outs, "commit")}),
                       rows |-> Max({told.rows, Newest(outs, "rows")})]
  BY DEF Flushed, Broken, Written
<1>2. eng \in Eng /\ Engine /\ conn \in [Conns -> Conn] /\ told.done \in Nat /\ told.rows \in Nat
  BY DEF Sound, Types
<1>3. ASSUME NEW c \in Conns
      PROVE  /\ conn'[c] \in Conn /\ Fits(c, conn'[c], writer, fifo, group, eng)
             /\ \/ conn'[c] = conn[c]
                \/ Live(c) /\ SameState(conn[c], conn'[c])
  <2>1. conn[c] \in Conn /\ Fits(c, conn[c], writer, fifo, group, eng)
    BY <1>2 DEF Sound, Fit
  <2>2. \/ conn'[c] = conn[c]
        \/ Live(c) /\ (conn'[c] = Broken(conn[c]) \/ conn'[c] = Written(conn[c]))
    BY <1>1
  <2>3. CASE conn'[c] = conn[c]
    BY <2>1, <2>3
  <2>4. CASE Live(c) /\ (conn'[c] = Broken(conn[c]) \/ conn'[c] = Written(conn[c]))
    <3>1. conn[c].up = "in" /\ ~conn[c].dead
      BY <2>4 DEF Live
    <3> QED
      BY <2>1, <2>4, <3>1, FlushedOne
  <2> QED
    BY <2>2, <2>3, <2>4
<1>4. conn' \in [Conns -> Conn]
  <2>1. conn' = [c \in Conns |-> conn'[c]]
    BY <1>1
  <2> QED
    BY <1>3, <2>1
<1>5. eng.last \in Nat /\ eng.durable \in Nat /\ told.done <= eng.durable /\ told.rows <= eng.last
  BY <1>2, EngParts DEF Engine
<1>6. PICK outs : /\ outs = {conn[c].out : c \in {d \in Conns : Live(d) /\ f[d] = "sent"}}
                  /\ told' = [done |-> Max({told.done, Newest(outs, "commit")}),
                              rows |-> Max({told.rows, Newest(outs, "rows")})]
  BY <1>1
<1>7. outs \in SUBSET Seq(Rep)
  <2>1. \A c \in Conns : conn[c].out \in Seq(Rep)
    BY <1>2, ConnParts
  <2> QED
    BY <1>6, <2>1
<1>8. ASSUME NEW s \in outs, NEW k \in DOMAIN s
      PROVE  s[k].seq <= eng.last /\ (s[k].kind = "commit" => s[k].seq <= eng.durable)
  <2>1. PICK c \in Conns : s = conn[c].out
    BY <1>6
  <2>2. Sent(conn[c], eng)
    BY DEF Sound, Fit, Fits
  <2> QED
    BY <2>1, <2>2 DEF Sent
<1>9. Newest(outs, "commit") \in Nat /\ Newest(outs, "commit") <= eng.durable
  BY <1>5, <1>7, <1>8, NewestBounded
<1>10. Newest(outs, "rows") \in Nat /\ Newest(outs, "rows") <= eng.last
  BY <1>5, <1>7, <1>8, NewestBounded
<1>11. Max({told.done, Newest(outs, "commit")}) \in Nat
       /\ Max({told.done, Newest(outs, "commit")}) <= eng.durable
  BY <1>2, <1>5, <1>9, MaxBounded
<1>12. Max({told.rows, Newest(outs, "rows")}) \in Nat
       /\ Max({told.rows, Newest(outs, "rows")}) <= eng.last
  BY <1>2, <1>5, <1>10, MaxBounded
<1>13. /\ told' \in [done : Nat, rows : Nat] /\ told'.done <= eng.durable /\ told'.rows <= eng.last
  BY <1>6, <1>11, <1>12
<1>14. Types'
  BY <1>4, <1>13 DEF Sound, Types
<1>15. Engine'
  BY <1>2, <1>13 DEF Engine
<1>16. ASSUME NEW c \in Conns PROVE Fit(c)'
  BY <1>3 DEF Fit
<1> QED
  BY <1>3, <1>14, <1>15, <1>16 DEF Sound

\* Flush keeps the invariant.
LEMMA FlushStep ==
  ASSUME IInv, Flush
  PROVE  IInv'
<1>1. /\ phase = "flush" /\ Flushed /\ phase' = "reap"
      /\ UNCHANGED <<writer, fifo, group, eng, slices, busy, woke>>
  BY DEF Flush
<1>2. Sound /\ slices \subseteq Conns /\ busy \in BOOLEAN /\ woke \in BOOLEAN
  BY DEF IInv, Sound, Types
<1>3. phase' \in Phases /\ slices' \subseteq Conns /\ busy' \in BOOLEAN /\ woke' \in BOOLEAN
  BY <1>1, <1>2 DEF Phases
<1>4. /\ Sound'
      /\ \A c \in Conns : conn'[c] = conn[c] \/ (Live(c) /\ SameState(conn[c], conn'[c]))
  BY <1>1, <1>2, <1>3, FlushedStep
<1>5. ASSUME ~busy' PROVE Still' /\ slices' = {}
  <2>1. Still /\ slices = {}
    BY <1>1, <1>5 DEF IInv, Turning
  <2>2. ASSUME NEW c \in Conns, Live(c)'
        PROVE  /\ Live(c) /\ conn'[c].work = conn[c].work
               /\ conn'[c].q = conn[c].q /\ conn'[c].closing = conn[c].closing
               /\ conn'[c].awaiting = conn[c].awaiting /\ conn'[c].hello = conn[c].hello
               /\ conn'[c].tx = conn[c].tx
    <3>1. CASE conn'[c] = conn[c]
      BY <2>2, <3>1 DEF Live
    <3>2. CASE Live(c) /\ SameState(conn[c], conn'[c])
      BY <3>2 DEF SameState
    <3> QED
      BY <1>4, <3>1, <3>2
  <2>3. Still'
    BY <1>1, <2>1, <2>2, StillLess
  <2> QED
    BY <1>1, <2>1, <2>3
<1>6. Turning'
  BY <1>1, <1>5 DEF Turning
<1> QED
  BY <1>4, <1>6 DEF IInv

\* LastFlush keeps the invariant.
LEMMA LastFlushStep ==
  ASSUME IInv, LastFlush
  PROVE  IInv'
<1>1. /\ Flushed /\ phase' = "cleanup" /\ UNCHANGED <<writer, fifo, group, eng, slices, busy, woke>>
  BY DEF LastFlush
<1>2. Sound /\ slices \subseteq Conns /\ busy \in BOOLEAN /\ woke \in BOOLEAN
  BY DEF IInv, Sound, Types
<1>3. phase' \in Phases /\ slices' \subseteq Conns /\ busy' \in BOOLEAN /\ woke' \in BOOLEAN
  BY <1>1, <1>2 DEF Phases
<1>4. Sound'
  BY <1>1, <1>2, <1>3, FlushedStep
<1> QED
  BY <1>1, <1>4 DEF IInv, Turning

\* The engine and the slot when what the connections of D hold is given up.
LEMMA EngineEnds ==
  ASSUME Sound, NEW D \in SUBSET Conns, writer' = IF writer \in D THEN None ELSE writer,
         NEW f, f = IF eng.by \in D THEN Aborted(eng, eng.by) ELSE eng
  PROVE  /\ f \in Eng /\ f.last = eng.last /\ f.durable = eng.durable /\ writer' = f.by
         /\ f.by = None => f.n = 0 /\ f.marks = <<>>
         /\ \A d \in Conns : d \in D => writer' # d
         /\ \A d \in Conns : d \notin D =>
               (writer' = d <=> writer = d) /\ (eng.by = d => f.n = eng.n /\ f.marks = eng.marks)
<1>1. /\ eng \in Eng /\ writer = eng.by /\ (eng.by = None => eng.n = 0 /\ eng.marks = <<>>)
      /\ None \notin Conns
  BY OwnerAssumption DEF Sound, Types, Engine
<1>2. CASE eng.by \in D
  <2>1. f = [eng EXCEPT !.by = None, !.n = 0, !.marks = <<>>] /\ writer' = None
    BY <1>1, <1>2 DEF Aborted
  <2>2. /\ f \in Eng /\ f.by = None /\ f.n = 0 /\ f.marks = <<>>
        /\ f.last = eng.last /\ f.durable = eng.durable
    BY <1>1, <2>1, EngEmptied
  <2>3. \A d \in Conns : d \notin D => eng.by # d /\ writer' # d
    BY <1>1, <1>2, <2>1
  <2> QED
    BY <1>1, <2>1, <2>2, <2>3
<1>3. CASE eng.by \notin D
  <2>1. f = eng /\ writer' = writer
    BY <1>1, <1>3
  <2> QED
    BY <1>1, <1>3, <2>1
<1> QED
  BY <1>2, <1>3

\* What is said of the engine stays true of one that lost a transaction.
LEMMA EngineFewer ==
  ASSUME Sound, NEW f \in Eng, f.last = eng.last, f.durable = eng.durable,
         writer' = f.by, f.by = None => f.n = 0 /\ f.marks = <<>>, eng' = f,
         told' = told, NEW g \in Seq(Grp), group' = g, DOMAIN g = DOMAIN group,
         \A k \in DOMAIN group : g[k].seq = group[k].seq
  PROVE  Engine'
<1>1. Engine
  BY DEF Sound
<1> QED
  BY <1>1 DEF Engine

\* The record of a connection that is gone.
Gone == [NewConn EXCEPT !.up = "gone"]

\* The parts of a record with no connection, which is in order.
LEMMA GoneParts ==
  ASSUME NEW y \in {NewConn, Gone}
  PROVE  /\ y \in Conn /\ y.up # "in" /\ ~y.closing /\ ~y.dead /\ y.tx = "none" /\ y.depth = 0
         /\ y.snap = 0 /\ y.own = 0 /\ y.work = "no" /\ y.curs = {} /\ ~y.awaiting /\ y.q = <<>>
         /\ y.out = <<>> /\ y.sent = 0 /\ y.heard = 0
         /\ Order(y)
<1>1. /\ <<>> \in Seq(Nat) /\ <<>> \in Seq(Req) /\ <<>> \in Seq(Rep)
      /\ "none" \in Txs /\ "no" \in Works /\ {} \in Cursors
  BY DEF Txs, Works, Cursors
<1>2. ASSUME NEW u \in {"out", "gone"}, NEW e \in Seq(Nat), NEW q \in Seq(Req), NEW o \in Seq(Rep),
             NEW t \in Txs, NEW w \in Works, NEW cs \in Cursors,
             NEW z, z = [up |-> u, hello |-> FALSE, closing |-> FALSE, dead |-> FALSE,
                         tx |-> t, depth |-> 0, said |-> e, snap |-> 0, own |-> 0,
                         work |-> w, curs |-> cs, awaiting |-> FALSE, committed |-> FALSE,
                         q |-> q, out |-> o, sent |-> 0, heard |-> 0]
      PROVE  z \in Conn
  BY <1>2 DEF Conn
<1>3. /\ y.up # "in" /\ ~y.closing /\ ~y.dead /\ y.tx = "none" /\ y.depth = 0
      /\ y.snap = 0 /\ y.own = 0 /\ y.work = "no" /\ y.curs = {} /\ ~y.awaiting /\ y.q = <<>>
      /\ y.out = <<>> /\ y.sent = 0 /\ y.heard = 0
  BY DEF NewConn, Gone
<1>4. y \in Conn
  <2>1. \E u \in {"out", "gone"} :
          y = [up |-> u, hello |-> FALSE, closing |-> FALSE, dead |-> FALSE,
               tx |-> "none", depth |-> 0, said |-> <<>>, snap |-> 0, own |-> 0,
               work |-> "no", curs |-> {}, awaiting |-> FALSE, committed |-> FALSE,
               q |-> <<>>, out |-> <<>>, sent |-> 0, heard |-> 0]
    BY DEF NewConn, Gone
  <2> QED
    BY <1>1, <1>2, <2>1
<1>5. Told(y) = <<>>
  <2>1. y.out \in Seq(Rep)
    BY <1>1, <1>3
  <2>2. \A k \in DOMAIN y.out : y.out[k] \notin {BadReply}
    BY <1>3
  <2>3. Dropped(y.out, {BadReply}) = y.out
    BY <2>1, <2>2, DroppedNone
  <2> QED
    BY <1>3, <2>3 DEF Told
<1>6. Len(y.q) = 0 /\ Len(Told(y)) = 0 /\ MaxQueue \in Nat
  BY <1>3, <1>5, OwnerAssumption
<1>7. Done(y) = 0 /\ Owed(y) = 0
  <2>1. Done(y) = 0 - 0
    BY <1>3, <1>6 DEF Done
  <2>2. Owed(y) = 0 + 0 + 0
    BY <1>3, <1>6 DEF Owed
  <2> QED
    BY <2>1, <2>2
<1>8. Order(y)
  BY <1>3, <1>5, <1>6, <1>7 DEF Order
<1> QED
  BY <1>3, <1>4, <1>8

\* A connection with nothing but its record fits.
LEMMA GoneFits ==
  ASSUME NEW c, NEW y \in {NewConn, Gone}, NEW w, w # c, NEW f, c \notin Range(f),
         NEW g, \A k \in DOMAIN g : g[k].c # c, NEW e \in Eng
  PROVE  Fits(c, y, w, f, g, e)
<1>1. /\ y.tx = "none" /\ y.depth = 0 /\ y.snap = 0 /\ y.own = 0 /\ ~y.awaiting /\ y.out = <<>>
      /\ Order(y)
  BY GoneParts
<1>2. 0 <= e.durable
  BY EngParts
<1>3. Sent(y, e)
  BY <1>1 DEF Sent
<1>4. Sees(y, e) /\ Agrees(y, e) /\ Grouped(c, y, g)
  BY <1>1, <1>2 DEF Sees, Agrees, Grouped
<1> QED
  BY <1>1, <1>3, <1>4 DEF Fits

\* The connections of D are freed.
LEMMA CleanedStep ==
  ASSUME Sound, NEW D \in SUBSET Conns, Cleaned(D), told' = told,
         phase' \in Phases, slices' \subseteq Conns, busy' \in BOOLEAN, woke' \in BOOLEAN
  PROVE  Sound'
<1>1. /\ conn' = [c \in Conns |-> IF c \in D THEN Gone ELSE conn[c]]
      /\ writer' = IF writer \in D THEN None ELSE writer
      /\ eng' = IF eng.by \in D THEN Aborted(eng, eng.by) ELSE eng
      /\ fifo' = Dropped(fifo, D)
      /\ group' = [k \in DOMAIN group |->
                     IF group[k].c \in D THEN [group[k] EXCEPT !.c = None] ELSE group[k]]
  BY DEF Cleaned, Gone
<1>2. PICK f : f = eng'
  OBVIOUS
<1>3. /\ f \in Eng /\ f.last = eng.last /\ f.durable = eng.durable /\ writer' = f.by
      /\ f.by = None => f.n = 0 /\ f.marks = <<>>
      /\ \A d \in Conns : d \in D => writer' # d
      /\ \A d \in Conns : d \notin D =>
            (writer' = d <=> writer = d) /\ (eng.by = d => f.n = eng.n /\ f.marks = eng.marks)
  BY <1>1, <1>2, EngineEnds
<1>4. fifo' \in Seq(Conns) /\ IsInjective(fifo') /\ Range(fifo') = Range(fifo) \ D
  <2>1. fifo \in Seq(Conns) /\ IsInjective(fifo)
    BY DEF Sound, Types
  <2> QED
    BY <1>1, <2>1, DroppedOnce
<1>5. PICK g : g = group'
  OBVIOUS
<1>6. group \in Seq(Grp) /\ None \notin Conns /\ None \notin D
  BY OwnerAssumption DEF Sound, Types
<1>7. ASSUME NEW k \in DOMAIN group
      PROVE  /\ g[k] \in Grp /\ g[k].seq = group[k].seq /\ g[k].id = group[k].id
             /\ (group[k].c \in D => g[k].c = None) /\ (group[k].c \notin D => g[k].c = group[k].c)
  <2>1. group[k] \in Grp
    BY <1>6
  <2>2. g[k] = IF group[k].c \in D THEN [group[k] EXCEPT !.c = None] ELSE group[k]
    BY <1>1, <1>5
  <2> QED
    BY <2>1, <2>2 DEF Grp
<1>8. DOMAIN g = DOMAIN group /\ g \in Seq(Grp)
  <2>1. g = [k \in DOMAIN group |-> g[k]]
    BY <1>1, <1>5
  <2>2. DOMAIN group = 1 .. Len(group) /\ Len(group) \in Nat
    BY <1>6
  <2>3. g = [k \in 1 .. Len(group) |-> g[k]] /\ \A k \in 1 .. Len(group) : g[k] \in Grp
    BY <1>7, <2>1, <2>2
  <2>4. g \in Seq(Grp)
    BY <2>2, <2>3, Listed
  <2> QED
    BY <2>1, <2>4
<1>9. Types'
  <2>1. conn' \in [Conns -> Conn]
    <3>1. Gone \in Conn
      BY GoneParts
    <3>2. conn \in [Conns -> Conn]
      BY DEF Sound, Types
    <3> QED
      BY <1>1, <3>1, <3>2
  <2>2. writer' \in Conns \cup {None}
    BY <1>3, EngParts
  <2>3. told' \in [done : Nat, rows : Nat]
    BY DEF Sound, Types
  <2> QED
    BY <1>2, <1>3, <1>4, <1>5, <1>8, <2>1, <2>2, <2>3 DEF Types
<1>10. Engine'
  BY <1>2, <1>3, <1>5, <1>7, <1>8, EngineFewer
<1>11. ASSUME NEW d \in Conns PROVE Fit(d)'
  <2>1. CASE d \in D
    <3>1. conn'[d] = Gone /\ writer' # d /\ d \notin Range(fifo')
      BY <1>1, <1>3, <1>4, <2>1
    <3>2. \A k \in DOMAIN g : g[k].c # d
      BY <1>6, <1>7, <1>8, <2>1
    <3>3. Fits(d, Gone, writer', fifo', g, f)
      BY <1>3, <3>1, <3>2, GoneFits
    <3> QED
      BY <1>2, <1>5, <3>1, <3>3 DEF Fit
  <2>2. CASE d \notin D
    <3>1. conn'[d] = conn[d] /\ (d \in Range(fifo') => d \in Range(fifo))
      BY <1>1, <1>4, <2>2
    <3>2. Grouped(d, conn[d], group)
      BY DEF Sound, Fit, Fits
    <3>3. \A k \in DOMAIN group : g[k].id = group[k].id /\ (g[k].c = d <=> group[k].c = d)
      BY <1>6, <1>7, <2>2
    <3>4. Grouped(d, conn[d], group')
      BY <1>5, <1>8, <3>2, <3>3 DEF Grouped
    <3>5. eng' \in Eng /\ eng.last <= eng'.last /\ eng.durable <= eng'.durable
      BY <1>2, <1>3, EngParts
    <3>6. /\ writer' = d <=> writer = d
          /\ eng.by = d => eng'.n = eng.n /\ eng'.marks = eng.marks
      BY <1>2, <1>3, <2>2
    <3> QED
      BY <3>1, <3>4, <3>5, <3>6, Untouched
  <2> QED
    BY <2>1, <2>2
<1> QED
  BY <1>9, <1>10, <1>11 DEF Sound

\* Reap keeps the invariant.
LEMMA ReapStep ==
  ASSUME IInv, Reap
  PROVE  IInv'
<1> DEFINE D == {c \in Conns : conn[c].up = "in" /\ conn[c].dead}
<1>1. /\ phase = "reap" /\ Cleaned(D) /\ phase' = (IF D # {} THEN "process" ELSE "timeouts")
      /\ UNCHANGED <<slices, busy, woke, told>>
  BY DEF Reap
<1>2. Sound /\ slices \subseteq Conns /\ busy \in BOOLEAN /\ woke \in BOOLEAN
  BY DEF IInv, Sound, Types
<1>3. phase' \in Phases /\ slices' \subseteq Conns /\ busy' \in BOOLEAN /\ woke' \in BOOLEAN
  BY <1>1, <1>2 DEF Phases
<1>4. D \in SUBSET Conns
  OBVIOUS
<1> HIDE DEF D
<1>5. Sound'
  BY <1>1, <1>2, <1>3, <1>4, CleanedStep
<1>6. CASE D # {}
  BY <1>1, <1>5, <1>6 DEF IInv, Turning
<1>7. CASE D = {}
  <2>1. conn' = conn /\ writer' = writer
    BY <1>1, <1>2, <1>7 DEF Cleaned, Sound, Types
  <2>2. fifo' = fifo
    <3>1. fifo \in Seq(Conns) /\ fifo' = Dropped(fifo, {})
      BY <1>1, <1>2, <1>7 DEF Cleaned, Sound, Types
    <3>2. \A k \in DOMAIN fifo : fifo[k] \notin {}
      OBVIOUS
    <3> QED
      BY <3>1, <3>2, DroppedNone
  <2>3. ~busy' => Still' /\ slices' = {}
    BY <1>1, <2>1, <2>2, StillStays DEF IInv, Turning
  <2>4. Turning'
    BY <1>1, <1>7, <2>3 DEF Turning
  <2> QED
    BY <1>5, <2>4 DEF IInv
<1> QED
  BY <1>6, <1>7

\* Cleanup keeps the invariant.
LEMMA CleanupStep ==
  ASSUME IInv, Cleanup
  PROVE  IInv'
<1>1. PICK D \in SUBSET Conns : Cleaned(D)
  BY DEF Cleanup
<1>2. phase' = "stopped" /\ UNCHANGED <<slices, busy, woke, told>>
  BY DEF Cleanup
<1>3. Sound /\ slices \subseteq Conns /\ busy \in BOOLEAN /\ woke \in BOOLEAN
  BY DEF IInv, Sound, Types
<1>4. phase' \in Phases /\ slices' \subseteq Conns /\ busy' \in BOOLEAN /\ woke' \in BOOLEAN
  BY <1>2, <1>3 DEF Phases
<1>5. Sound'
  BY <1>1, <1>2, <1>3, <1>4, CleanedStep
<1> QED
  BY <1>2, <1>5 DEF IInv, Turning

\* A record that lost its transaction, or cursors, is in order as it was.
LEMMA ExpiredOrder ==
  ASSUME NEW x, NEW y, SameTalk(x, y), y.work = x.work, y.curs \subseteq x.curs, Order(x),
         y.tx = x.tx \/ x.up = "in"
  PROVE  Order(y)
<1>1. Told(y) = Told(x) /\ Done(y) = Done(x) /\ Owed(y) = Owed(x)
  BY DEF SameTalk, Told, Done, Owed
<1>2. x.up # "in" => y.curs = {} /\ y.tx = "none"
  BY DEF Order
<1> QED
  BY <1>1, <1>2 DEF Order, SameTalk

\* The record x of c without the cursors of l, and without its transaction if
\* that is one of T.
Expired(x, l, c, T) ==
    LET y == [x EXCEPT !.curs = @ \ l] IN IF c \in T THEN Ended(y, "timed_out") ELSE y

\* The parts of a record that was idle too long.
LEMMA ExpiredParts ==
  ASSUME NEW x \in Conn, NEW l \in Cursors, NEW c, NEW T,
         NEW z, z = Expired(x, l, c, T)
  PROVE  /\ z \in Conn /\ SameTalk(x, z) /\ z.work = x.work /\ z.hello = x.hello
         /\ z.curs \subseteq x.curs /\ z.own = x.own
         /\ c \in T => z.tx = "timed_out" /\ z.snap = 0
         /\ c \notin T => z.tx = x.tx /\ z.snap = x.snap /\ z.depth = x.depth /\ z.said = x.said
<1>1. x.curs \in Cursors
  BY ConnParts
<1>2. PICK k \in Cursors : k = x.curs \ l
  BY <1>1 DEF Cursors
<1>3. PICK y : y = [x EXCEPT !.curs = k]
  OBVIOUS
<1>4. k \in Cursors /\ k \subseteq x.curs
  BY <1>2
<1>5. y \in Conn
  BY <1>3, <1>4 DEF Conn
<1>6. /\ SameTalk(x, y) /\ y.work = x.work /\ y.hello = x.hello /\ y.curs = k /\ y.own = x.own
      /\ y.tx = x.tx /\ y.snap = x.snap /\ y.depth = x.depth /\ y.said = x.said
  BY <1>3, <1>4 DEF Conn, SameTalk
<1>7. z = IF c \in T THEN Ended(y, "timed_out") ELSE y
  BY <1>2, <1>3 DEF Expired
<1>8. CASE c \in T
  <2>1. /\ z \in Conn /\ SameTalk(y, z) /\ z.work = y.work /\ z.tx = "timed_out"
        /\ z.snap = 0 /\ z.own = y.own /\ z.curs = y.curs \ {"txn"} /\ z.hello = y.hello
    BY <1>5, <1>7, <1>8, EndedParts
  <2>2. SameTalk(x, z)
    BY <1>6, <2>1 DEF SameTalk
  <2>3. z.work = x.work /\ z.hello = x.hello /\ z.own = x.own /\ z.curs \subseteq x.curs
    BY <1>4, <1>6, <2>1
  <2> QED
    BY <1>8, <2>1, <2>2, <2>3
<1>9. CASE c \notin T
  BY <1>4, <1>5, <1>6, <1>7, <1>9
<1> QED
  BY <1>8, <1>9

\* Timeouts keeps the invariant.
LEMMA TimeoutsStep ==
  ASSUME IInv, Timeouts
  PROVE  IInv'
<1>1. PICK T \in SUBSET {c \in Conns : Live(c) /\ Open(c)}, drop \in [Conns -> SUBSET {"own", "txn"}] :
        /\ conn' = [c \in Conns |-> Expired(conn[c], drop[c], c, T)]
        /\ writer' = IF writer \in T THEN None ELSE writer
        /\ eng' = IF eng.by \in T THEN Aborted(eng, eng.by) ELSE eng
        /\ phase' = IF conn' # conn THEN "process" ELSE "poll"
  BY DEF Timeouts, Expired
<1>2. phase = "timeouts" /\ woke' = FALSE /\ UNCHANGED <<fifo, group, slices, busy, told>>
  BY DEF Timeouts
<1>3. Sound /\ slices \subseteq Conns /\ busy \in BOOLEAN
  BY DEF IInv, Sound, Types
<1>4. T \in SUBSET Conns
  OBVIOUS
<1>5. PICK f : f = eng'
  OBVIOUS
<1>6. /\ f \in Eng /\ f.last = eng.last /\ f.durable = eng.durable /\ writer' = f.by
      /\ f.by = None => f.n = 0 /\ f.marks = <<>>
      /\ \A d \in Conns : d \in T => writer' # d
      /\ \A d \in Conns : d \notin T =>
            (writer' = d <=> writer = d) /\ (eng.by = d => f.n = eng.n /\ f.marks = eng.marks)
  BY <1>1, <1>3, <1>4, <1>5, EngineEnds
<1>7. /\ conn \in [Conns -> Conn] /\ group \in Seq(Grp) /\ fifo \in Seq(Conns) /\ IsInjective(fifo)
      /\ eng \in Eng /\ writer = eng.by /\ told \in [done : Nat, rows : Nat]
  BY <1>3 DEF Sound, Types, Engine
<1>8. ASSUME NEW c \in Conns
      PROVE  /\ conn'[c] \in Conn /\ Fits(c, conn'[c], writer', fifo, group, f)
             /\ c \in T => conn'[c] # conn[c]
  <2>1. PICK x : x = conn[c]
    OBVIOUS
  <2>2. PICK z : z = conn'[c]
    OBVIOUS
  <2>3. x \in Conn /\ Fits(c, x, writer, fifo, group, eng)
    BY <1>3, <1>7, <2>1 DEF Sound, Fit
  <2>4. drop[c] \in Cursors
    BY DEF Cursors
  <2>5. z = Expired(x, drop[c], c, T)
    BY <1>1, <2>1, <2>2
  <2>6. /\ z \in Conn /\ SameTalk(x, z) /\ z.work = x.work /\ z.hello = x.hello
        /\ z.curs \subseteq x.curs /\ z.own = x.own
        /\ c \in T => z.tx = "timed_out" /\ z.snap = 0
        /\ c \notin T => z.tx = x.tx /\ z.snap = x.snap /\ z.depth = x.depth /\ z.said = x.said
    BY <2>3, <2>4, <2>5, ExpiredParts
  <2>7. c \in T => x.up = "in" /\ x.tx \in {"read", "write"}
    BY <2>1 DEF Live, Open
  <2>8. /\ Order(x) /\ Sent(x, eng) /\ Sees(x, eng) /\ Agrees(x, eng) /\ (writer = c <=> x.tx = "write")
        /\ (c \in Range(fifo) => Parked(x)) /\ Grouped(c, x, group)
    BY <2>3 DEF Fits
  <2>9. Order(z)
    BY <2>6, <2>7, <2>8, ExpiredOrder
  <2>10. Sent(z, f)
    BY <1>6, <2>6, <2>8 DEF Sent, SameTalk
  <2>11. Sees(z, f)
    <3>1. 0 <= eng.durable
      BY <1>7, EngParts
    <3> QED
      BY <1>6, <2>6, <2>8, <3>1 DEF Sees
  <2>12. writer' = c <=> z.tx = "write"
    BY <1>6, <2>6, <2>8
  <2>13. Agrees(z, f)
    <3>1. z.tx = "write" => c \notin T /\ eng.by = c
      BY <1>7, <2>6, <2>8
    <3>2. z.tx = "none" => c \notin T
      BY <2>6
    <3> QED
      BY <1>6, <2>6, <2>8, <3>1, <3>2 DEF Agrees
  <2>14. c \in Range(fifo) => Parked(z)
    <3>1. c \in Range(fifo) => c \notin T
      BY <2>7, <2>8 DEF Parked
    <3> QED
      BY <2>6, <2>8, <3>1 DEF Parked, SameTalk
  <2>15. Grouped(c, z, group)
    <3>1. Done(z) = Done(x)
      BY <2>6 DEF Done, SameTalk
    <3> QED
      BY <2>6, <2>8, <3>1 DEF Grouped, SameTalk
  <2>16. Fits(c, z, writer', fifo, group, f)
    BY <2>9, <2>10, <2>11, <2>12, <2>13, <2>14, <2>15 DEF Fits
  <2>17. c \in T => z # x
    BY <2>6, <2>7
  <2> QED
    BY <2>1, <2>2, <2>6, <2>16, <2>17
<1>9. Types'
  <2>1. conn' \in [Conns -> Conn]
    <3>1. conn' = [c \in Conns |-> conn'[c]]
      BY <1>1
    <3> QED
      BY <1>8, <3>1
  <2>2. writer' \in Conns \cup {None}
    BY <1>6, EngParts
  <2>3. phase' \in Phases /\ woke' \in BOOLEAN
    BY <1>1, <1>2 DEF Phases
  <2> QED
    BY <1>2, <1>3, <1>5, <1>6, <1>7, <2>1, <2>2, <2>3 DEF Types
<1>10. Engine'
  BY <1>2, <1>3, <1>5, <1>6, <1>7, EngineFewer
<1>11. ASSUME NEW c \in Conns PROVE Fit(c)'
  <2>1. Fits(c, conn'[c], writer', fifo, group, f)
    BY <1>8
  <2> QED
    BY <1>2, <1>5, <2>1 DEF Fit
<1>12. Sound'
  BY <1>9, <1>10, <1>11 DEF Sound
<1>13. CASE conn' # conn
  <2>1. phase' = "process"
    BY <1>1, <1>13
  <2> QED
    BY <1>12, <2>1 DEF IInv, Turning
<1>14. CASE conn' = conn
  <2>1. \A c \in Conns : c \notin T
    BY <1>8, <1>14
  <2>2. writer' = writer
    BY <1>1, <1>4, <2>1
  <2>3. ~busy' => Still'
    BY <1>2, <1>14, <2>2, StillStays DEF IInv, Turning
  <2>4. phase' = "poll"
    BY <1>1, <1>14
  <2>5. Turning'
    BY <2>3, <2>4 DEF Turning
  <2> QED
    BY <1>12, <2>5 DEF IInv
<1> QED
  BY <1>13, <1>14

---------------------------------------------------------------------------
(* The poll: what clients do.                                              *)

\* What a client does changes its connection's record to x.
LEMMA PolledStep ==
  ASSUME Sound, NEW c \in Conns, NEW x \in Conn, Polled(c, x),
         fifo' \in Seq(Conns), IsInjective(fifo'), Range(fifo') \subseteq Range(fifo),
         c \in Range(fifo') => Parked(x),
         Order(x), Sent(x, eng), Sees(x, eng), Agrees(x, eng), writer = c <=> x.tx = "write",
         Grouped(c, x, group)
  PROVE  IInv'
<1>1. /\ phase' = "poll" /\ conn' = [conn EXCEPT ![c] = x] /\ woke' = TRUE
      /\ UNCHANGED <<writer, group, eng, slices, busy, told>>
  BY DEF Polled, Set
<1>2. EngineMoves(c) /\ eng' = eng /\ writer' = writer /\ group' = group
  BY <1>1, EngineStays
<1>3. phase' \in Phases /\ slices' \subseteq Conns /\ busy' \in BOOLEAN /\ woke' \in BOOLEAN
  BY <1>1 DEF Phases, Sound, Types
<1>4. /\ group' \in Seq(Grp)
      /\ \A k \in DOMAIN group' : 1 <= group'[k].seq /\ group'[k].seq <= eng'.last
      /\ \A d \in Conns : Grouped(d, conn[d], group')
  BY <1>2, GroupStays DEF EngineMoves
<1>5. Sent(x, eng') /\ Sees(x, eng') /\ Agrees(x, eng') /\ Grouped(c, x, group')
  BY <1>2
<1>6. writer' = c <=> x.tx = "write"
  BY <1>2
<1>7. Sound'
  BY <1>1, <1>2, <1>3, <1>4, <1>5, <1>6, ConnStep
<1> QED
  BY <1>1, <1>7 DEF IInv, Turning

\* The parts of Sound that are about c.
LEMMA SoundParts ==
  ASSUME Sound, NEW c \in Conns
  PROVE  /\ conn[c] \in Conn /\ Order(conn[c]) /\ Sent(conn[c], eng) /\ Sees(conn[c], eng)
         /\ Agrees(conn[c], eng) /\ (writer = c <=> conn[c].tx = "write")
         /\ (c \in Range(fifo) => Parked(conn[c])) /\ Grouped(c, conn[c], group)
         /\ fifo \in Seq(Conns) /\ IsInjective(fifo) /\ eng \in Eng
  BY DEF Sound, Types, Fit, Fits

\* Accept keeps the invariant.
LEMMA AcceptStep ==
  ASSUME Sound, NEW c \in Conns, Accept(c)
  PROVE  IInv'
<1> DEFINE x == conn[c]
<1>1. x.up = "out" /\ Polled(c, [x EXCEPT !.up = "in"]) /\ fifo' = fifo
  BY DEF Accept
<1>2. /\ x \in Conn /\ Order(x) /\ Sent(x, eng) /\ Sees(x, eng) /\ Agrees(x, eng)
      /\ (writer = c <=> x.tx = "write") /\ (c \in Range(fifo) => Parked(x)) /\ Grouped(c, x, group)
      /\ fifo \in Seq(Conns) /\ IsInjective(fifo)
  BY SoundParts
<1> HIDE DEF x
<1>3. PICK z : z = [x EXCEPT !.up = "in"]
  OBVIOUS
<1>4. z \in Conn
  BY <1>2, <1>3 DEF Conn
<1>5. /\ z.up = "in" /\ z.q = x.q /\ z.out = x.out /\ z.dead = x.dead /\ z.closing = x.closing
      /\ z.awaiting = x.awaiting /\ z.sent = x.sent /\ z.heard = x.heard /\ z.work = x.work
      /\ z.tx = x.tx /\ z.depth = x.depth /\ z.said = x.said /\ z.snap = x.snap /\ z.own = x.own
  BY <1>2, <1>3 DEF Conn
<1>6. Told(z) = Told(x) /\ Done(z) = Done(x) /\ Owed(z) = Owed(x)
  BY <1>5 DEF Told, Done, Owed
<1>7. Order(z)
  BY <1>1, <1>2, <1>5, <1>6 DEF Order
<1>8. Sent(z, eng) /\ Sees(z, eng) /\ Agrees(z, eng)
  BY <1>2, <1>5 DEF Sent, Sees, Agrees
<1>9. Grouped(c, z, group)
  BY <1>1, <1>2, <1>5, <1>6 DEF Grouped
<1>10. c \notin Range(fifo')
  BY <1>1, <1>2 DEF Parked
<1>11. fifo' \in Seq(Conns) /\ IsInjective(fifo') /\ Range(fifo') \subseteq Range(fifo)
  BY <1>1, <1>2
<1>12. Polled(c, z) /\ (writer = c <=> z.tx = "write")
  BY <1>1, <1>2, <1>3, <1>5
<1> QED
  BY <1>4, <1>7, <1>8, <1>9, <1>10, <1>11, <1>12, PolledStep

\* Hangup keeps the invariant.
LEMMA HangupStep ==
  ASSUME Sound, NEW c \in Conns, Hangup(c)
  PROVE  IInv'
<1>1. Live(c) /\ Polled(c, [conn[c] EXCEPT !.dead = TRUE]) /\ fifo' = fifo
  BY DEF Hangup
<1>2. PICK z : z = Broken(conn[c])
  OBVIOUS
<1>3. Polled(c, z)
  BY <1>1, <1>2 DEF Broken
<1>4. conn[c] \in Conn /\ Fits(c, conn[c], writer, fifo, group, eng)
  BY DEF Sound, Types, Fit
<1>5. z \in Conn /\ Fits(c, z, writer, fifo, group, eng)
  BY <1>1, <1>2, <1>4, FlushedOne DEF Live
<1>6. fifo' \in Seq(Conns) /\ IsInjective(fifo') /\ Range(fifo') \subseteq Range(fifo)
  BY <1>1, SoundParts
<1>7. /\ Order(z) /\ Sent(z, eng) /\ Sees(z, eng) /\ Agrees(z, eng) /\ (writer = c <=> z.tx = "write")
      /\ (c \in Range(fifo') => Parked(z)) /\ Grouped(c, z, group)
  BY <1>1, <1>5 DEF Fits
<1> QED
  BY <1>3, <1>5, <1>6, <1>7, PolledStep

\* A request joins the queue of x.
LEMMA EnqueuedParts ==
  ASSUME NEW x \in Conn, Order(x), x.up = "in", Len(x.q) < MaxQueue,
         NEW kind \in Kinds \cup {"hello"}, NEW z, z = Enqueued(x, kind)
  PROVE  /\ z \in Conn /\ Order(z) /\ Done(z) = Done(x)
         /\ z.q = Append(x.q, [id |-> x.sent + 1, kind |-> kind])
         /\ z.out = x.out /\ z.up = x.up /\ z.hello = x.hello /\ z.dead = x.dead
         /\ z.awaiting = x.awaiting /\ z.work = x.work
         /\ z.tx = x.tx /\ z.depth = x.depth /\ z.said = x.said /\ z.snap = x.snap /\ z.own = x.own
<1>1. x.q \in Seq(Req) /\ x.sent \in Nat /\ x.heard \in Nat /\ MaxQueue \in Nat
  BY ConnParts, OwnerAssumption
<1>2. PICK e : e = [id |-> x.sent + 1, kind |-> kind]
  OBVIOUS
<1>3. e \in Req /\ e.id = x.sent + 1
  BY <1>1, <1>2 DEF Req
<1>4. Append(x.q, e) \in Seq(Req) /\ x.sent + 1 \in Nat
  BY <1>1, <1>3
<1>5. PICK q \in Seq(Req), n \in Nat : q = Append(x.q, e) /\ n = x.sent + 1
  BY <1>4
<1>6. q \in Seq(Req) /\ n \in Nat
  BY <1>5
<1>7. z = [x EXCEPT !.sent = n, !.q = q]
  BY <1>2, <1>5 DEF Enqueued, Conn
<1>8. z \in Conn
  BY <1>6, <1>7 DEF Conn
<1>9. /\ z.q = q /\ z.sent = n /\ z.heard = x.heard /\ z.closing = x.closing /\ z.curs = x.curs
      /\ z.out = x.out /\ z.up = x.up /\ z.hello = x.hello /\ z.dead = x.dead
      /\ z.awaiting = x.awaiting /\ z.work = x.work
  BY <1>6, <1>7 DEF Conn
<1>10. z.tx = x.tx /\ z.depth = x.depth /\ z.said = x.said /\ z.snap = x.snap /\ z.own = x.own
  BY <1>6, <1>7 DEF Conn
<1>11. Len(z.q) = Len(x.q) + 1 /\ Len(x.q) \in Nat
  BY <1>1, <1>3, <1>5, <1>9
<1>12. Done(z) = Done(x)
  <2>1. Done(x) = x.sent - Len(x.q) /\ Done(z) = (x.sent + 1) - (Len(x.q) + 1)
    BY <1>5, <1>9, <1>11 DEF Done
  <2> QED
    BY <1>1, <1>11, <2>1
<1>13. Len(z.q) <= z.sent /\ Len(z.q) <= MaxQueue
  <2>1. Len(x.q) <= x.sent
    BY DEF Order
  <2> QED
    BY <1>1, <1>5, <1>9, <1>11, <2>1
<1>14. \A k \in DOMAIN z.q : z.q[k].id = Done(z) + k
  <2> SUFFICES ASSUME NEW k \in DOMAIN z.q PROVE z.q[k].id = Done(x) + k
    BY <1>12
  <2>1. (k \in DOMAIN x.q /\ z.q[k] = x.q[k]) \/ (k = Len(x.q) + 1 /\ z.q[k] = e)
    BY <1>1, <1>3, <1>5, <1>9
  <2>2. CASE k \in DOMAIN x.q /\ z.q[k] = x.q[k]
    BY <2>2 DEF Order
  <2>3. CASE k = Len(x.q) + 1 /\ z.q[k] = e
    <3>1. Done(x) = x.sent - Len(x.q)
      BY DEF Done
    <3> QED
      BY <1>1, <1>3, <1>11, <2>3, <3>1
  <2> QED
    BY <2>1, <2>2, <2>3
<1>15. Told(z) = Told(x) /\ Owed(z) = Owed(x)
  BY <1>9 DEF Told, Owed
<1>16. z.q # <<>>
  BY <1>1, <1>3, <1>5, <1>9
<1>17. Order(z)
  BY <1>9, <1>12, <1>13, <1>14, <1>15, <1>16 DEF Order
<1> QED
  BY <1>2, <1>5, <1>8, <1>9, <1>10, <1>12, <1>17

\* Receive keeps the invariant.
LEMMA ReceiveStep ==
  ASSUME Sound, NEW c \in Conns, Receive(c)
  PROVE  IInv'
<1> DEFINE x == conn[c]
<1>1. Live(c) /\ Len(x.q) < MaxQueue /\ fifo' = fifo
  BY DEF Receive, Readable
<1>2. PICK kind \in Kinds \cup {"hello"} : Polled(c, Enqueued(x, kind))
  BY OwnerAssumption DEF Receive, Kinds
<1>3. /\ x \in Conn /\ Order(x) /\ Sent(x, eng) /\ Sees(x, eng) /\ Agrees(x, eng)
      /\ (writer = c <=> x.tx = "write") /\ (c \in Range(fifo) => Parked(x)) /\ Grouped(c, x, group)
      /\ fifo \in Seq(Conns) /\ IsInjective(fifo)
  BY SoundParts
<1>4. x.up = "in"
  BY <1>1 DEF Live
<1> HIDE DEF x
<1>5. PICK z : z = Enqueued(x, kind)
  OBVIOUS
<1>6. /\ z \in Conn /\ Order(z) /\ Done(z) = Done(x)
      /\ z.q = Append(x.q, [id |-> x.sent + 1, kind |-> kind])
      /\ z.out = x.out /\ z.up = x.up /\ z.hello = x.hello /\ z.dead = x.dead
  BY <1>1, <1>2, <1>3, <1>4, <1>5, EnqueuedParts
<1>7. /\ z.awaiting = x.awaiting /\ z.work = x.work
      /\ z.tx = x.tx /\ z.depth = x.depth /\ z.said = x.said /\ z.snap = x.snap /\ z.own = x.own
  BY <1>1, <1>2, <1>3, <1>4, <1>5, EnqueuedParts
<1>8. Sent(z, eng) /\ Sees(z, eng) /\ Agrees(z, eng) /\ (writer = c <=> z.tx = "write")
  BY <1>3, <1>6, <1>7 DEF Sent, Sees, Agrees
<1>9. Grouped(c, z, group)
  BY <1>3, <1>6, <1>7 DEF Grouped
<1>10. c \in Range(fifo') => Parked(z)
  <2>1. ASSUME Parked(x) PROVE z.q # <<>> /\ Head(z.q) = Head(x.q)
    <3>1. x.q \in Seq(Req) /\ x.q # <<>> /\ x.sent \in Nat
      BY <1>3, <2>1, ConnParts DEF Parked
    <3>2. ASSUME NEW e PROVE Append(x.q, e) # <<>> /\ Head(Append(x.q, e)) = Head(x.q)
      BY <3>1
    <3> QED
      BY <1>6, <3>2
  <2> QED
    BY <1>1, <1>3, <1>6, <1>7, <2>1 DEF Parked
<1>11. fifo' \in Seq(Conns) /\ IsInjective(fifo') /\ Range(fifo') \subseteq Range(fifo)
  BY <1>1, <1>3
<1>12. Polled(c, z)
  BY <1>2, <1>5
<1> QED
  BY <1>6, <1>8, <1>9, <1>10, <1>11, <1>12, PolledStep

\* Cancel keeps the invariant.
LEMMA CancelStep ==
  ASSUME Sound, NEW c \in Conns, Cancel(c)
  PROVE  IInv'
<1> DEFINE x == conn[c]
<1>1. /\ Live(c) /\ ~x.closing /\ Len(x.q) < MaxQueue /\ (x.work # "no" \/ Queued(c))
      /\ fifo' = Dropped(fifo, {c})
      /\ Polled(c, Enqueued(Answered([x EXCEPT !.work = "no"], "error", 0), "cancel"))
  BY DEF Cancel, Readable
<1>2. /\ x \in Conn /\ Order(x) /\ Sent(x, eng) /\ Sees(x, eng) /\ Agrees(x, eng)
      /\ (writer = c <=> x.tx = "write") /\ (c \in Range(fifo) => Parked(x)) /\ Grouped(c, x, group)
      /\ fifo \in Seq(Conns) /\ eng \in Eng
  BY SoundParts
<1>3. x.up = "in" /\ ~x.dead
  BY <1>1 DEF Live
<1>4. x.q # <<>> /\ ~x.awaiting
  <2>1. CASE x.work # "no"
    BY <1>2, <2>1 DEF Order
  <2>2. CASE Queued(c)
    <3>1. c \in Range(fifo)
      BY <1>2, <2>2 DEF Queued, Contains, Range
    <3> QED
      BY <1>2, <3>1 DEF Parked
  <2> QED
    BY <1>1, <2>1, <2>2
<1> HIDE DEF x
<1>5. PICK y : y = [x EXCEPT !.work = "no"]
  OBVIOUS
<1>6. "no" \in Works
  BY DEF Works
<1>7. y \in Conn
  BY <1>2, <1>5, <1>6 DEF Conn
<1>8. /\ SameTalk(x, y) /\ y.work = "no" /\ y.tx = x.tx /\ y.depth = x.depth /\ y.said = x.said
      /\ y.snap = x.snap /\ y.own = x.own
  BY <1>2, <1>5, <1>6 DEF Conn, SameTalk
<1>9. PICK z : z = Answered(y, "error", 0)
  OBVIOUS
<1>10. /\ z \in Conn /\ Replied(x, z, "error", 0)
       /\ z.tx = y.tx /\ z.depth = y.depth /\ z.said = y.said /\ z.snap = y.snap
       /\ z.own = y.own \/ z.own = 0
  BY <1>2, <1>4, <1>7, <1>8, <1>9, AnsweredOf
<1>11. Order(z)
  BY <1>1, <1>2, <1>3, <1>4, <1>10, RepliedOrder DEF x
<1>12. eng.last \in Nat /\ eng.durable \in Nat
  BY <1>2, EngParts
<1>13. Sent(z, eng)
  <2>1. eng.last <= eng.last /\ eng.durable <= eng.durable /\ 0 <= eng.last
    BY <1>12
  <2> QED
    BY <1>2, <1>10, <2>1, RepliedSent
<1>14. z.q = Tail(x.q) /\ z.up = "in" /\ z.awaiting = x.awaiting /\ z.sent = x.sent
  BY <1>3, <1>10 DEF Replied
<1>15. Len(z.q) < MaxQueue
  <2>1. Len(z.q) = Len(x.q) - 1
    BY <1>2, <1>4, <1>10, <1>14, TailQueue
  <2>2. x.q \in Seq(Req) /\ MaxQueue \in Nat
    BY <1>2, ConnParts, OwnerAssumption
  <2>3. Len(x.q) \in Nat
    BY <2>2
  <2> QED
    BY <1>1, <2>1, <2>2, <2>3 DEF x
<1>16. PICK w : w = Enqueued(z, "cancel")
  OBVIOUS
<1>17. "cancel" \in Kinds \cup {"hello"}
  BY DEF Kinds
<1>18. w \in Conn /\ Order(w) /\ w.out = z.out /\ w.awaiting = z.awaiting
  <2>1. z \in Conn /\ z.up = "in"
    BY <1>10, <1>14
  <2>2. w \in Conn /\ Order(w)
    BY <1>11, <1>15, <1>16, <1>17, <2>1, EnqueuedParts, Zenon
  <2>3. w.out = z.out /\ w.awaiting = z.awaiting
    BY <1>11, <1>15, <1>16, <1>17, <2>1, EnqueuedParts, Zenon
  <2> QED
    BY <2>2, <2>3
<1>19. w.tx = z.tx /\ w.depth = z.depth /\ w.said = z.said /\ w.snap = z.snap /\ w.own = z.own
  <2>1. z \in Conn /\ z.up = "in"
    BY <1>10, <1>14
  <2>2. w.tx = z.tx /\ w.depth = z.depth /\ w.said = z.said
    BY <1>11, <1>15, <1>16, <1>17, <2>1, EnqueuedParts, Zenon
  <2>3. w.snap = z.snap /\ w.own = z.own
    BY <1>11, <1>15, <1>16, <1>17, <2>1, EnqueuedParts, Zenon
  <2> QED
    BY <2>2, <2>3
<1>20. Sent(w, eng)
  BY <1>13, <1>18 DEF Sent
<1>21. Sees(w, eng) /\ Agrees(w, eng) /\ (writer = c <=> w.tx = "write")
  <2>1. w.snap = x.snap /\ (w.own = x.own \/ w.own = 0) /\ w.tx = x.tx /\ w.depth = x.depth
        /\ w.said = x.said
    BY <1>8, <1>10, <1>19
  <2> QED
    BY <1>2, <1>12, <2>1 DEF Sees, Agrees
<1>22. Grouped(c, w, group)
  BY <1>2, <1>4, <1>14, <1>18 DEF Grouped
<1>23. /\ fifo' \in Seq(Conns) /\ IsInjective(fifo') /\ Range(fifo') \subseteq Range(fifo)
       /\ c \notin Range(fifo')
  BY <1>1, QueueLeft DEF Leaves
<1>24. Polled(c, w)
  BY <1>1, <1>5, <1>9, <1>16 DEF x
<1> QED
  BY <1>18, <1>20, <1>21, <1>22, <1>23, <1>24, PolledStep

\* A record that lost its stream, with the reason written to its socket.
Closed(x) == [x EXCEPT !.closing = TRUE, !.out = Append(@, BadReply)]

\* The parts of a record that lost its stream, which is in order.
LEMMA ClosedParts ==
  ASSUME NEW x \in Conn, Order(x), ~x.dead, ~x.closing, x.up = "in", NEW z, z = Closed(x)
  PROVE  /\ z \in Conn /\ Order(z) /\ z.out = Append(x.out, BadReply) /\ z.q = x.q
         /\ z.sent = x.sent /\ z.up = x.up /\ z.hello = x.hello /\ z.dead = x.dead
         /\ z.awaiting = x.awaiting /\ z.work = x.work
         /\ z.tx = x.tx /\ z.depth = x.depth /\ z.said = x.said /\ z.snap = x.snap /\ z.own = x.own
<1>1. x.out \in Seq(Rep) /\ BadReply \in Rep
  BY ConnParts DEF BadReply, Rep
<1>2. Append(x.out, BadReply) \in Seq(Rep)
  BY <1>1
<1>3. PICK s \in Seq(Rep) : s = Append(x.out, BadReply)
  BY <1>2
<1>4. s \in Seq(Rep)
  BY <1>3
<1>5. z = [x EXCEPT !.closing = TRUE, !.out = s]
  BY <1>3 DEF Closed
<1>6. z \in Conn
  BY <1>4, <1>5 DEF Conn
<1>7. /\ z.closing /\ z.out = s /\ z.q = x.q /\ z.heard = x.heard
      /\ z.sent = x.sent /\ z.up = x.up /\ z.hello = x.hello /\ z.dead = x.dead
      /\ z.awaiting = x.awaiting /\ z.work = x.work
  BY <1>4, <1>5 DEF Conn
<1>8. z.tx = x.tx /\ z.depth = x.depth /\ z.said = x.said /\ z.snap = x.snap /\ z.own = x.own
  BY <1>4, <1>5 DEF Conn
<1>9. Told(z) = Told(x)
  <2>1. Dropped(s, {BadReply}) = Dropped(x.out, {BadReply})
    BY <1>1, <1>3, DroppedAppend
  <2> QED
    BY <1>7, <2>1 DEF Told
<1>10. Done(z) = Done(x) /\ Owed(z) = Owed(x)
  BY <1>7, <1>9 DEF Done, Owed
<1>11. \A k \in DOMAIN z.out : z.out[k].kind = "bad" => z.out[k] = BadReply /\ z.closing
  <2>1. \A k \in DOMAIN z.out : (k \in DOMAIN x.out /\ z.out[k] = x.out[k]) \/ z.out[k] = BadReply
    BY <1>1, <1>3, <1>7
  <2> QED
    BY <1>7, <2>1 DEF Order
<1>12. Order(z)
  BY <1>7, <1>9, <1>10, <1>11 DEF Order
<1> QED
  BY <1>3, <1>6, <1>7, <1>8, <1>12

\* BadFrame keeps the invariant.
LEMMA BadFrameStep ==
  ASSUME Sound, NEW c \in Conns, BadFrame(c)
  PROVE  IInv'
<1> DEFINE x == conn[c]
<1>1. /\ Live(c) /\ ~x.closing /\ fifo' = fifo /\ Polled(c, Closed(x))
  BY DEF BadFrame, Readable, Closed
<1>2. /\ x \in Conn /\ Order(x) /\ Sent(x, eng) /\ Sees(x, eng) /\ Agrees(x, eng)
      /\ (writer = c <=> x.tx = "write") /\ (c \in Range(fifo) => Parked(x)) /\ Grouped(c, x, group)
      /\ fifo \in Seq(Conns) /\ IsInjective(fifo) /\ eng \in Eng
  BY SoundParts
<1>3. x.up = "in" /\ ~x.dead /\ ~x.closing
  BY <1>1 DEF Live
<1> HIDE DEF x
<1>4. PICK z : z = Closed(x)
  OBVIOUS
<1>5. z \in Conn /\ Order(z) /\ z.out = Append(x.out, BadReply) /\ z.q = x.q /\ z.sent = x.sent
  BY <1>2, <1>3, <1>4, ClosedParts
<1>6. /\ z.up = x.up /\ z.hello = x.hello /\ z.dead = x.dead
      /\ z.awaiting = x.awaiting /\ z.work = x.work
  BY <1>2, <1>3, <1>4, ClosedParts
<1>7. z.tx = x.tx /\ z.depth = x.depth /\ z.said = x.said /\ z.snap = x.snap /\ z.own = x.own
  BY <1>2, <1>3, <1>4, ClosedParts
<1>8. Sent(z, eng)
  <2>1. BadReply \in Rep /\ BadReply.seq = 0 /\ BadReply.kind # "commit"
    BY DEF BadReply, Rep
  <2>2. 0 <= eng.last
    BY <1>2, EngParts
  <2> QED
    BY <1>2, <1>5, <2>1, <2>2, SentAppend
<1>9. Sees(z, eng) /\ Agrees(z, eng) /\ (writer = c <=> z.tx = "write")
  BY <1>2, <1>7 DEF Sees, Agrees
<1>10. Grouped(c, z, group)
  <2>1. Done(z) = Done(x)
    BY <1>5 DEF Done
  <2> QED
    BY <1>2, <1>6, <2>1 DEF Grouped
<1>11. c \in Range(fifo') => Parked(z)
  BY <1>1, <1>2, <1>5, <1>6, <1>7 DEF Parked
<1>12. fifo' \in Seq(Conns) /\ IsInjective(fifo') /\ Range(fifo') \subseteq Range(fifo)
  BY <1>1, <1>2
<1>13. Polled(c, z)
  BY <1>1, <1>4
<1> QED
  BY <1>5, <1>8, <1>9, <1>10, <1>11, <1>12, <1>13, PolledStep

---------------------------------------------------------------------------
(* The invariant.                                                          *)

\* The first state.
LEMMA InitHolds ==
  ASSUME Init
  PROVE  IInv
<1>1. /\ phase = "process" /\ conn = [c \in Conns |-> NewConn]
      /\ writer = None /\ fifo = <<>> /\ group = <<>>
      /\ eng = [by |-> None, n |-> 0, marks |-> <<>>, last |-> 0, durable |-> 0, failed |-> FALSE]
      /\ slices = {} /\ busy = FALSE /\ woke = FALSE
      /\ told = [done |-> 0, rows |-> 0]
  BY DEF Init
<1>2. /\ <<>> \in Seq(Nat) /\ <<>> \in Seq(Conns) /\ <<>> \in Seq(Grp)
      /\ \A k : k \notin DOMAIN <<>>
  OBVIOUS
<1>3. /\ eng.by = None /\ eng.n = 0 /\ eng.marks = <<>> /\ eng.last = 0 /\ eng.durable = 0
  BY <1>1
<1>4. eng \in Eng
  <2>1. PICK s \in Seq(Nat) : s = <<>>
    BY <1>2
  <2>2. s \in Seq(Nat)
    BY <2>1
  <2>3. eng = [by |-> None, n |-> 0, marks |-> s, last |-> 0, durable |-> 0, failed |-> FALSE]
    BY <1>1, <2>1
  <2> QED
    BY <2>2, <2>3 DEF Eng
<1>5. told.done = 0 /\ told.rows = 0 /\ told \in [done : Nat, rows : Nat]
  BY <1>1
<1>6. Types
  <2>1. conn \in [Conns -> Conn]
    <3>1. NewConn \in Conn
      BY GoneParts
    <3> QED
      BY <1>1, <3>1
  <2>2. IsInjective(fifo)
    BY <1>1, <1>2 DEF IsInjective
  <2>3. writer \in Conns \cup {None}
    BY <1>1
  <2>4. fifo \in Seq(Conns) /\ group \in Seq(Grp)
    BY <1>1, <1>2
  <2>5. phase \in Phases /\ slices \subseteq Conns /\ busy \in BOOLEAN /\ woke \in BOOLEAN
    BY <1>1 DEF Phases
  <2> QED
    BY <1>4, <1>5, <2>1, <2>2, <2>3, <2>4, <2>5 DEF Types
<1>7. Engine
  <2>1. \A k : k \notin DOMAIN group
    BY <1>1, <1>2
  <2>2. writer = eng.by
    BY <1>1, <1>3
  <2> QED
    BY <1>3, <1>5, <2>1, <2>2 DEF Engine
<1>8. ASSUME NEW c \in Conns PROVE Fit(c)
  <2>1. conn[c] = NewConn /\ writer # c
    BY <1>1, OwnerAssumption
  <2>2. c \notin Range(fifo) /\ \A k \in DOMAIN group : group[k].c # c
    BY <1>1, <1>2 DEF Range
  <2>3. Fits(c, NewConn, writer, fifo, group, eng)
    BY <1>4, <2>1, <2>2, GoneFits
  <2> QED
    BY <2>1, <2>3 DEF Fit
<1>9. Turning
  BY <1>1 DEF Turning
<1> QED
  BY <1>6, <1>7, <1>8, <1>9 DEF IInv, Sound

\* A step that changes nothing.
LEMMA Stutters ==
  ASSUME IInv, UNCHANGED vars
  PROVE  IInv'
<1>1. /\ UNCHANGED <<conn, writer, fifo, group, eng, told>>
      /\ phase' = phase /\ slices' = slices /\ busy' = busy /\ woke' = woke
  BY DEF vars
<1>2. Sound /\ phase' \in Phases /\ slices' \subseteq Conns /\ busy' \in BOOLEAN /\ woke' \in BOOLEAN
  BY <1>1 DEF IInv, Sound, Types
<1>3. Sound'
  BY <1>1, <1>2, SoundStays
<1>4. Still => Still'
  BY <1>1, StillStays
<1>5. \A c \in slices : Live(c)' = Live(c) /\ conn'[c].work = conn[c].work
  BY <1>1 DEF Live
<1>6. Turning'
  BY <1>1, <1>4, <1>5 DEF IInv, Turning
<1> QED
  BY <1>3, <1>6 DEF IInv

\* Every step of the owner and of its clients keeps the invariant.
LEMMA NextKeeps ==
  ASSUME IInv, [Next]_vars
  PROVE  IInv'
<1>1. Sound
  BY DEF IInv
<1>2. CASE UNCHANGED vars
  BY <1>2, Stutters
<1>3. ASSUME NEW c \in Conns, Request(c) PROVE IInv'
  BY <1>1, <1>3, RequestKeeps
<1>4. ASSUME NEW c \in Conns, WorkStep(c) PROVE IInv'
  BY <1>4, WorkStepStep
<1>5. CASE Answers
  BY <1>5, AnswersStep
<1>6. CASE GroupSync
  BY <1>6, GroupSyncStep
<1>7. CASE Flush
  BY <1>7, FlushStep
<1>8. CASE Reap
  BY <1>8, ReapStep
<1>9. CASE Timeouts
  BY <1>9, TimeoutsStep
<1>10. CASE Turn
  BY <1>10, TurnStep
<1>11. CASE Gather
  BY <1>11, GatherStep
<1>12. CASE Stop
  BY <1>12, StopStep
<1>13. CASE LastSync
  BY <1>13, LastSyncStep
<1>14. CASE LastFlush
  BY <1>14, LastFlushStep
<1>15. CASE Cleanup
  BY <1>15, CleanupStep
<1>16. ASSUME NEW c \in Conns, Client(c) PROVE IInv'
  BY <1>1, <1>16, AcceptStep, HangupStep, ReceiveStep, CancelStep, BadFrameStep DEF Client
<1> QED
  BY <1>2, <1>3, <1>4, <1>5, <1>6, <1>7, <1>8, <1>9, <1>10, <1>11, <1>12, <1>13, <1>14, <1>15,
     <1>16 DEF Next, Loop, End

\* The invariant holds of every behaviour of the owner.
LEMMA Invariance == Spec => []IInv
<1>1. Init => IInv
  BY InitHolds
<1>2. IInv /\ [Next]_vars => IInv'
  BY NextKeeps
<1> QED
  BY <1>1, <1>2, PTL DEF Spec

---------------------------------------------------------------------------
(* The theorems.                                                           *)

\* TypeOK: whatever connects, sends and hangs up, the records of owner.c stay
\* well formed: nobody is twice in the queue, no snapshot is newer than what
\* is synced and no reply tells of a commit that was not made.
THEOREM TypeCorrect == Spec => []TypeOK
<1>1. IInv => TypeOK
  <2> SUFFICES ASSUME IInv PROVE TypeOK
    OBVIOUS
  <2>1. Sound /\ Types /\ Engine
    BY DEF IInv, Sound
  <2>2. eng \in Eng /\ eng.last \in Nat /\ eng.durable \in Nat /\ eng.by \in Conns \cup {None}
    BY <2>1, EngParts DEF Types
  <2>3. /\ phase \in Phases /\ writer \in Conns \cup {None} /\ IsInjective(fifo)
        /\ fifo \in Seq(Conns) /\ group \in Seq(Grp) /\ slices \subseteq Conns
        /\ told.done \in Nat /\ told.rows \in Nat
    BY <2>1 DEF Types
  <2>4. Range(fifo) \subseteq Conns
    BY <2>3 DEF Range
  <2>5. \A k \in DOMAIN group : group[k].c \in Conns \cup {None} /\ group[k].seq \in 1 .. eng.last
    <3> SUFFICES ASSUME NEW k \in DOMAIN group
                 PROVE  group[k].c \in Conns \cup {None} /\ group[k].seq \in 1 .. eng.last
      OBVIOUS
    <3>1. group[k] \in Grp /\ 1 <= group[k].seq /\ group[k].seq <= eng.last
      BY <2>1, <2>3 DEF Engine
    <3>2. group[k].seq \in Nat /\ group[k].c \in Conns \cup {None}
      BY <3>1 DEF Grp
    <3> QED
      BY <2>2, <3>1, <3>2
  <2>6. eng.durable \in 0 .. eng.last /\ {told.done, told.rows} \subseteq 0 .. eng.last
    <3>1. eng.durable <= eng.last /\ told.done <= eng.durable /\ told.rows <= eng.last
      BY <2>1 DEF Engine
    <3> QED
      BY <2>2, <2>3, <3>1
  <2>7. ASSUME NEW c \in Conns
        PROVE  /\ conn[c].up \in {"out", "in", "gone"}
               /\ conn[c].tx \in {"none", "read", "write", "failed", "timed_out"}
               /\ conn[c].work \in {"no", "own", "txn"} /\ conn[c].curs \subseteq {"own", "txn"}
               /\ conn[c].snap \in 0 .. eng.durable /\ conn[c].own \in 0 .. eng.durable
               /\ Range(conn[c].out) \subseteq Replies /\ Len(conn[c].q) <= MaxQueue
    <3>1. conn[c] \in Conn /\ Order(conn[c]) /\ Sent(conn[c], eng) /\ Sees(conn[c], eng)
      BY <2>1, SoundParts
    <3>2. /\ conn[c].up \in {"out", "in", "gone"} /\ conn[c].tx \in Txs /\ conn[c].work \in Works
          /\ conn[c].curs \in Cursors /\ conn[c].snap \in Nat /\ conn[c].own \in Nat
          /\ conn[c].out \in Seq(Rep)
      BY <3>1, ConnParts
    <3>3. conn[c].snap \in 0 .. eng.durable /\ conn[c].own \in 0 .. eng.durable
      BY <2>2, <3>1, <3>2 DEF Sees
    <3>4. Range(conn[c].out) \subseteq Replies
      <4> SUFFICES ASSUME NEW k \in DOMAIN conn[c].out PROVE conn[c].out[k] \in Replies
        BY DEF Range
      <4>1. conn[c].out[k] \in Rep /\ conn[c].out[k].seq <= eng.last
        BY <3>1, <3>2 DEF Sent
      <4> QED
        BY <2>2, <4>1 DEF Rep, Replies
    <3>5. Len(conn[c].q) <= MaxQueue
      BY <3>1 DEF Order
    <3> QED
      BY <3>2, <3>3, <3>4, <3>5 DEF Txs, Works, Cursors
  <2> QED
    BY <2>2, <2>3, <2>4, <2>5, <2>6, <2>7 DEF TypeOK, Phases
<1> QED
  BY <1>1, Invariance, PTL

\* InOrder: replies leave a connection in the order of its requests, whatever
\* parked, was cancelled, worked on for turns or waited for a sync in between.
THEOREM RepliesInOrder == Spec => []InOrder
<1>1. IInv => InOrder
  BY DEF IInv, Sound, Fit, Fits, Order, Told, InOrder
<1> QED
  BY <1>1, Invariance, PTL

\* DoneDurable: a client that read DONE for a commit has it synced, however
\* many share the group, and if the owner stops or a sync fails.
THEOREM DoneIsDurable == Spec => []DoneDurable
<1>1. IInv => DoneDurable
  BY DEF IInv, Sound, Engine, DoneDurable
<1> QED
  BY <1>1, Invariance, PTL

\* SlotAgrees: the writer slot, the engine's write transaction and the record
\* of the connection that holds them agree in every phase of the loop.
THEOREM SlotsAgree == Spec => []SlotAgrees
<1>1. IInv => SlotAgrees
  BY DEF IInv, Sound, Engine, Fit, Fits, SlotAgrees
<1> QED
  BY <1>1, Invariance, PTL

\* ParkedAtHead: whoever is in the queue for the slot has its request at the
\* head of its own, and nothing before it that could hold the queue up.
THEOREM QueueCanMove == Spec => []ParkedAtHead
<1>1. IInv => ParkedAtHead
  <2> SUFFICES ASSUME IInv, NEW c \in Range(fifo)
               PROVE  /\ conn[c].up = "in" /\ conn[c].q # <<>> /\ NeedsSlot(c)
                      /\ conn[c].work = "no" /\ ~conn[c].awaiting
    BY DEF ParkedAtHead
  <2>1. fifo \in Seq(Conns)
    BY DEF IInv, Sound, Types
  <2>2. c \in Conns
    BY <2>1 DEF Range
  <2>3. Parked(conn[c])
    BY <2>2 DEF IInv, Sound, Fit, Fits
  <2> QED
    BY <2>3 DEF Parked, NeedsSlot
<1> QED
  BY <1>1, Invariance, PTL

\* Atomic: an open write transaction holds exactly the statements its client
\* was told succeeded, at every depth of nesting.
THEOREM AtomicTxns == Spec => []Atomic
<1>1. IInv => Atomic
  BY DEF IInv, Sound, Fit, Fits, Agrees, Atomic
<1> QED
  BY <1>1, Invariance, PTL

\* NoSleep: the loop never waits in poll over a request it could answer, a
\* read it could advance or a reply it could release.
THEOREM NeverSleeps == Spec => []NoSleep
<1>1. IInv => NoSleep
  <2> SUFFICES ASSUME IInv, phase = "poll", ~woke, ~busy, group = <<>>, NEW c \in Conns, Live(c)
               PROVE  ~Ready(c) /\ conn[c].work = "no" /\ ~conn[c].awaiting
    BY DEF NoSleep
  <2>1. ~Ready(c) /\ conn[c].work = "no"
    BY DEF IInv, Turning, Still
  <2>2. Grouped(c, conn[c], group) /\ ~conn[c].dead
    BY DEF IInv, Sound, Fit, Fits, Live
  <2>3. \A k : k \notin DOMAIN group
    OBVIOUS
  <2>4. ~conn[c].awaiting
    BY <2>2, <2>3 DEF Grouped
  <2> QED
    BY <2>1, <2>4
<1> QED
  BY <1>1, Invariance, PTL
=============================================================================
