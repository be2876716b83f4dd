----------------------------- MODULE WebServer -----------------------------
(***************************************************************************)
(* The web server of the interpreter: one listener in the single-threaded  *)
(* event loop of src/src/eval.c (webserver_loop_iterate and what it        *)
(* calls). The loop polls, runs the program's watchers, accepts, reads one *)
(* chunk of each readable client, runs the program on each complete        *)
(* request, sends the queued responses and sheds what is late. The peers,  *)
(* the clock and SIGTERM act at any point between its steps.               *)
(*                                                                         *)
(* The program answers through the queue server.responses, or is a native  *)
(* handler that returns its answer (handler_set). Writes to a peer do not  *)
(* block here; TLS, the held and the inherited listener are left out.      *)
(***************************************************************************)
EXTENDS Naturals, Sequences, FiniteSets, SequencesExt

CONSTANTS
    Conn,      \* the connections the peers may make
    Parts,     \* the chunks a request arrives in
    Programs,  \* the programs: whether one has a native handler, timers or
               \* other sources that keep the loop alive, an `on drain` hook
    Kinds,     \* the kinds of response the program gives
    Leaving,   \* how the peers may leave: pairs of a connection and a way
    MaxOps     \* bound: calls into the server the program makes

ASSUME PartsAssumption == Parts \in Nat \ {0} /\ MaxOps \in Nat
ASSUME KindsAssumption == Kinds \subseteq {"plain", "file", "lost", "stream", "upgrade"}
ASSUME LeavingAssumption == Leaving \subseteq Conn \X {"fin", "reset"}
ASSUME ProgramsAssumption == Programs \subseteq [native : BOOLEAN, aux : BOOLEAN, hook : BOOLEAN]

VARIABLES
    w,        \* the server: its struct, its record, its sockets
    has,      \* the program
    term,     \* webserver_term_requested
    pc, back, \* where the loop is, and where the program's code returns to
    at, req,  \* read_client's index and the request's id, while a program runs
    slots,    \* the polled descriptors still to be served
    acc,      \* the listener was polled, and readable
    ops       \* what was used of MaxOps

prog == <<back, at, req>>
vars == <<w, has, term, pc, prog, slots, acc, ops>>

\* What the kernel has of a connection: what its peer did ("new", "queued" in
\* the backlog, "open", "fin", "reset"; "shut" by the server), the chunks it
\* has still to send, and the chunks it sent that were not read.
Socket == [peer : {"new", "queued", "open", "fin", "reset", "shut"},
           unsent : 0..Parts, unread : 0..Parts]

Shut == [peer |-> "shut", unsent |-> 0, unread |-> 0]

Client == [conn : Conn, fd : Nat, id : Nat, waiting : BOOLEAN, streaming : BOOLEAN,
           length : 0..Parts, late : BOOLEAN]

Init ==
    /\ w = [clients |-> <<>>, queue |-> <<>>, next |-> 1, running |-> TRUE,
            stopped |-> FALSE, shutdown |-> FALSE, draining |-> FALSE, asked |-> FALSE,
            listening |-> TRUE, fired |-> FALSE, err |-> "none", owner |-> <<>>,
            sock |-> [c \in Conn |-> [peer |-> "new", unsent |-> Parts, unread |-> 0]],
            got |-> [c \in Conn |-> <<>>]]
    /\ has \in Programs /\ term = FALSE
    /\ pc = "top" /\ back = "top" /\ at = 0 /\ req = 0
    /\ slots = <<>> /\ acc = FALSE /\ ops = 0

-----------------------------------------------------------------------------
(* The table of clients.                                                   *)

\* webserver_client_close: the last client takes the place of the closed one.
SwapOut(cl, i) == [j \in 1 .. Len(cl) - 1 |-> IF j = i THEN cl[Len(cl)] ELSE cl[j]]

Closed(s, i) == [s EXCEPT !.clients = SwapOut(@, i), !.sock[s.clients[i].conn] = Shut]

Said(s, i, what) == [s EXCEPT !.got[s.clients[i].conn] = Append(@, what)]

\* A status of the server's own: 400, 408, 413, 500, 501, 503 or 504.
SendError(s, i) == Closed(Said(s, i, [id |-> 0, as |-> "error"]), i)

ByFd(s, fd)     == {i \in DOMAIN s.clients : s.clients[i].fd = fd}
Pending(s, id)  == {i \in DOMAIN s.clients : s.clients[i].waiting /\ s.clients[i].id = id}
Streams(s, id)  == {i \in DOMAIN s.clients : s.clients[i].streaming /\ s.clients[i].id = id}
First(S)        == CHOOSE i \in S : \A j \in S : i <= j

\* The walk that closes every client of a kind: an index stands still when
\* the last client was moved under it.
Swept(s, Hit(_), Act(_, _)) ==
    FoldLeftDomain(
        LAMBDA c, k : IF c.i <= Len(c.s.clients) /\ Hit(c.s.clients[c.i])
                      THEN [c EXCEPT !.s = Act(c.s, c.i)] ELSE [c EXCEPT !.i = @ + 1],
        [s |-> s, i |-> 1], s.clients).s

-----------------------------------------------------------------------------
(* Responses.                                                              *)

Streamed(s, i) ==
    [s EXCEPT !.clients[i].streaming = TRUE, !.clients[i].waiting = FALSE, !.clients[i].length = 0]

\* webserver_deliver_response, for a response whose request is pending: an
\* upgrade leaves the server with its descriptor, a file that is gone is 500.
Sent(s, r) ==
    LET i == First(Pending(s, r.id))
        t == Said(s, i, [id |-> r.id, as |-> "reply"])
    IN  CASE r.kind = "stream" -> Streamed(t, i)
          [] r.kind = "lost"   -> SendError(s, i)
          [] OTHER             -> Closed(t, i)

\* webserver_process_responses: the queue is sent from its head; a response
\* that is refused raises and stays at the head.
Pumped(s) ==
    FoldLeft(LAMBDA t, r :
                 IF t.err # "none" THEN t
                 ELSE IF Pending(t, r.id) = {} THEN [t EXCEPT !.err = "pump"]
                 ELSE [Sent(t, r) EXCEPT !.queue = Tail(@)],
             s, s.queue)

\* append(server.responses, r): the id must be pending, unless there is no
\* client at all.
Appendable(s, id) == s.clients # <<>> => Pending(s, id) # {}

-----------------------------------------------------------------------------
(* The top of an iteration.                                                *)

\* webserver_set_running: the server stops, and its record says so.
SetRunning(s) == [s EXCEPT !.running = FALSE, !.stopped = TRUE]

\* Connections in the backlog are reset with the listener.
Unlisten(s) == [s EXCEPT !.listening = FALSE,
                         !.sock = [c \in Conn |-> IF @[c].peer = "queued" THEN Shut ELSE @[c]]]

\* webserver_any_active, aux_loop_sources_active
Active == w.running \/ w.clients # <<>> \/ (has.aux /\ ~term)

\* Seeded fault: a drain closes whoever has no complete request.
ShedAll(cl) == cl.streaming \/ ~cl.waiting

\* Seeded fault: a drain waits for the streams.
ShedQuiet(cl) == ~cl.streaming /\ ~cl.waiting /\ cl.length = 0

\* What a drain closes at once: streams and clients that have sent nothing.
DrainSheds(cl) == cl.streaming \/ (~cl.waiting /\ cl.length = 0)

\* webserver_progress_drain behind its hook
Drained(s) ==
    LET t == Swept(Unlisten(s), DrainSheds, Closed)
    IN  IF t.clients = <<>> THEN SetRunning(t) ELSE t

\* webserver_finish_shutdown: whoever is left hears 503.
Finished(s) ==
    IF ~s.shutdown THEN s
    ELSE SetRunning(Swept(Unlisten(s), LAMBDA cl : TRUE, SendError))

-----------------------------------------------------------------------------
(* poll, and the program code that the loop's other sources run.           *)

Accepting(s) == s.running /\ ~s.shutdown /\ ~s.draining

\* What poll reports of client cl, whose socket is k.
Events(cl, k) ==
    {e \in {"hup", "in"} :
        CASE e = "hup" -> k.peer = "reset"
          [] e = "in"  -> ~cl.waiting /\ (k.unread > 0 \/ k.peer \in {"fin", "reset"})}

\* From the drained server r of an iteration to its poll. The listener's entry
\* comes first; its descriptor is no client's. Nothing to poll ends the loop,
\* as a refused response does.
AnswerAndPoll(r) ==
    LET t == Pumped(r)
        s == IF t.err = "none" THEN Finished(t) ELSE t
        own == [i \in DOMAIN s.clients |->
                   [fd |-> s.clients[i].fd, ev |-> Events(s.clients[i], s.sock[s.clients[i].conn])]]
    IN
    /\ w' = s
    /\ slots' = IF Accepting(s) THEN <<[fd |-> 0, ev |-> {}]>> \o own ELSE own
    /\ acc' = (Accepting(s) /\ \E c \in Conn : s.sock[c].peer = "queued")
    /\ pc' = IF \/ s.err # "none"
                \/ ~Accepting(s) /\ s.clients = <<>> /\ ~(has.aux /\ ~term)
             THEN "ended" ELSE IF has.aux /\ ~term THEN "aux" ELSE "accept"

\* webserver_run_event_loop, and the top of webserver_loop_iterate: SIGTERM
\* and the record's fields reach the server, and the hook runs, once.
Top ==
    LET s == [w EXCEPT !.draining = @ \/ term \/ w.asked,
                       !.shutdown = @ \/ w.stopped]
        drain == s.draining /\ s.running
        hook  == drain /\ has.hook /\ ~s.fired
    IN
    /\ pc = "top"
    /\ \/ /\ ~Active
          /\ pc' = "ended" /\ UNCHANGED <<w, prog, slots, acc>>
       \/ /\ Active /\ hook
          /\ w' = [s EXCEPT !.fired = TRUE]
          /\ pc' = "program" /\ back' = "drain" /\ UNCHANGED <<at, req, slots, acc>>
       \/ /\ Active /\ ~hook
          /\ AnswerAndPoll(IF drain THEN Drained(s) ELSE s) /\ UNCHANGED prog
    /\ UNCHANGED <<has, term, ops>>

\* The hook returned, and the drain it said goodbye to goes on, whatever the
\* hook made of the server.
AfterHook ==
    /\ pc = "drain" /\ AnswerAndPoll(Drained(w))
    /\ UNCHANGED <<has, term, prog, ops>>

\* A timer, a transfer, a frame or a socket triggers a watcher.
Sources ==
    /\ pc = "aux"
    /\ pc' = "program" /\ back' = "accept"
    /\ UNCHANGED <<w, has, term, at, req, slots, acc, ops>>

-----------------------------------------------------------------------------
(* accept.                                                                 *)

FreeFd(cl) == First({f \in 1 .. Cardinality(Conn) : \A i \in DOMAIN cl : cl[i].fd # f})

\* Every connection of the backlog, in some order, with the lowest
\* descriptor that is free. As many entries as there were clients before are
\* served; the listener's entry is passed over unless the server stopped
\* accepting meanwhile.
Accept ==
    /\ pc \in {"aux", "accept"}
    /\ \E order \in SetToSeqs({c \in Conn : acc /\ Accepting(w) /\ w.sock[c].peer = "queued"}) :
           w' = [w EXCEPT
                !.sock = [c \in Conn |-> IF c \in ToSet(order) THEN [@[c] EXCEPT !.peer = "open"]
                                         ELSE @[c]],
                !.clients = FoldLeft(
                    LAMBDA cl, c : Append(cl, [conn |-> c, fd |-> FreeFd(cl), id |-> 0,
                        waiting |-> FALSE, streaming |-> FALSE, length |-> 0, late |-> FALSE]), @, order)]
    /\ LET rest == IF Accepting(w) /\ slots # <<>> THEN Tail(slots) ELSE slots
       IN  slots' = SubSeq(rest, 1, IF Len(rest) < Len(w.clients) THEN Len(rest) ELSE Len(w.clients))
    /\ acc' = FALSE /\ pc' = "serve"
    /\ UNCHANGED <<has, term, prog, ops>>

-----------------------------------------------------------------------------
(* The polled clients, one after the other.                                *)

\* Seeded fault: the counter of requests stands still.
SameId(n) == n

\* The number the next request will have.
Renumbered(n) == n + 1

\* The request of client i is complete: it has a number and a deadline.
Parsed(s, i) ==
    [s EXCEPT !.clients[i].id = s.next, !.clients[i].waiting = TRUE, !.clients[i].late = FALSE,
              !.next = Renumbered(@), !.owner = Append(@, s.clients[i].conn)]

\* Seeded fault: what is read stays in the kernel.
Peeked(s, c) == s

\* recv takes what has arrived out of the kernel.
Received(s, c) == [s EXCEPT !.sock[c].unread = 0]

\* webserver_read_client. A client that streams is only listened to for its
\* end; a request that no parser accepts is answered 400 (413, 501).
ReadClient(i) ==
    LET cl == w.clients[i]
        c  == cl.conn
        k  == w.sock[c].unread
        t  == Received(w, c)
        s  == [t EXCEPT !.clients[i].length = @ + k]
    IN
    /\ \/ /\ k = 0
          /\ w' = IF w.sock[c].peer = "open" THEN w ELSE Closed(w, i)
          /\ pc' = "serve" /\ UNCHANGED prog
       \/ /\ k > 0 /\ cl.streaming
          /\ w' = t
          /\ pc' = "serve" /\ UNCHANGED prog
       \/ /\ k > 0 /\ ~cl.streaming
          /\ w' = SendError(s, i)
          /\ pc' = "serve" /\ UNCHANGED prog
       \/ /\ k > 0 /\ ~cl.streaming /\ s.clients[i].length < Parts
          /\ w' = s
          /\ pc' = "serve" /\ UNCHANGED prog
       \/ /\ k > 0 /\ ~cl.streaming /\ s.clients[i].length >= Parts
          /\ w' = Parsed(s, i)
          /\ pc' = "program" /\ back' = "serve" /\ at' = i /\ req' = s.next

\* The entry is matched to a client by descriptor.
Serve ==
    LET fd == Head(slots).fd
        ev == Head(slots).ev
    IN
    /\ pc = "serve" /\ slots # <<>>
    /\ slots' = Tail(slots)
    /\ \/ /\ ByFd(w, fd) = {} \/ ev = {}
          /\ UNCHANGED <<w, pc, prog>>
       \/ \E i \in ByFd(w, fd) :
              /\ "hup" \in ev
              /\ w' = Closed(w, i)
              /\ UNCHANGED <<pc, prog>>
       \/ \E i \in ByFd(w, fd) :
              /\ ev = {"in"} /\ w.clients[i].waiting
              /\ UNCHANGED <<w, pc, prog>>
       \/ \E i \in ByFd(w, fd) :
              ev = {"in"} /\ ~w.clients[i].waiting /\ ReadClient(i)
    /\ UNCHANGED <<has, term, acc, ops>>

-----------------------------------------------------------------------------
(* The program: a watcher's body, a handler, the drain hook.               *)

Op == pc = "program" /\ ops < MaxOps /\ ops' = ops + 1

\* What an unhandled raise may leave: read_client answers 500 to whoever is at
\* the index it began with. If the table has become shorter than that, the place
\* past its end is read: the process crashes, or what lies there still names the
\* socket of some client.
Raised(s) ==
    IF back # "serve" THEN {s}
    ELSE IF at \in DOMAIN s.clients THEN {SendError(s, at)}
    ELSE {s} \union {SendError(s, i) : i \in DOMAIN s.clients}

\* append(server.responses, ...)
ProgAppend(id, kind) ==
    /\ Op /\ ~has.native /\ id < w.next /\ Appendable(w, id)
    /\ w' = [w EXCEPT !.queue = Append(@, [id |-> id, kind |-> kind])]
    /\ UNCHANGED <<has, term, pc, prog, slots, acc>>

\* webserver.emit and webserver.finish send the queue first.
ProgStream(id, finish) ==
    LET s == Pumped(w)
        gone == \E i \in Streams(s, id) : s.sock[s.clients[i].conn].peer \in {"fin", "reset"}
    IN
    /\ Op /\ id < w.next /\ s.err = "none"
    /\ w' = IF Streams(s, id) # {} /\ (finish \/ gone) THEN Closed(s, First(Streams(s, id))) ELSE s
    /\ UNCHANGED <<has, term, pc, prog, slots, acc>>

\* webserver.close
ProgClose ==
    /\ Op /\ w' = [SetRunning(w) EXCEPT !.shutdown = TRUE]
    /\ UNCHANGED <<has, term, pc, prog, slots, acc>>

\* server.running = false changes the record, and no more than the record: the
\* server goes on until the next iteration looks.
ProgStop ==
    /\ Op /\ ~w.stopped /\ w' = [w EXCEPT !.stopped = TRUE]
    /\ UNCHANGED <<has, term, pc, prog, slots, acc>>

\* server.draining = true
ProgDrain ==
    /\ Op /\ ~w.asked /\ w' = [w EXCEPT !.asked = TRUE]
    /\ UNCHANGED <<has, term, pc, prog, slots, acc>>

\* The body ends: a watcher's answers nothing by itself.
ProgReturn ==
    /\ pc = "program" /\ (has.native /\ back = "serve" => req = 0)
    /\ pc' = back /\ back' = "top" /\ at' = 0 /\ req' = 0
    /\ UNCHANGED <<w, has, term, slots, acc, ops>>

\* A native handler returns its answer: it is delivered, or the request, if
\* it is still pending, is answered 500. After the head of a stream the
\* streaming function runs.
HandlerReturn(kind) ==
    /\ pc = "program" /\ has.native /\ back = "serve" /\ req # 0
    /\ w' = CASE Pending(w, req) = {} -> w
              [] kind = "none"        -> SendError(w, First(Pending(w, req)))
              [] OTHER                -> Sent(w, [id |-> req, kind |-> kind])
    /\ req' = 0
    /\ IF kind = "stream" /\ Pending(w, req) # {} THEN UNCHANGED <<pc, back, at>>
       ELSE pc' = back /\ back' = "top" /\ at' = 0
    /\ UNCHANGED <<has, term, slots, acc, ops>>

\* An unhandled raise, of the program's own or of a response that emit could
\* not send: the reader answers 500 to the client at its index, and the loop
\* ends.
ProgRaise ==
    /\ pc = "program"
    /\ \E s \in {w, Pumped(w)} : \E t \in Raised(s) : w' = [t EXCEPT !.err = "program"]
    /\ pc' = "ended" /\ back' = "top" /\ at' = 0 /\ req' = 0 /\ slots' = <<>> /\ acc' = FALSE
    /\ UNCHANGED <<has, term, ops>>

-----------------------------------------------------------------------------
(* The end of an iteration: responses, then deadlines.                     *)

\* Seeded fault: only clients that are being read have a deadline.
LateReading(cl) == ~cl.streaming /\ ~cl.waiting /\ cl.late

\* Who is past its deadline: a stream has none.
Overdue(cl) == ~cl.streaming /\ cl.late

CheckTimeouts(s) ==
    Swept(s, Overdue, SendError)

\* A response refused here ends the loop in the next iteration.
Pump ==
    /\ pc = "serve" /\ slots = <<>>
    /\ w' = CheckTimeouts(Pumped(w))
    /\ pc' = "top"
    /\ UNCHANGED <<has, term, prog, slots, acc, ops>>

-----------------------------------------------------------------------------
(* Peers, clock and signal.                                                *)

Outside == <<has, pc, prog, slots, acc, ops>>

Connect(c) ==
    /\ w.sock[c].peer = "new" /\ w.listening /\ pc # "ended"
    /\ w' = [w EXCEPT !.sock[c].peer = "queued"]
    /\ UNCHANGED <<term, Outside>>

Talks(c) == w.sock[c].peer = "open" /\ pc # "ended"

PeerSend(c) ==
    /\ Talks(c) /\ w.sock[c].unsent > 0
    /\ w' = [w EXCEPT !.sock[c].unsent = @ - 1, !.sock[c].unread = @ + 1]
    /\ UNCHANGED <<term, Outside>>

\* The peer closes its side, or resets the connection.
PeerLeaves(c, how) ==
    /\ Talks(c) /\ <<c, how>> \in Leaving
    /\ w' = [w EXCEPT !.sock[c] = [peer |-> how, unsent |-> 0,
                                   unread |-> IF how = "reset" THEN 0 ELSE @.unread]]
    /\ UNCHANGED <<term, Outside>>

\* The time a client has had is used up.
Expire(c) ==
    /\ pc # "ended"
    /\ \E i \in DOMAIN w.clients :
           LET cl == w.clients[i] IN
           /\ cl.conn = c /\ ~cl.streaming /\ ~cl.late
           /\ w' = [w EXCEPT !.clients[i].late = TRUE]
    /\ UNCHANGED <<term, Outside>>

Sigterm ==
    /\ ~term /\ pc # "ended" /\ term' = TRUE
    /\ UNCHANGED <<w, Outside>>

-----------------------------------------------------------------------------
Loop == Top \/ AfterHook \/ Accept \/ Serve \/ Pump
        \/ ProgReturn \/ \E kind \in Kinds \union {"none"} : HandlerReturn(kind)

Calls ==
    \/ Sources
    \/ \E id \in 1 .. Cardinality(Conn), kind \in Kinds : ProgAppend(id, kind)
    \/ \E id \in 1 .. Cardinality(Conn), finish \in BOOLEAN : ProgStream(id, finish)
    \/ ProgClose \/ ProgStop \/ ProgDrain \/ ProgRaise

Peers == \E c \in Conn :
    \/ Connect(c) \/ PeerSend(c) \/ Expire(c)
    \/ \E how \in {"fin", "reset"} : PeerLeaves(c, how)

Next == Loop \/ Calls \/ Peers \/ Sigterm

\* The loop moved: no step of its own leaves all of these as they were.
LoopMoves == pc' # pc \/ slots' # slots \/ req' # req

\* The loop, which can always take a step until it ends, takes one in the
\* end; the program's bodies return; and time passes.
Spec ==
    /\ Init /\ [][Next]_vars
    /\ []<>(pc = "ended") \/ []<><<LoopMoves>>_vars
    /\ \A c \in Conn : WF_vars(Expire(c))

-----------------------------------------------------------------------------
(* Properties.                                                             *)

Answer == [id : Nat, as : {"reply", "error"}]

\* Every variable has its type.
TypeOK ==
    /\ w \in [clients : Seq(Client), queue : Seq([id : Nat, kind : Kinds]), next : Nat \ {0},
              running : BOOLEAN, stopped : BOOLEAN, shutdown : BOOLEAN, draining : BOOLEAN,
              asked : BOOLEAN, listening : BOOLEAN, fired : BOOLEAN, err : {"none", "program", "pump"},
              owner : Seq(Conn), sock : [Conn -> Socket], got : [Conn -> Seq(Answer)]]
    /\ has \in Programs /\ term \in BOOLEAN /\ acc \in BOOLEAN
    /\ pc \in {"top", "drain", "aux", "accept", "serve", "program", "ended"}
    /\ back \in {"top", "drain", "accept", "serve"} /\ at \in Nat /\ req \in Nat
    /\ slots \in Seq([fd : Nat, ev : SUBSET {"hup", "in"}]) /\ ops \in 0..MaxOps

\* A peer hears one answer at most, and a program's answer goes to the peer
\* that asked: whatever order clients are closed and moved in, and whoever
\* else's response, timeout or departure the loop handled in between. A peer
\* whose stream is open hears a second one in two cases, and it is an error: the
\* hard stop sends it 503, and a raise of the program, which ends the loop, sends
\* 500 to whoever is at the reader's index.
OwnAnswer ==
    \A c \in Conn :
        /\ \A k \in DOMAIN w.got[c] : k > 1 =>
              /\ k = 2 /\ w.got[c][1].as = "reply" /\ w.got[c][2].as = "error"
              /\ w.shutdown \/ w.err = "program"
        /\ \A k \in DOMAIN w.got[c] :
              w.got[c][k].as = "reply" => w.owner[w.got[c][k].id] = c

\* A peer that began to speak is never dropped in silence: if the server
\* closed its connection with no answer, the peer had left, whether the server
\* was serving, draining or stopping.
NeverSilent == [][
    \A i \in DOMAIN w.clients :
        LET c == w.clients[i].conn IN
        /\ w'.sock[c] = Shut /\ w'.got[c] = <<>>
        /\ w.clients[i].length > 0
        => w.sock[c].peer \in {"fin", "reset"}]_vars

\* A request that was read is answered in the end, or its connection is over:
\* no order of responses, streams, departures and deadlines strands it.
Answered ==
    \A c \in Conn :
        (\E i \in DOMAIN w.clients : w.clients[i].conn = c /\ w.clients[i].waiting)
        ~> (w.sock[c] = Shut \/ w.got[c] # <<>> \/ w.err # "none")

\* SIGTERM ends the process, though its timers go on, its streams never finish
\* by themselves, and its peers neither speak nor leave.
TermEnds == term ~> (pc = "ended")

\* A response that append accepted is never the end of the service: what is
\* wrong with an answer is told to the program that gives it, and a request
\* that was abandoned does not stop the others.
ServiceSurvives == w.err # "pump"

\* A raise while a request is handled is told to no other peer than the one
\* that asked, however the program moved the clients before it.
RaiseStaysHome == [][
    pc = "program" /\ back = "serve" /\ req # 0 /\ w'.err = "program" =>
        \A c \in Conn : c # w.owner[req] /\ w'.got[c] # w.got[c] =>
            Last(w'.got[c]).as = "reply"]_vars
=============================================================================
