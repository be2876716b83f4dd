------------------------------- MODULE Reach --------------------------------
(***************************************************************************)
(* How programs reach a database's owner (src/gsql/client.c, and the      *)
(* start, the linger and the end of src/gsql/owner.c): a client connects  *)
(* to the socket in the database directory, or starts an owner process;   *)
(* owners race for the store's lock, bind the socket, serve, stop when    *)
(* they have been alone for a while, are told to stop, or die; a request  *)
(* in flight is lost with its owner and is never sent again.              *)
(*                                                                         *)
(* What a request does is module Owner's; here it is applied once, by a   *)
(* commit that lasts.  The socket's two places (the database directory    *)
(* and the runtime directory) are one name.  Time is left out: a wait     *)
(* ends by what it waits for, and early only as one of the faults.        *)
(***************************************************************************)
EXTENDS Integers, FiniteSets

CONSTANTS
    Client,    \* programs, each with one connection
    Server,    \* process ids for owners; one is used again when nothing names it
    None,
    Elsewhere, \* a socket another machine's owner bound
    Attempts,  \* ATTEMPTS
    Lingers,   \* whether the owners' linger is long enough to poll the socket in
    MaxReqs,   \* bound: requests of a client
    MaxFaults  \* bound: kinds of fault in one behaviour, each once

ASSUME ReachAssumption ==
    /\ {Attempts, MaxReqs} \subseteq Nat \ {0} /\ MaxFaults \in Nat
    /\ Lingers \in BOOLEAN
    /\ None \notin Client \cup Server /\ Elsewhere \notin Server \cup {None}

VARIABLES
    srv,     \* the owner processes
    lock,    \* who holds the store's lock
    name,    \* what the socket's name leads to
    cl,      \* the clients
    applied, \* how often each client's requests were applied
    told,    \* what each client was told of its requests
    faults   \* an owner killed or told to stop, a wait that ran out, the lease taken

vars == <<srv, lock, name, cl, applied, told, faults>>

NoServer == [pc |-> "none", ls |-> FALSE, queue |-> {}, conns |-> {}, served |-> FALSE,
             starter |-> None]

NewClient == [pc |-> "closed", fd |-> None, owner |-> None, line |-> "none", attempt |-> 0,
              req |-> 0, stage |-> "none"]

Init ==
    /\ srv = [s \in Server |-> NoServer]
    /\ lock = None /\ name = None
    /\ cl = [c \in Client |-> NewClient]
    /\ applied = [c \in Client |-> [n \in 1 .. MaxReqs |-> 0]]
    /\ told = [c \in Client |-> [n \in 1 .. MaxReqs |-> "nothing"]]
    /\ faults = {}

\* gsql_socket_connect succeeds: somebody listens where the name leads.
Answers == name \in Server /\ srv[name].ls

\* The pids the system may give to a new process.
Free(s) ==
    /\ srv[s].pc = "none" /\ name # s
    /\ \A c \in Client : s \notin {cl[c].fd, cl[c].owner}

\* A connection made: it waits to be accepted.
Queued(c) == [srv EXCEPT ![name].queue = @ \cup {c}]

Fault(f) ==
    /\ f \notin faults /\ Cardinality(faults) < MaxFaults
    /\ faults' = faults \cup {f}

\* Another machine has the lease.
taken == "taken" \in faults

\* Whether c's connection is open at the other end.
Linked(c) == cl[c].fd # None /\ c \in srv[cl[c].fd].queue \cup srv[cl[c].fd].conns

---------------------------------------------------------------------------
(* The client: reach.                                                      *)

At(c, pc) == cl[c].pc = pc

\* gsql_client_open, and gsql_client_send after a loss: reach begins.
Reach(c) ==
    /\ At(c, "closed") \/ At(c, "failed")
    /\ cl[c].req < MaxReqs
    /\ cl' = [cl EXCEPT ![c].pc = "connect", ![c].attempt = 1]
    /\ UNCHANGED <<srv, lock, name, applied, told, faults>>

\* The next attempt, or NO_OWNER.  Whatever an earlier start left is dropped.
TryAgain(c) ==
    IF cl[c].attempt < Attempts
    THEN [NewClient EXCEPT !.pc = "connect", !.attempt = cl[c].attempt + 1, !.req = cl[c].req]
    ELSE [NewClient EXCEPT !.pc = "failed", !.req = cl[c].req]

Connect(c) ==
    /\ At(c, "connect") \/ At(c, "retry")
    /\ Answers
    /\ srv' = Queued(c)
    /\ cl' = [cl EXCEPT ![c].pc = "hello", ![c].fd = name, ![c].owner = None]
    /\ UNCHANGED <<lock, name, applied, told, faults>>

\* start_owner: the intermediate and the owner, detached from the client.
StartOwner(c) ==
    /\ At(c, "connect") /\ ~Answers
    /\ \E t \in Server : Free(t)
    /\ LET s == CHOOSE t \in Server : Free(t)
       IN  /\ srv' = [srv EXCEPT ![s] = [NoServer EXCEPT !.pc = "opening", !.starter = c]]
           /\ cl' = [cl EXCEPT ![c].pc = "starting", ![c].owner = s]
    /\ UNCHANGED <<lock, name, applied, told, faults>>

\* The ready line: ready and busy lead to the socket, the others end the reach.
ReadLine(c) ==
    /\ At(c, "starting") /\ cl[c].line # "none"
    /\ cl' = [cl EXCEPT ![c] =
                CASE @.line = "ready" -> [@ EXCEPT !.pc = "retry", !.line = "none"]
                  [] @.line = "busy"  -> [@ EXCEPT !.pc = "retry", !.line = "none", !.owner = None]
                  [] OTHER            -> [NewClient EXCEPT !.pc = "failed", !.req = cl[c].req]]
    /\ UNCHANGED <<srv, lock, name, applied, told, faults>>

\* An owner is on its way to the socket, or there.
Coming ==
    \E s \in Server : srv[s].pc \in {"binding", "serving"} \/ (srv[s].pc = "opening" /\ ~taken)

\* No line within the wait: NO_OWNER at once.
StartTimeout(c) ==
    /\ At(c, "starting") /\ cl[c].line = "none"
    /\ Fault("late")
    /\ cl' = [cl EXCEPT ![c] = [NewClient EXCEPT !.pc = "failed", !.req = cl[c].req]]
    /\ UNCHANGED <<srv, lock, name, applied, told>>

\* Seeded fault: an answer is waited for without a deadline.
RetryForever(c) == At(c, "retry") /\ ~Answers /\ UNCHANGED vars

\* No owner answered within the wait: the winner may itself have died.
RetryTimeout(c) ==
    /\ At(c, "retry") /\ ~Answers
    /\ IF Coming THEN Fault("late") ELSE UNCHANGED faults
    /\ cl' = [cl EXCEPT ![c] = TryAgain(c)]
    /\ UNCHANGED <<srv, lock, name, applied, told>>

\* handshake: the owner went before its WELCOME.
HelloLost(c) ==
    /\ At(c, "hello") /\ ~Linked(c)
    /\ cl' = [cl EXCEPT ![c] = TryAgain(c)]
    /\ UNCHANGED <<srv, lock, name, applied, told, faults>>

\* handshake: WELCOME, from the owner c's connection was accepted by.
Welcome(c) ==
    /\ At(c, "hello") /\ c \in srv[cl[c].fd].conns /\ srv[cl[c].fd].pc = "serving"
    /\ cl' = [cl EXCEPT ![c].pc = "open", ![c].owner = None, ![c].attempt = 0]
    /\ UNCHANGED <<srv, lock, name, applied, told, faults>>

---------------------------------------------------------------------------
(* The client: requests.                                                   *)

\* gsql_client_send.
Send(c) ==
    /\ At(c, "open") /\ cl[c].req < MaxReqs /\ Linked(c)
    /\ cl' = [cl EXCEPT ![c].pc = "wait", ![c].req = @ + 1, ![c].stage = "sent"]
    /\ UNCHANGED <<srv, lock, name, applied, told, faults>>

\* The same when the owner has gone: the write fails.
SendLost(c) ==
    /\ At(c, "open") /\ cl[c].req < MaxReqs /\ ~Linked(c)
    /\ cl' = [cl EXCEPT ![c].pc = "closed", ![c].fd = None, ![c].req = @ + 1]
    /\ told' = [told EXCEPT ![c][cl[c].req + 1] = "lost"]
    /\ UNCHANGED <<srv, lock, name, applied, faults>>

\* gsql_client_recv: the reply, which outlasts the connection.
Receive(c) ==
    /\ At(c, "wait") /\ cl[c].stage = "replied"
    /\ cl' = [cl EXCEPT ![c].pc = "open", ![c].stage = "none"]
    /\ told' = [told EXCEPT ![c][cl[c].req] = "done"]
    /\ UNCHANGED <<srv, lock, name, applied, faults>>

\* Seeded fault: a lost request is sent again.
LostRetried(c) ==
    /\ At(c, "wait") /\ cl[c].stage # "replied" /\ ~Linked(c)
    /\ cl' = [cl EXCEPT ![c].pc = "closed", ![c].fd = None, ![c].stage = "none",
                        ![c].req = @ - 1]
    /\ UNCHANGED <<srv, lock, name, applied, told, faults>>

\* lost: the request in flight failed, and nothing is retried.
Lost(c) ==
    /\ At(c, "wait") /\ cl[c].stage # "replied" /\ ~Linked(c)
    /\ cl' = [cl EXCEPT ![c].pc = "closed", ![c].fd = None, ![c].stage = "none"]
    /\ told' = [told EXCEPT ![c][cl[c].req] = "lost"]
    /\ UNCHANGED <<srv, lock, name, applied, faults>>

\* gsql_client_close, or the program's end at any point.
Quit(c) ==
    /\ ~At(c, "done")
    /\ cl' = [cl EXCEPT ![c] = [NewClient EXCEPT !.pc = "done", !.req = cl[c].req]]
    /\ UNCHANGED <<srv, lock, name, applied, told, faults>>

---------------------------------------------------------------------------
(* The owner: gsql_owner_run.                                              *)

Is(s, pc) == srv[s].pc = pc

Goto(s, pc) == [srv EXCEPT ![s].pc = pc]

\* The line an owner writes, if its starter still listens.
Says(s, line) ==
    [c \in Client |-> IF cl[c].owner = s /\ At(c, "starting") THEN [cl[c] EXCEPT !.line = line]
                      ELSE cl[c]]

\* The engine's open: the lock, and then the lease.
OpenStore(s) ==
    /\ Is(s, "opening") /\ lock = None
    /\ IF taken
       THEN /\ srv' = [srv EXCEPT ![s] = NoServer]
            /\ cl' = Says(s, "elsewhere")
            /\ UNCHANGED lock
       ELSE /\ srv' = Goto(s, "binding")
            /\ lock' = s
            /\ UNCHANGED cl
    /\ UNCHANGED <<name, applied, told, faults>>

\* Seeded fault: a held lock is busy at once.
GivesWayAtOnce == UNCHANGED faults

\* A loser asks whether the winner's socket answers, and waits for the lock
\* while it does not, or until its wait runs out.
GivesWay == IF Answers THEN UNCHANGED faults ELSE Fault("late")

\* Seeded fault: a loser removes the socket on its way out.
BusyUnlinks(s) ==
    /\ Is(s, "opening") /\ lock # None
    /\ GivesWay
    /\ srv' = [(IF Answers THEN Queued(None) ELSE srv) EXCEPT ![s] = NoServer]
    /\ cl' = Says(s, "busy")
    /\ name' = None
    /\ UNCHANGED <<lock, applied, told>>

\* The lock is held: busy.  Asking is a connection nobody holds.
Busy(s) ==
    /\ Is(s, "opening") /\ lock # None
    /\ GivesWay
    /\ srv' = [(IF Answers THEN Queued(None) ELSE srv) EXCEPT ![s] = NoServer]
    /\ cl' = Says(s, "busy")
    /\ UNCHANGED <<lock, name, applied, told>>

\* listen_on renames the socket over whatever the name was; then ready.
Bind(s) ==
    /\ Is(s, "binding")
    /\ srv' = [srv EXCEPT ![s].pc = "serving", ![s].ls = TRUE]
    /\ name' = s
    /\ cl' = Says(s, "ready")
    /\ UNCHANGED <<lock, applied, told, faults>>

\* accept_all.
Accept(s) ==
    /\ Is(s, "serving") /\ srv[s].queue # {}
    /\ srv' = [srv EXCEPT ![s].conns = @ \cup srv[s].queue, ![s].queue = {}, ![s].served = TRUE]
    /\ UNCHANGED <<lock, name, cl, applied, told, faults>>

\* Seeded fault: a connection that said nothing is not seen to close.
HangupHeard(s, c) ==
    /\ Is(s, "serving") /\ c \in srv[s].conns
    /\ c \in Client /\ cl[c].fd # s
    /\ srv' = [srv EXCEPT ![s].conns = @ \ {c}]
    /\ UNCHANGED <<lock, name, cl, applied, told, faults>>

\* A connection whose other end closed.
Hangup(s, c) ==
    /\ Is(s, "serving") /\ c \in srv[s].conns
    /\ c \in Client => cl[c].fd # s
    /\ srv' = [srv EXCEPT ![s].conns = @ \ {c}]
    /\ UNCHANGED <<lock, name, cl, applied, told, faults>>

\* A request is handled: its commit stands.
Apply(s, c) ==
    /\ Is(s, "serving") /\ c \in srv[s].conns
    /\ cl[c].fd = s /\ cl[c].stage = "sent"
    /\ applied' = [applied EXCEPT ![c][cl[c].req] = @ + 1]
    /\ cl' = [cl EXCEPT ![c].stage = "applied"]
    /\ UNCHANGED <<srv, lock, name, told, faults>>

Reply(s, c) ==
    /\ Is(s, "serving") /\ c \in srv[s].conns
    /\ cl[c].fd = s /\ cl[c].stage = "applied"
    /\ cl' = [cl EXCEPT ![c].stage = "replied"]
    /\ UNCHANGED <<srv, lock, name, applied, told, faults>>

\* The clients that wait for s to be there: the one that started it, until its
\* first connection, whatever the linger; all that poll the socket, while a
\* linger longer than their pause of 2 ms runs, which a probe starts again.
Awaited(s) ==
    {c \in Client : \/ ~srv[s].served /\ srv[s].starter = c /\ cl[c].owner = s
                       /\ cl[c].pc \in {"starting", "retry"}
                    \/ Lingers /\ (cl[c].pc = "retry" \/ cl[c].line # "none")}

Grace(s) == Awaited(s) = {}

\* serve: alone for the linger, and nobody queued.
Linger(s) ==
    /\ Is(s, "serving") /\ srv[s].conns = {} /\ srv[s].queue = {}
    /\ Grace(s)
    /\ srv' = Goto(s, "leaving")
    /\ UNCHANGED <<lock, name, cl, applied, told, faults>>

\* The loop ends with clients there: the replies the last sync covers are
\* sent, and every connection is closed.
Ends(s) ==
    /\ Is(s, "serving")
    /\ cl' = [c \in Client |->
                IF cl[c].fd = s /\ cl[c].stage = "applied" THEN [cl[c] EXCEPT !.stage = "replied"]
                ELSE cl[c]]
    /\ srv' = [srv EXCEPT ![s].pc = "leaving", ![s].conns = {}]
    /\ UNCHANGED <<lock, name, applied, told>>

\* SIGTERM.
Terminate(s) == Ends(s) /\ Fault("term")

\* The keeping of the lease, at the latest a second later, finds it taken.
Fenced(s) == taken /\ Ends(s) /\ UNCHANGED faults

\* The name is removed, whatever it leads to,
Unlink(s) ==
    /\ Is(s, "leaving")
    /\ srv' = Goto(s, "unlinked")
    /\ name' = None
    /\ UNCHANGED <<lock, cl, applied, told, faults>>

\* then the listener is closed, which resets what is queued,
CloseListener(s) ==
    /\ Is(s, "unlinked")
    /\ srv' = [srv EXCEPT ![s].pc = "closing", ![s].ls = FALSE, ![s].queue = {}]
    /\ UNCHANGED <<lock, name, cl, applied, told, faults>>

\* Seeded fault: the lock outlives the store.
CloseStoreHeld(s) ==
    /\ Is(s, "closing")
    /\ srv' = [srv EXCEPT ![s] = NoServer]
    /\ UNCHANGED <<lock, name, cl, applied, told, faults>>

\* and after the flush the store is closed and the lock let go.
CloseStore(s) ==
    /\ Is(s, "closing")
    /\ srv' = [srv EXCEPT ![s] = NoServer]
    /\ lock' = None
    /\ UNCHANGED <<name, cl, applied, told, faults>>

\* The owner dies: the system closes its descriptors, and the name stays.  A
\* starter that waits hears so from the intermediate.
Kill(s) ==
    /\ ~Is(s, "none")
    /\ Fault("kill")
    /\ srv' = [srv EXCEPT ![s] = NoServer]
    /\ lock' = IF lock = s THEN None ELSE lock
    /\ cl' = IF Is(s, "opening") \/ Is(s, "binding") THEN Says(s, "error") ELSE cl
    /\ UNCHANGED <<name, applied, told>>

\* Another machine takes the lease of a stalled owner, and its own owner binds
\* its socket in the shared directory.
TakenAway ==
    /\ lock # None
    /\ Fault("taken")
    /\ name' = Elsewhere
    /\ UNCHANGED <<srv, lock, cl, applied, told>>

---------------------------------------------------------------------------
\* What a running process and an unexpired deadline bring about.
ClientMoves(c) ==
    \/ Connect(c) \/ StartOwner(c) \/ ReadLine(c)
    \/ RetryTimeout(c) \/ HelloLost(c) \/ Welcome(c) \/ Receive(c) \/ Lost(c)

OwnerMoves(s) ==
    \/ OpenStore(s) \/ Busy(s) \/ Bind(s) \/ Accept(s)
    \/ \E c \in Client \cup {None} : Hangup(s, c)
    \/ \E c \in Client : Apply(s, c) \/ Reply(s, c)
    \/ Linger(s) \/ Fenced(s) \/ Unlink(s) \/ CloseListener(s) \/ CloseStore(s)

Next ==
    \/ \E c \in Client :
         \/ Reach(c) \/ StartTimeout(c) \/ Send(c) \/ SendLost(c) \/ Quit(c)
         \/ ClientMoves(c)
    \/ \E s \in Server : OwnerMoves(s) \/ Terminate(s) \/ Kill(s)
    \/ TakenAway

Spec ==
    /\ Init /\ [][Next]_vars
    /\ \A c \in Client : WF_vars(ClientMoves(c))
    /\ \A s \in Server : WF_vars(OwnerMoves(s))

---------------------------------------------------------------------------
Reaching == {"connect", "starting", "retry", "hello"}

\* The type invariant; who is past the open holds the lock, and a client is
\* connected only where it has an end.
TypeOK ==
    /\ \A s \in Server :
         /\ srv[s].pc \in {"none", "opening", "binding", "serving", "leaving", "unlinked", "closing"}
         /\ srv[s].ls = (srv[s].pc \in {"serving", "leaving", "unlinked"})
         /\ srv[s].queue \cup srv[s].conns \subseteq Client \cup {None}
         /\ srv[s].served \in BOOLEAN /\ srv[s].starter \in Client \cup {None}
         /\ srv[s].pc \notin {"none", "opening"} <=> lock = s
    /\ name \in Server \cup {None, Elsewhere}
    /\ faults \subseteq {"kill", "term", "late", "taken"}
    /\ \A c \in Client :
         /\ cl[c].pc \in Reaching \cup {"closed", "open", "wait", "failed", "done"}
         /\ cl[c].fd \in Server \cup {None} /\ cl[c].owner \in Server \cup {None}
         /\ cl[c].attempt \in 0 .. Attempts /\ cl[c].req \in 0 .. MaxReqs
         /\ (cl[c].fd # None) = (cl[c].pc \in {"hello", "open", "wait"})

\* The owner that serves is the one the name leads to: no other owner's end,
\* late or early, takes the name from under it (listen_on, and the order of
\* unlink, close and the lock's release at the end of serve and of
\* gsql_owner_run).
Reachable == \A s \in Server : Is(s, "serving") /\ ~taken => name = s

\* Whatever dies and whoever reconnects, no request is applied twice, and one
\* that was answered was applied (gsql_client_send, lost: nothing is retried).
AtMostOnce ==
    \A c \in Client : \A n \in 1 .. MaxReqs :
        /\ applied[c][n] <= 1
        /\ told[c][n] = "done" => applied[c][n] = 1

\* An open fails only if an owner died or a wait ran out: races of owners that
\* start, stop and linger are waited out within the attempts (reach, the wait
\* for the lock in gsql_owner_run, the grace of serve).
NoFalseRefusal == (\E c \in Client : At(c, "failed")) => faults \cap {"kill", "late", "taken"} # {}

\* Every reach ends, in a connection or in an error.
ReachEnds == \A c \in Client : cl[c].pc \in Reaching ~> cl[c].pc \notin Reaching

\* An owner nobody uses lets the database go.
OwnerLeaves == (\A c \in Client : At(c, "done")) ~> lock = None /\ ~Answers
=============================================================================
