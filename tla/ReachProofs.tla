---------------------------- MODULE ReachProofs ----------------------------
(***************************************************************************)
(* Proofs about Reach, for any clients, processes, attempts and faults.    *)
(***************************************************************************)
EXTENDS Reach, TLAPS

---------------------------------------------------------------------------
(* The inductive invariant.                                                *)

ServerPcs == {"none", "opening", "binding", "serving", "leaving", "unlinked", "closing"}
ClientPcs == Reaching \cup {"closed", "open", "wait", "failed", "done"}
Stages    == {"none", "sent", "applied", "replied"}
Lines     == {"none", "ready", "busy", "elsewhere", "error"}
Tries     == 0 .. Attempts
Numbers   == 0 .. MaxReqs

Owners  == [pc : ServerPcs, ls : BOOLEAN, queue : SUBSET (Client \cup {None}),
            conns : SUBSET (Client \cup {None}), served : BOOLEAN, starter : Client \cup {None}]
Clients == [pc : ClientPcs, fd : Server \cup {None}, owner : Server \cup {None}, line : Lines,
            attempt : Tries, req : Numbers, stage : Stages]

\* What every variable is made of.
Shapes ==
    /\ srv \in [Server -> Owners]
    /\ lock \in Server \cup {None}
    /\ name \in Server \cup {None, Elsewhere}
    /\ cl \in [Client -> Clients]
    /\ applied \in [Client -> [1 .. MaxReqs -> Nat]]
    /\ told \in [Client -> [1 .. MaxReqs -> {"nothing", "lost", "done"}]]
    /\ faults \subseteq {"kill", "term", "late", "taken"}

\* An owner listens from its bind to the close of its listener, and has the
\* store's lock from the open of the store to its close.
OwnerAgrees(s) ==
    /\ srv[s].ls = (srv[s].pc \in {"serving", "leaving", "unlinked"})
    /\ srv[s].pc \notin {"none", "opening"} <=> lock = s

\* A client is connected where it has an end; a request is in flight exactly
\* while it waits for the reply.
ClientAgrees(c) ==
    /\ (cl[c].fd # None) = (cl[c].pc \in {"hello", "open", "wait"})
    /\ (cl[c].stage # "none") = (cl[c].pc = "wait")

\* How far the request in flight is, is what was applied of it; nothing later
\* was applied, and nothing was applied twice.
InFlight(c) ==
    /\ cl[c].pc = "wait" => cl[c].req > 0
    /\ cl[c].stage = "sent" => applied[c][cl[c].req] = 0
    /\ cl[c].stage \in {"applied", "replied"} => applied[c][cl[c].req] = 1
    /\ \A n \in 1 .. MaxReqs : n > cl[c].req => applied[c][n] = 0 /\ told[c][n] = "nothing"

IInv ==
    /\ Shapes
    /\ \A s \in Server : OwnerAgrees(s)
    /\ \A c \in Client : ClientAgrees(c) /\ InFlight(c)
    /\ Reachable /\ AtMostOnce


---------------------------------------------------------------------------
(* The steps.                                                              *)

\* The values the steps assign.
LEMMA Members ==
  /\ "none" \in ServerPcs /\ "opening" \in ServerPcs /\ "binding" \in ServerPcs
  /\ "serving" \in ServerPcs /\ "leaving" \in ServerPcs /\ "unlinked" \in ServerPcs
  /\ "closing" \in ServerPcs
  /\ "connect" \in ClientPcs /\ "starting" \in ClientPcs /\ "retry" \in ClientPcs
  /\ "hello" \in ClientPcs /\ "closed" \in ClientPcs /\ "open" \in ClientPcs
  /\ "wait" \in ClientPcs /\ "failed" \in ClientPcs /\ "done" \in ClientPcs
  /\ "none" \in Stages /\ "sent" \in Stages /\ "applied" \in Stages /\ "replied" \in Stages
  /\ "none" \in Lines /\ "ready" \in Lines /\ "busy" \in Lines /\ "elsewhere" \in Lines
  /\ "error" \in Lines
  /\ 0 \in Tries /\ 1 \in Tries /\ 0 \in Numbers
  /\ \A n \in Tries : n < Attempts => n + 1 \in Tries
  /\ \A n \in Numbers : n < MaxReqs => n + 1 \in Numbers
  BY ReachAssumption DEF ServerPcs, ClientPcs, Reaching, Stages, Lines, Tries, Numbers

\* The records of a process that is gone, of a client that begins, and of one
\* that tries again.
LEMMA Records ==
  ASSUME Shapes
  PROVE  /\ NoServer \in Owners
         /\ \A c \in Client : \A p \in ClientPcs :
              [NewClient EXCEPT !.pc = p, !.req = cl[c].req] \in Clients
         /\ \A c \in Client : TryAgain(c) \in Clients
         /\ \A s \in Server : \A l \in Lines : Says(s, l) \in [Client -> Clients]
<1>1. NoServer \in Owners
  BY Members DEF NoServer, Owners
<1>2. ASSUME NEW c \in Client, NEW p \in ClientPcs
      PROVE  [NewClient EXCEPT !.pc = p, !.req = cl[c].req] \in Clients
  BY Members DEF Shapes, Clients, NewClient
<1>3. ASSUME NEW c \in Client PROVE TryAgain(c) \in Clients
  <2>1. CASE cl[c].attempt < Attempts
    <3>1. cl[c].attempt + 1 \in Tries /\ cl[c].req \in Numbers
      BY <2>1, Members DEF Shapes, Clients
    <3> QED
      BY <2>1, <3>1, Members DEF TryAgain, NewClient, Clients
  <2>2. CASE ~ (cl[c].attempt < Attempts)
    BY <2>2, <1>2, Members DEF TryAgain
  <2> QED
    BY <2>1, <2>2
<1>4. ASSUME NEW s \in Server, NEW l \in Lines PROVE Says(s, l) \in [Client -> Clients]
  <2>1. \A c \in Client : [cl[c] EXCEPT !.line = l] \in Clients
    BY Members DEF Shapes, Clients
  <2> QED
    BY <2>1 DEF Shapes, Says
<1> QED
  BY <1>1, <1>2, <1>3, <1>4

\* Every step keeps the records of the owners.
LEMMA SrvStep ==
  ASSUME Shapes, [Next]_vars PROVE srv' \in [Server -> Owners]
<1>1. ASSUME NEW c \in Client, Connect(c) PROVE srv' \in [Server -> Owners]
  <2>1. name \in Server /\ [srv[name] EXCEPT !.queue = @ \cup {c}] \in Owners
    BY <1>1, Members DEF Owners, Shapes, Connect, Answers
  <2> QED
    BY <1>1, <2>1 DEF Connect, Queued, Shapes
<1>2. ASSUME NEW c \in Client, StartOwner(c) PROVE srv' \in [Server -> Owners]
  <2>1. [NoServer EXCEPT !.pc = "opening", !.starter = c] \in Owners
    BY Members DEF Owners, NoServer
  <2>2. PICK t \in Server : Free(t)
    BY <1>2 DEF StartOwner
  <2>3. (CHOOSE u \in Server : Free(u)) \in Server
    BY <2>2
  <2> QED
    BY <1>2, <2>1, <2>3 DEF StartOwner, Shapes
<1>3. ASSUME NEW s \in Server, OpenStore(s) PROVE srv' \in [Server -> Owners]
  <2>1. [srv[s] EXCEPT !.pc = "binding"] \in Owners
    BY <1>3, Members DEF Owners, Shapes
  <2> QED
    BY <1>3, <2>1, Records DEF OpenStore, Goto, Shapes
<1>4. ASSUME NEW s \in Server, Busy(s) PROVE srv' \in [Server -> Owners]
  <2>1. (IF Answers THEN Queued(None) ELSE srv) \in [Server -> Owners]
    <3>1. CASE Answers
      <4>1. name \in Server /\ [srv[name] EXCEPT !.queue = @ \cup {None}] \in Owners
        BY <3>1 DEF Owners, Shapes, Answers
      <4> QED
        BY <3>1, <4>1 DEF Queued, Shapes
    <3> QED
      BY <3>1 DEF Shapes
  <2> QED
    BY <1>4, <2>1, Records DEF Busy
<1>5. ASSUME NEW s \in Server, Bind(s) PROVE srv' \in [Server -> Owners]
  <2>1. [srv[s] EXCEPT !.pc = "serving", !.ls = TRUE] \in Owners
    BY <1>5, Members DEF Owners, Shapes
  <2> QED
    BY <1>5, <2>1 DEF Bind, Shapes
<1>6. ASSUME NEW s \in Server, Accept(s) PROVE srv' \in [Server -> Owners]
  <2>1. [srv[s] EXCEPT !.conns = @ \cup srv[s].queue, !.queue = {}, !.served = TRUE] \in Owners
    BY <1>6, Members DEF Owners, Shapes
  <2> QED
    BY <1>6, <2>1 DEF Accept, Shapes
<1>7. ASSUME NEW s \in Server, Linger(s) PROVE srv' \in [Server -> Owners]
  <2>1. [srv[s] EXCEPT !.pc = "leaving"] \in Owners
    BY <1>7, Members DEF Owners, Shapes
  <2> QED
    BY <1>7, <2>1 DEF Linger, Goto, Shapes
<1>8. ASSUME NEW s \in Server, Terminate(s) PROVE srv' \in [Server -> Owners]
  <2>1. [srv[s] EXCEPT !.pc = "leaving", !.conns = {}] \in Owners
    BY <1>8, Members DEF Owners, Shapes
  <2> QED
    BY <1>8, <2>1 DEF Terminate, Ends, Shapes
<1>9. ASSUME NEW s \in Server, Fenced(s) PROVE srv' \in [Server -> Owners]
  <2>1. [srv[s] EXCEPT !.pc = "leaving", !.conns = {}] \in Owners
    BY <1>9, Members DEF Owners, Shapes
  <2> QED
    BY <1>9, <2>1 DEF Fenced, Ends, Shapes
<1>10. ASSUME NEW s \in Server, Unlink(s) PROVE srv' \in [Server -> Owners]
  <2>1. [srv[s] EXCEPT !.pc = "unlinked"] \in Owners
    BY <1>10, Members DEF Owners, Shapes
  <2> QED
    BY <1>10, <2>1 DEF Unlink, Goto, Shapes
<1>11. ASSUME NEW s \in Server, CloseListener(s) PROVE srv' \in [Server -> Owners]
  <2>1. [srv[s] EXCEPT !.pc = "closing", !.ls = FALSE, !.queue = {}] \in Owners
    BY <1>11, Members DEF Owners, Shapes
  <2> QED
    BY <1>11, <2>1 DEF CloseListener, Shapes
<1>12. ASSUME NEW s \in Server, CloseStore(s) PROVE srv' \in [Server -> Owners]
  BY <1>12, Records DEF CloseStore, Shapes
<1>13. ASSUME NEW s \in Server, Kill(s) PROVE srv' \in [Server -> Owners]
  BY <1>13, Records DEF Kill, Shapes
<1>14. ASSUME NEW s \in Server, NEW c \in Client \cup {None}, Hangup(s,
    c) PROVE srv' \in [Server -> Owners]
  <2>1. [srv[s] EXCEPT !.conns = @ \ {c}] \in Owners
    BY <1>14, Members DEF Owners, Shapes
  <2> QED
    BY <1>14, <2>1 DEF Hangup, Shapes
<1>15. CASE UNCHANGED srv
  BY <1>15 DEF Shapes
<1> QED
  BY <1>1, <1>2, <1>3, <1>4, <1>5, <1>6, <1>7, <1>8, <1>9, <1>10, <1>11, <1>12, <1>13, <1>14, <1>15
  DEF Next, ClientMoves, OwnerMoves, vars, Reach, ReadLine, StartTimeout, RetryTimeout,
      HelloLost, Welcome, Send, SendLost, Receive, Lost, Quit, Apply, Reply, TakenAway

\* Every step keeps the records of the clients.
LEMMA ClStep ==
  ASSUME Shapes, [Next]_vars PROVE cl' \in [Client -> Clients]
<1>1. ASSUME NEW c \in Client, Reach(c) PROVE cl' \in [Client -> Clients]
  <2>1. [cl[c] EXCEPT !.pc = "connect", !.attempt = 1] \in Clients
    BY <1>1, Members DEF Clients, Shapes
  <2> QED
    BY <1>1, <2>1 DEF Reach, Shapes
<1>2. ASSUME NEW c \in Client, Connect(c) PROVE cl' \in [Client -> Clients]
  <2>1. [cl[c] EXCEPT !.pc = "hello", !.fd = name, !.owner = None] \in Clients
    BY <1>2, Members DEF Clients, Shapes, Connect, Answers
  <2> QED
    BY <1>2, <2>1 DEF Connect, Shapes
<1>3. ASSUME NEW c \in Client, StartOwner(c) PROVE cl' \in [Client -> Clients]
  <2>1. PICK t \in Server : Free(t)
    BY <1>3 DEF StartOwner
  <2>2. (CHOOSE u \in Server : Free(u)) \in Server
    BY <2>1
  <2>3. \A u \in Server : [cl[c] EXCEPT !.pc = "starting", !.owner = u] \in Clients
    BY Members DEF Clients, Shapes
  <2> QED
    BY <1>3, <2>2, <2>3 DEF StartOwner, Shapes
<1>4. ASSUME NEW c \in Client, ReadLine(c) PROVE cl' \in [Client -> Clients]
  <2>1. /\ [cl[c] EXCEPT !.pc = "retry", !.line = "none"] \in Clients
        /\ [cl[c] EXCEPT !.pc = "retry", !.line = "none", !.owner = None] \in Clients
    BY Members DEF Clients, Shapes
  <2> QED
    BY <1>4, <2>1, Records, Members DEF ReadLine, Shapes
<1>5. ASSUME NEW c \in Client, StartTimeout(c) PROVE cl' \in [Client -> Clients]
  BY <1>5, Records, Members DEF StartTimeout, Shapes
<1>6. ASSUME NEW c \in Client, RetryTimeout(c) PROVE cl' \in [Client -> Clients]
  BY <1>6, Records, Members DEF RetryTimeout, Shapes
<1>7. ASSUME NEW c \in Client, HelloLost(c) PROVE cl' \in [Client -> Clients]
  BY <1>7, Records, Members DEF HelloLost, Shapes
<1>8. ASSUME NEW c \in Client, Welcome(c) PROVE cl' \in [Client -> Clients]
  <2>1. [cl[c] EXCEPT !.pc = "open", !.owner = None, !.attempt = 0] \in Clients
    BY <1>8, Members DEF Clients, Shapes
  <2> QED
    BY <1>8, <2>1 DEF Welcome, Shapes
<1>9. ASSUME NEW c \in Client, Send(c) PROVE cl' \in [Client -> Clients]
  <2>1. cl[c].req + 1 \in Numbers
    BY <1>9, Members DEF Send, Clients, Shapes
  <2>2. [cl[c] EXCEPT !.pc = "wait", !.req = @ + 1, !.stage = "sent"] \in Clients
    BY <2>1, Members DEF Clients, Shapes
  <2> QED
    BY <1>9, <2>2 DEF Send, Shapes
<1>10. ASSUME NEW c \in Client, SendLost(c) PROVE cl' \in [Client -> Clients]
  <2>1. cl[c].req + 1 \in Numbers
    BY <1>10, Members DEF SendLost, Clients, Shapes
  <2>2. [cl[c] EXCEPT !.pc = "closed", !.fd = None, !.req = @ + 1] \in Clients
    BY <2>1, Members DEF Clients, Shapes
  <2> QED
    BY <1>10, <2>2 DEF SendLost, Shapes
<1>11. ASSUME NEW c \in Client, Receive(c) PROVE cl' \in [Client -> Clients]
  <2>1. [cl[c] EXCEPT !.pc = "open", !.stage = "none"] \in Clients
    BY <1>11, Members DEF Clients, Shapes
  <2> QED
    BY <1>11, <2>1 DEF Receive, Shapes
<1>12. ASSUME NEW c \in Client, Lost(c) PROVE cl' \in [Client -> Clients]
  <2>1. [cl[c] EXCEPT !.pc = "closed", !.fd = None, !.stage = "none"] \in Clients
    BY <1>12, Members DEF Clients, Shapes
  <2> QED
    BY <1>12, <2>1 DEF Lost, Shapes
<1>13. ASSUME NEW c \in Client, Quit(c) PROVE cl' \in [Client -> Clients]
  BY <1>13, Records, Members DEF Quit, Shapes
<1>14. ASSUME NEW s \in Server, OpenStore(s) PROVE cl' \in [Client -> Clients]
  <2>1. cl' = Says(s, "elsewhere") \/ cl' = cl
    BY <1>14 DEF OpenStore
  <2>2. Says(s, "elsewhere") \in [Client -> Clients] /\ cl \in [Client -> Clients]
    BY <1>14, Records, Members DEF Shapes
  <2> QED
    BY <2>1, <2>2
<1>15. ASSUME NEW s \in Server, Busy(s) PROVE cl' \in [Client -> Clients]
  BY <1>15, Records, Members DEF Busy, Shapes
<1>16. ASSUME NEW s \in Server, Bind(s) PROVE cl' \in [Client -> Clients]
  BY <1>16, Records, Members DEF Bind, Shapes
<1>17. ASSUME NEW s \in Server, Terminate(s) PROVE cl' \in [Client -> Clients]
  <2>1. \A c \in Client : [cl[c] EXCEPT !.stage = "replied"] \in Clients
    BY Members DEF Clients, Shapes
  <2> QED
    BY <1>17, <2>1 DEF Terminate, Ends, Shapes
<1>18. ASSUME NEW s \in Server, Fenced(s) PROVE cl' \in [Client -> Clients]
  <2>1. \A c \in Client : [cl[c] EXCEPT !.stage = "replied"] \in Clients
    BY Members DEF Clients, Shapes
  <2> QED
    BY <1>18, <2>1 DEF Fenced, Ends, Shapes
<1>19. ASSUME NEW s \in Server, Kill(s) PROVE cl' \in [Client -> Clients]
  BY <1>19, Records, Members DEF Kill, Shapes
<1>20. ASSUME NEW s \in Server, NEW c \in Client, Apply(s, c) PROVE cl' \in [Client -> Clients]
  <2>1. [cl[c] EXCEPT !.stage = "applied"] \in Clients
    BY <1>20, Members DEF Clients, Shapes
  <2> QED
    BY <1>20, <2>1 DEF Apply, Shapes
<1>21. ASSUME NEW s \in Server, NEW c \in Client, Reply(s, c) PROVE cl' \in [Client -> Clients]
  <2>1. [cl[c] EXCEPT !.stage = "replied"] \in Clients
    BY <1>21, Members DEF Clients, Shapes
  <2> QED
    BY <1>21, <2>1 DEF Reply, Shapes
<1>22. CASE UNCHANGED cl
  BY <1>22 DEF Shapes
<1> QED
  BY <1>1, <1>2, <1>3, <1>4, <1>5, <1>6, <1>7, <1>8, <1>9, <1>10, <1>11, <1>12, <1>13, <1>14,
     <1>15, <1>16, <1>17, <1>18, <1>19, <1>20, <1>21, <1>22
  DEF Next, ClientMoves, OwnerMoves, vars, Accept, Linger, Unlink, CloseListener, CloseStore,
      Hangup, TakenAway

\* The variables that are not records.
Rest ==
    /\ lock \in Server \cup {None}
    /\ name \in Server \cup {None, Elsewhere}
    /\ applied \in [Client -> [1 .. MaxReqs -> Nat]]
    /\ told \in [Client -> [1 .. MaxReqs -> {"nothing", "lost", "done"}]]
    /\ faults \subseteq {"kill", "term", "late", "taken"}

\* A count that goes up by one is a count.
LEMMA Counted ==
  ASSUME NEW S, NEW f \in [S -> Nat], NEW n
  PROVE  [f EXCEPT ![n] = @ + 1] \in [S -> Nat]
<1>1. CASE n \in S
  BY <1>1
<1>2. CASE n \notin S
  BY <1>2
<1> QED
  BY <1>1, <1>2

\* The first time is one.
LEMMA CountedFirst ==
  ASSUME NEW S, NEW f \in [S -> Nat], NEW k \in S, f[k] = 0
  PROVE  \A n \in S : [f EXCEPT ![k] = @ + 1][n] = IF n = k THEN 1 ELSE f[n]
  OBVIOUS

\* Every step keeps their shapes.
LEMMA RestStep ==
  ASSUME Shapes, [Next]_vars PROVE Rest'
<1>1. ASSUME NEW c \in Client, StartTimeout(c) PROVE Rest'
  BY <1>1 DEF StartTimeout, Fault, Rest, Shapes
<1>2. ASSUME NEW c \in Client, RetryTimeout(c) PROVE Rest'
  BY <1>2 DEF RetryTimeout, Fault, Rest, Shapes
<1>3. ASSUME NEW c \in Client, SendLost(c) PROVE Rest'
  BY <1>3 DEF SendLost, Rest, Shapes
<1>4. ASSUME NEW c \in Client, Receive(c) PROVE Rest'
  BY <1>4 DEF Receive, Rest, Shapes
<1>5. ASSUME NEW c \in Client, Lost(c) PROVE Rest'
  BY <1>5 DEF Lost, Rest, Shapes
<1>6. ASSUME NEW s \in Server, OpenStore(s) PROVE Rest'
  BY <1>6 DEF OpenStore, Rest, Shapes
<1>7. ASSUME NEW s \in Server, Busy(s) PROVE Rest'
  BY <1>7 DEF Busy, GivesWay, Fault, Rest, Shapes
<1>8. ASSUME NEW s \in Server, Bind(s) PROVE Rest'
  BY <1>8 DEF Bind, Rest, Shapes
<1>9. ASSUME NEW s \in Server, Terminate(s) PROVE Rest'
  BY <1>9 DEF Terminate, Ends, Fault, Rest, Shapes
<1>10. ASSUME NEW s \in Server, Unlink(s) PROVE Rest'
  BY <1>10 DEF Unlink, Rest, Shapes
<1>11. ASSUME NEW s \in Server, CloseStore(s) PROVE Rest'
  BY <1>11 DEF CloseStore, Rest, Shapes
<1>12. ASSUME NEW s \in Server, Kill(s) PROVE Rest'
  BY <1>12 DEF Kill, Fault, Rest, Shapes
<1>13. ASSUME NEW s \in Server, NEW c \in Client, Apply(s, c) PROVE Rest'
  <2> DEFINE n == cl[c].req
  <2>1. applied[c] \in [1 .. MaxReqs -> Nat]
    BY <1>13 DEF Shapes
  <2>2. [applied[c] EXCEPT ![n] = @ + 1] \in [1 .. MaxReqs -> Nat]
    BY <2>1, Counted
  <2> QED
    BY <1>13, <2>2 DEF Apply, Rest, Shapes
<1>14. ASSUME TakenAway PROVE Rest'
  BY <1>14 DEF TakenAway, Fault, Rest, Shapes
<1>15. CASE UNCHANGED <<lock, name, applied, told, faults>>
  BY <1>15 DEF Rest, Shapes
<1> QED
  BY <1>1, <1>2, <1>3, <1>4, <1>5, <1>6, <1>7, <1>8, <1>9, <1>10, <1>11, <1>12, <1>13, <1>14, <1>15
  DEF Next, ClientMoves, OwnerMoves, vars, Reach, Connect, StartOwner, ReadLine, HelloLost,
      Welcome, Send, Quit, Accept, Linger, Fenced, Ends, CloseListener, Hangup, Reply

\* Every step keeps the shapes of the variables.
LEMMA ShapesStep ==
  ASSUME Shapes, [Next]_vars PROVE Shapes'
  BY SrvStep, ClStep, RestStep DEF Shapes, Rest

\* What the record of a process that is gone, or has just been started, says.
LEMMA Gone ==
  ASSUME NEW c
  PROVE  LET n == [NoServer EXCEPT !.pc = "opening", !.starter = c]
         IN  /\ NoServer.pc = "none" /\ n.pc = "opening"
             /\ NoServer.ls = (NoServer.pc \in {"serving", "leaving", "unlinked"})
             /\ n.ls = (n.pc \in {"serving", "leaving", "unlinked"})
<1> DEFINE n == [NoServer EXCEPT !.pc = "opening", !.starter = c]
<1>1. NoServer.pc = "none" /\ n.pc = "opening" /\ NoServer.ls = FALSE /\ n.ls = FALSE
  BY DEF NoServer
<1>2. (NoServer.pc \in {"serving", "leaving", "unlinked"}) = FALSE
  BY <1>1
<1>3. (n.pc \in {"serving", "leaving", "unlinked"}) = FALSE
  BY <1>1
<1> QED
  BY <1>1, <1>2, <1>3

\* Every step keeps who listens and who has the lock (gsql_owner_run: the
\* store is opened first and closed last).
LEMMA OwnerStep ==
  ASSUME Shapes, \A s \in Server : OwnerAgrees(s), [Next]_vars
  PROVE  \A t \in Server : OwnerAgrees(t)'
<1>0. None \notin Server
  BY ReachAssumption
<1>1. ASSUME NEW c \in Client, Connect(c) PROVE \A t \in Server : OwnerAgrees(t)'
  BY <1>1, <1>0 DEF Connect, Queued, Answers, Shapes, Owners, OwnerAgrees, Is, Free
<1>2. ASSUME NEW c \in Client, StartOwner(c) PROVE \A t \in Server : OwnerAgrees(t)'
  <2> DEFINE n == [NoServer EXCEPT !.pc = "opening", !.starter = c]
  <2>1. PICK s \in Server : Free(s) /\ srv' = [srv EXCEPT ![s] = n]
    BY <1>2 DEF StartOwner
  <2>2. n.pc = "opening" /\ n.ls = (n.pc \in {"serving", "leaving", "unlinked"})
    BY Gone
  <2> HIDE DEF n
  <2> SUFFICES ASSUME NEW t \in Server PROVE OwnerAgrees(t)'
    OBVIOUS
  <2>3. CASE t = s
    BY <1>2, <2>1, <2>2, <2>3 DEF StartOwner, Free, Shapes, OwnerAgrees
  <2>4. CASE t # s
    BY <1>2, <2>1, <2>4 DEF StartOwner, Shapes, OwnerAgrees
  <2> QED
    BY <2>3, <2>4
<1>3. ASSUME NEW s \in Server, OpenStore(s) PROVE \A t \in Server : OwnerAgrees(t)'
  <2>1. CASE taken
    <3>1. srv' = [srv EXCEPT ![s] = NoServer] /\ lock' = lock /\ lock = None
      BY <1>3, <2>1 DEF OpenStore
    <3> QED
      BY <1>3, <1>0, <3>1, Gone DEF Shapes, OwnerAgrees
  <2>2. CASE ~taken
    <3>1. srv' = [srv EXCEPT ![s].pc = "binding"] /\ lock' = s /\ lock = None /\ srv[s].pc = "opening"
      BY <1>3, <2>2 DEF OpenStore, Goto, Is
    <3>2. srv'[s].ls = srv[s].ls /\ srv'[s].pc = "binding"
      BY <1>3, <3>1 DEF Shapes, Owners
    <3>3. \A t \in Server : t # s => srv'[t] = srv[t]
      BY <1>3, <3>1 DEF Shapes
    <3> QED
      BY <1>3, <1>0, <3>1, <3>2, <3>3 DEF OwnerAgrees
  <2> QED
    BY <2>1, <2>2
<1>4. ASSUME NEW s \in Server, Busy(s) PROVE \A t \in Server : OwnerAgrees(t)'
  <2>1. \A t \in Server : t # s => srv'[t].pc = srv[t].pc /\ srv'[t].ls = srv[t].ls
    BY <1>4 DEF Busy, Answers, Queued, Shapes, Owners
  <2>2. srv'[s] = NoServer /\ lock' = lock
    BY <1>4 DEF Busy, Answers, Queued, Shapes, Owners
  <2> QED
    BY <1>4, <2>1, <2>2, Gone DEF Busy, OwnerAgrees, Is
<1>5. ASSUME NEW s \in Server, Bind(s) PROVE \A t \in Server : OwnerAgrees(t)'
  <2>1. srv'[s].ls = TRUE /\ srv'[s].pc = "serving" /\ lock' = lock /\ srv[s].pc = "binding"
    BY <1>5 DEF Bind, Is, Shapes, Owners
  <2>2. \A t \in Server : t # s => srv'[t] = srv[t]
    BY <1>5 DEF Bind, Shapes
  <2>3. (srv'[s].pc \in {"serving", "leaving", "unlinked"}) = TRUE
    BY <2>1
  <2> QED
    BY <1>5, <2>1, <2>2, <2>3 DEF OwnerAgrees
<1>6. ASSUME NEW s \in Server, Accept(s) PROVE \A t \in Server : OwnerAgrees(t)'
  BY <1>6, <1>0 DEF Accept, Shapes, Owners, OwnerAgrees, Is, Free
<1>7. ASSUME NEW s \in Server, Linger(s) PROVE \A t \in Server : OwnerAgrees(t)'
  BY <1>7, <1>0 DEF Linger, Goto, Shapes, Owners, OwnerAgrees, Is, Free
<1>8. ASSUME NEW s \in Server, Terminate(s) PROVE \A t \in Server : OwnerAgrees(t)'
  BY <1>8, <1>0 DEF Terminate, Ends, Shapes, Owners, OwnerAgrees, Is, Free
<1>9. ASSUME NEW s \in Server, Fenced(s) PROVE \A t \in Server : OwnerAgrees(t)'
  BY <1>9, <1>0 DEF Fenced, Ends, Shapes, Owners, OwnerAgrees, Is, Free
<1>10. ASSUME NEW s \in Server, Unlink(s) PROVE \A t \in Server : OwnerAgrees(t)'
  BY <1>10, <1>0 DEF Unlink, Goto, Shapes, Owners, OwnerAgrees, Is, Free
<1>11. ASSUME NEW s \in Server, CloseListener(s) PROVE \A t \in Server : OwnerAgrees(t)'
  BY <1>11, <1>0 DEF CloseListener, Shapes, Owners, OwnerAgrees, Is, Free
<1>12. ASSUME NEW s \in Server, CloseStore(s) PROVE \A t \in Server : OwnerAgrees(t)'
  <2> SUFFICES ASSUME NEW t \in Server PROVE OwnerAgrees(t)'
    OBVIOUS
  <2>1. CASE t = s
    BY <1>12, <1>0, <2>1, Gone DEF CloseStore, Shapes, OwnerAgrees, Is
  <2>2. CASE t # s
    BY <1>12, <1>0, <2>2 DEF CloseStore, NoServer, Shapes, Owners, OwnerAgrees, Is
  <2> QED
    BY <2>1, <2>2
<1>13. ASSUME NEW s \in Server, Kill(s) PROVE \A t \in Server : OwnerAgrees(t)'
  <2> SUFFICES ASSUME NEW t \in Server PROVE OwnerAgrees(t)'
    OBVIOUS
  <2>1. CASE t = s
    BY <1>13, <1>0, <2>1, Gone DEF Kill, Shapes, OwnerAgrees, Is
  <2>2. CASE t # s
    BY <1>13, <1>0, <2>2 DEF Kill, NoServer, Shapes, Owners, OwnerAgrees, Is
  <2> QED
    BY <2>1, <2>2
<1>14. ASSUME NEW s \in Server, NEW c \in Client \cup {None}, Hangup(s,
    c) PROVE \A t \in Server : OwnerAgrees(t)'
  BY <1>14, <1>0 DEF Hangup, Shapes, Owners, OwnerAgrees, Is, Free
<1>15. CASE UNCHANGED <<srv, lock>>
  BY <1>15, <1>0 DEF Shapes, Owners, OwnerAgrees, Is, Free
<1> QED
  BY <1>1, <1>2, <1>3, <1>4, <1>5, <1>6, <1>7, <1>8, <1>9, <1>10, <1>11, <1>12, <1>13, <1>14, <1>15
  DEF Next, ClientMoves, OwnerMoves, vars, Reach, ReadLine, StartTimeout, RetryTimeout,
      HelloLost, Welcome, Send, SendLost, Receive, Lost, Quit, Apply, Reply, TakenAway

\* Every step keeps where a client is connected and what it waits for.
LEMMA ClientStep ==
  ASSUME Shapes, \A c \in Client : ClientAgrees(c), [Next]_vars
  PROVE  \A d \in Client : ClientAgrees(d)'
<1>0. None \notin Server
  BY ReachAssumption
<1>1. ASSUME NEW c \in Client, Reach(c) PROVE \A d \in Client : ClientAgrees(d)'
  BY <1>1, <1>0 DEF Reach, Shapes, Clients, ClientAgrees, At
<1>2. ASSUME NEW c \in Client, Connect(c) PROVE \A d \in Client : ClientAgrees(d)'
  BY <1>2, <1>0 DEF Connect, Queued, Answers, Shapes, Clients, ClientAgrees, At
<1>3. ASSUME NEW c \in Client, StartOwner(c) PROVE \A d \in Client : ClientAgrees(d)'
  BY <1>3, <1>0 DEF StartOwner, NoServer, Shapes, Clients, ClientAgrees, At
<1>4. ASSUME NEW c \in Client, ReadLine(c) PROVE \A d \in Client : ClientAgrees(d)'
  BY <1>4, <1>0 DEF ReadLine, NewClient, Shapes, Clients, ClientAgrees, At
<1>5. ASSUME NEW c \in Client, StartTimeout(c) PROVE \A d \in Client : ClientAgrees(d)'
  BY <1>5, <1>0 DEF StartTimeout, NewClient, Shapes, Clients, ClientAgrees, At
<1>6. ASSUME NEW c \in Client, RetryTimeout(c) PROVE \A d \in Client : ClientAgrees(d)'
  BY <1>6, <1>0 DEF RetryTimeout, TryAgain, NewClient, Shapes, Clients, ClientAgrees, At
<1>7. ASSUME NEW c \in Client, HelloLost(c) PROVE \A d \in Client : ClientAgrees(d)'
  BY <1>7, <1>0 DEF HelloLost, TryAgain, NewClient, Shapes, Clients, ClientAgrees, At
<1>8. ASSUME NEW c \in Client, Welcome(c) PROVE \A d \in Client : ClientAgrees(d)'
  BY <1>8, <1>0 DEF Welcome, Shapes, Clients, ClientAgrees, At
<1>9. ASSUME NEW c \in Client, Send(c) PROVE \A d \in Client : ClientAgrees(d)'
  BY <1>9, <1>0 DEF Send, Shapes, Clients, ClientAgrees, At
<1>10. ASSUME NEW c \in Client, SendLost(c) PROVE \A d \in Client : ClientAgrees(d)'
  BY <1>10, <1>0 DEF SendLost, Shapes, Clients, ClientAgrees, At
<1>11. ASSUME NEW c \in Client, Receive(c) PROVE \A d \in Client : ClientAgrees(d)'
  BY <1>11, <1>0 DEF Receive, Shapes, Clients, ClientAgrees, At
<1>12. ASSUME NEW c \in Client, Lost(c) PROVE \A d \in Client : ClientAgrees(d)'
  BY <1>12, <1>0 DEF Lost, Shapes, Clients, ClientAgrees, At
<1>13. ASSUME NEW c \in Client, Quit(c) PROVE \A d \in Client : ClientAgrees(d)'
  BY <1>13, <1>0 DEF Quit, NewClient, Shapes, Clients, ClientAgrees, At
<1>14. ASSUME NEW s \in Server, OpenStore(s) PROVE \A d \in Client : ClientAgrees(d)'
  BY <1>14, <1>0 DEF OpenStore, Says, Goto, NoServer, Shapes, Clients, ClientAgrees, At
<1>15. ASSUME NEW s \in Server, Busy(s) PROVE \A d \in Client : ClientAgrees(d)'
  BY <1>15, <1>0 DEF Busy, Answers, Queued, Says, NoServer, Shapes, Clients, ClientAgrees, At
<1>16. ASSUME NEW s \in Server, Bind(s) PROVE \A d \in Client : ClientAgrees(d)'
  BY <1>16, <1>0 DEF Bind, Says, Shapes, Clients, ClientAgrees, At
<1>17. ASSUME NEW s \in Server, Terminate(s) PROVE \A d \in Client : ClientAgrees(d)'
  BY <1>17, <1>0 DEF Terminate, Ends, Shapes, Clients, ClientAgrees, At
<1>18. ASSUME NEW s \in Server, Fenced(s) PROVE \A d \in Client : ClientAgrees(d)'
  BY <1>18, <1>0 DEF Fenced, Ends, Shapes, Clients, ClientAgrees, At
<1>19. ASSUME NEW s \in Server, Kill(s) PROVE \A d \in Client : ClientAgrees(d)'
  BY <1>19, <1>0 DEF Kill, NoServer, Says, Shapes, Clients, ClientAgrees, At
<1>20. ASSUME NEW s \in Server, NEW c \in Client, Apply(s,
    c) PROVE \A d \in Client : ClientAgrees(d)'
  BY <1>20, <1>0 DEF Apply, Shapes, Clients, ClientAgrees, At
<1>21. ASSUME NEW s \in Server, NEW c \in Client, Reply(s,
    c) PROVE \A d \in Client : ClientAgrees(d)'
  BY <1>21, <1>0 DEF Reply, Shapes, Clients, ClientAgrees, At
<1>22. CASE UNCHANGED cl
  BY <1>22, <1>0 DEF Shapes, Clients, ClientAgrees, At
<1> QED
  BY <1>1, <1>2, <1>3, <1>4, <1>5, <1>6, <1>7, <1>8, <1>9, <1>10, <1>11, <1>12, <1>13, <1>14,
     <1>15, <1>16, <1>17, <1>18, <1>19, <1>20, <1>21, <1>22
  DEF Next, ClientMoves, OwnerMoves, vars, Accept, Linger, Unlink, CloseListener, CloseStore,
      Hangup, TakenAway

\* Every step keeps what was applied of a request in flight.
LEMMA InFlightStep ==
  ASSUME Shapes, \A c \in Client : ClientAgrees(c) /\ InFlight(c), [Next]_vars
  PROVE  \A d \in Client : InFlight(d)'
<1>1. ASSUME NEW c \in Client, Reach(c) PROVE \A d \in Client : InFlight(d)'
  BY <1>1, ReachAssumption DEF Reach, Shapes, Clients, ClientAgrees, InFlight, At, Numbers
<1>2. ASSUME NEW c \in Client, Connect(c) PROVE \A d \in Client : InFlight(d)'
  BY <1>2, ReachAssumption DEF Connect, Queued, Answers, Shapes, Clients, ClientAgrees, InFlight,
     At, Numbers
<1>3. ASSUME NEW c \in Client, StartOwner(c) PROVE \A d \in Client : InFlight(d)'
  BY <1>3, ReachAssumption DEF StartOwner, NoServer, Shapes, Clients, ClientAgrees, InFlight, At,
     Numbers
<1>4. ASSUME NEW c \in Client, ReadLine(c) PROVE \A d \in Client : InFlight(d)'
  BY <1>4, ReachAssumption DEF ReadLine, NewClient, Shapes, Clients, ClientAgrees, InFlight, At,
     Numbers
<1>5. ASSUME NEW c \in Client, StartTimeout(c) PROVE \A d \in Client : InFlight(d)'
  BY <1>5, ReachAssumption DEF StartTimeout, NewClient, Shapes, Clients, ClientAgrees, InFlight,
     At, Numbers
<1>6. ASSUME NEW c \in Client, RetryTimeout(c) PROVE \A d \in Client : InFlight(d)'
  BY <1>6, ReachAssumption DEF RetryTimeout, TryAgain, NewClient, Shapes, Clients, ClientAgrees,
     InFlight, At, Numbers
<1>7. ASSUME NEW c \in Client, HelloLost(c) PROVE \A d \in Client : InFlight(d)'
  BY <1>7, ReachAssumption DEF HelloLost, TryAgain, NewClient, Shapes, Clients, ClientAgrees,
     InFlight, At, Numbers
<1>8. ASSUME NEW c \in Client, Welcome(c) PROVE \A d \in Client : InFlight(d)'
  BY <1>8, ReachAssumption DEF Welcome, Shapes, Clients, ClientAgrees, InFlight, At, Numbers
<1>9. ASSUME NEW c \in Client, Send(c) PROVE \A d \in Client : InFlight(d)'
  BY <1>9, ReachAssumption DEF Send, Shapes, Clients, ClientAgrees, InFlight, At, Numbers
<1>10. ASSUME NEW c \in Client, SendLost(c) PROVE \A d \in Client : InFlight(d)'
  <2>1. \A d \in Client : d # c => cl'[d] = cl[d] /\ told'[d] = told[d] /\ applied'[d] = applied[d]
    BY <1>10 DEF SendLost, Shapes
  <2>0. cl[c] \in Clients /\ cl[c].stage = "none" /\ applied' = applied
    BY <1>10 DEF SendLost, Shapes, ClientAgrees, At
  <2>2. /\ cl'[c].pc = "closed" /\ cl'[c].req = cl[c].req + 1 /\ cl'[c].stage = "none"
        /\ cl[c].req \in Nat /\ applied'[c] = applied[c]
    BY <1>10, <2>0 DEF SendLost, Shapes, Clients, Numbers
  <2>3. \A n \in 1 .. MaxReqs : n # cl[c].req + 1 => told'[c][n] = told[c][n]
    BY <1>10 DEF SendLost, Shapes
  <2> QED
    BY <2>1, <2>2, <2>3 DEF InFlight
<1>11. ASSUME NEW c \in Client, Receive(c) PROVE \A d \in Client : InFlight(d)'
  BY <1>11, ReachAssumption DEF Receive, Shapes, Clients, ClientAgrees, InFlight, At, Numbers
<1>12. ASSUME NEW c \in Client, Lost(c) PROVE \A d \in Client : InFlight(d)'
  BY <1>12, ReachAssumption DEF Lost, Shapes, Clients, ClientAgrees, InFlight, At, Numbers
<1>13. ASSUME NEW c \in Client, Quit(c) PROVE \A d \in Client : InFlight(d)'
  BY <1>13, ReachAssumption DEF Quit, NewClient, Shapes, Clients, ClientAgrees, InFlight, At,
     Numbers
<1>14. ASSUME NEW s \in Server, OpenStore(s) PROVE \A d \in Client : InFlight(d)'
  <2>1. cl' = cl \/ cl' = Says(s, "elsewhere")
    BY <1>14 DEF OpenStore
  <2>2. \A d \in Client : /\ cl'[d].pc = cl[d].pc /\ cl'[d].req = cl[d].req
                          /\ cl'[d].stage = cl[d].stage
    BY <2>1 DEF Says, Shapes, Clients
  <2> QED
    BY <1>14, <2>2 DEF OpenStore, InFlight
<1>15. ASSUME NEW s \in Server, Busy(s) PROVE \A d \in Client : InFlight(d)'
  BY <1>15, ReachAssumption DEF Busy, Answers, Queued, Says, NoServer, Shapes, Clients,
     ClientAgrees, InFlight, At, Numbers
<1>16. ASSUME NEW s \in Server, Bind(s) PROVE \A d \in Client : InFlight(d)'
  BY <1>16, ReachAssumption DEF Bind, Says, Shapes, Clients, ClientAgrees, InFlight, At, Numbers
<1>17. ASSUME NEW s \in Server, Terminate(s) PROVE \A d \in Client : InFlight(d)'
  BY <1>17, ReachAssumption DEF Terminate, Ends, Shapes, Clients, ClientAgrees, InFlight, At,
     Numbers
<1>18. ASSUME NEW s \in Server, Fenced(s) PROVE \A d \in Client : InFlight(d)'
  BY <1>18, ReachAssumption DEF Fenced, Ends, Shapes, Clients, ClientAgrees, InFlight, At, Numbers
<1>19. ASSUME NEW s \in Server, Kill(s) PROVE \A d \in Client : InFlight(d)'
  BY <1>19, ReachAssumption DEF Kill, NoServer, Says, Shapes, Clients, ClientAgrees, InFlight,
     At, Numbers
<1>20. ASSUME NEW s \in Server, NEW c \in Client, Apply(s, c) PROVE \A d \in Client : InFlight(d)'
  <2>1. \A d \in Client : d # c => cl'[d] = cl[d] /\ told'[d] = told[d] /\ applied'[d] = applied[d]
    BY <1>20 DEF Apply, Shapes
  <2>2. /\ cl'[c].pc = cl[c].pc /\ cl'[c].req = cl[c].req /\ cl'[c].stage = "applied"
        /\ cl[c].req \in 1 .. MaxReqs /\ applied[c][cl[c].req] = 0 /\ told' = told
    BY <1>20, ReachAssumption DEF Apply, Shapes, Clients, ClientAgrees, InFlight, Numbers
  <2>3. \A n \in 1 .. MaxReqs :
          applied'[c][n] = IF n = cl[c].req THEN 1 ELSE applied[c][n]
    <3>1. applied' = [applied EXCEPT ![c] = [applied[c] EXCEPT ![cl[c].req] = @ + 1]]
      BY <1>20 DEF Apply, Shapes
    <3>2. applied[c] \in [1 .. MaxReqs -> Nat] /\ applied'[c] = [applied[c] EXCEPT ![cl[c].req] = @ + 1]
      BY <1>20, <3>1 DEF Shapes
    <3> DEFINE S == 1 .. MaxReqs
               f == applied[c]
               k == cl[c].req
    <3>3. f \in [S -> Nat] /\ k \in S /\ f[k] = 0 /\ applied'[c] = [f EXCEPT ![k] = @ + 1]
      BY <2>2, <3>2
    <3> HIDE DEF S, f, k
    <3>4. \A n \in S : applied'[c][n] = IF n = k THEN 1 ELSE f[n]
      BY <3>3, CountedFirst
    <3> QED
      BY <3>4 DEF S, f, k
  <2> QED
    BY <2>1, <2>2, <2>3 DEF InFlight
<1>21. ASSUME NEW s \in Server, NEW c \in Client, Reply(s, c) PROVE \A d \in Client : InFlight(d)'
  BY <1>21, ReachAssumption DEF Reply, Shapes, Clients, ClientAgrees, InFlight, At, Numbers
<1>22. CASE UNCHANGED <<cl, applied, told>>
  BY <1>22, ReachAssumption DEF Shapes, Clients, ClientAgrees, InFlight, At, Numbers
<1> QED
  BY <1>1, <1>2, <1>3, <1>4, <1>5, <1>6, <1>7, <1>8, <1>9, <1>10, <1>11, <1>12, <1>13, <1>14,
     <1>15, <1>16, <1>17, <1>18, <1>19, <1>20, <1>21, <1>22
  DEF Next, ClientMoves, OwnerMoves, vars, Accept, Linger, Unlink, CloseListener, CloseStore,
      Hangup, TakenAway

\* Every step keeps the serving owner reachable: only the holder of the lock
\* binds, and only it unlinks.
LEMMA ReachableStep ==
  ASSUME Shapes, \A s \in Server : OwnerAgrees(s), Reachable, [Next]_vars
  PROVE  Reachable'
<1>1. ASSUME NEW c \in Client, Connect(c) PROVE Reachable'
  BY <1>1 DEF Connect, Queued, Answers, Reachable, OwnerAgrees, Shapes, Owners, Is, taken
<1>2. ASSUME NEW c \in Client, StartOwner(c) PROVE Reachable'
  BY <1>2 DEF StartOwner, NoServer, Reachable, OwnerAgrees, Shapes, Owners, Is, taken
<1>3. ASSUME NEW c \in Client, StartTimeout(c) PROVE Reachable'
  BY <1>3 DEF StartTimeout, Fault, Reachable, OwnerAgrees, Shapes, Owners, Is, taken
<1>4. ASSUME NEW c \in Client, RetryTimeout(c) PROVE Reachable'
  BY <1>4 DEF RetryTimeout, Fault, Reachable, OwnerAgrees, Shapes, Owners, Is, taken
<1>5. ASSUME NEW s \in Server, OpenStore(s) PROVE Reachable'
  BY <1>5 DEF OpenStore, Goto, NoServer, Reachable, OwnerAgrees, Shapes, Owners, Is, taken
<1>6. ASSUME NEW s \in Server, Busy(s) PROVE Reachable'
  BY <1>6 DEF Busy, Answers, Queued, NoServer, GivesWay, Fault, Reachable, OwnerAgrees, Shapes,
     Owners, Is, taken
<1>7. ASSUME NEW s \in Server, Bind(s) PROVE Reachable'
  BY <1>7 DEF Bind, Reachable, OwnerAgrees, Shapes, Owners, Is, taken
<1>8. ASSUME NEW s \in Server, Accept(s) PROVE Reachable'
  BY <1>8 DEF Accept, Reachable, OwnerAgrees, Shapes, Owners, Is, taken
<1>9. ASSUME NEW s \in Server, Linger(s) PROVE Reachable'
  BY <1>9 DEF Linger, Goto, Reachable, OwnerAgrees, Shapes, Owners, Is, taken
<1>10. ASSUME NEW s \in Server, Terminate(s) PROVE Reachable'
  BY <1>10 DEF Terminate, Ends, Fault, Reachable, OwnerAgrees, Shapes, Owners, Is, taken
<1>11. ASSUME NEW s \in Server, Fenced(s) PROVE Reachable'
  BY <1>11 DEF Fenced, Ends, Reachable, OwnerAgrees, Shapes, Owners, Is, taken
<1>12. ASSUME NEW s \in Server, Unlink(s) PROVE Reachable'
  BY <1>12 DEF Unlink, Goto, Reachable, OwnerAgrees, Shapes, Owners, Is, taken
<1>13. ASSUME NEW s \in Server, CloseListener(s) PROVE Reachable'
  BY <1>13 DEF CloseListener, Reachable, OwnerAgrees, Shapes, Owners, Is, taken
<1>14. ASSUME NEW s \in Server, CloseStore(s) PROVE Reachable'
  BY <1>14 DEF CloseStore, NoServer, Reachable, OwnerAgrees, Shapes, Owners, Is, taken
<1>15. ASSUME NEW s \in Server, Kill(s) PROVE Reachable'
  BY <1>15 DEF Kill, NoServer, Fault, Reachable, OwnerAgrees, Shapes, Owners, Is, taken
<1>16. ASSUME NEW s \in Server, NEW c \in Client \cup {None}, Hangup(s, c) PROVE Reachable'
  BY <1>16 DEF Hangup, Reachable, OwnerAgrees, Shapes, Owners, Is, taken
<1>17. ASSUME TakenAway PROVE Reachable'
  BY <1>17 DEF TakenAway, Fault, Reachable, OwnerAgrees, Shapes, Owners, Is, taken
<1>18. CASE UNCHANGED <<srv, name, faults>>
  BY <1>18 DEF Reachable, Is, taken
<1> QED
  BY <1>1, <1>2, <1>3, <1>4, <1>5, <1>6, <1>7, <1>8, <1>9, <1>10, <1>11, <1>12, <1>13, <1>14,
     <1>15, <1>16, <1>17, <1>18
  DEF Next, ClientMoves, OwnerMoves, vars, Reach, ReadLine, HelloLost, Welcome, Send, SendLost,
      Receive, Lost, Quit, Apply, Reply

\* Every step keeps a request applied at most once, and applied if answered:
\* only a request in flight is applied, and only one that was applied is
\* answered.
LEMMA AtMostOnceStep ==
  ASSUME Shapes, \A c \in Client : ClientAgrees(c) /\ InFlight(c), AtMostOnce, [Next]_vars
  PROVE  AtMostOnce'
<1>1. ASSUME NEW c \in Client, SendLost(c) PROVE AtMostOnce'
  BY <1>1, ReachAssumption DEF SendLost, AtMostOnce, ClientAgrees, InFlight, Shapes, Clients,
     Numbers, At
<1>2. ASSUME NEW c \in Client, Receive(c) PROVE AtMostOnce'
  BY <1>2, ReachAssumption DEF Receive, AtMostOnce, ClientAgrees, InFlight, Shapes, Clients,
     Numbers, At
<1>3. ASSUME NEW c \in Client, Lost(c) PROVE AtMostOnce'
  BY <1>3, ReachAssumption DEF Lost, AtMostOnce, ClientAgrees, InFlight, Shapes, Clients,
     Numbers, At
<1>4. ASSUME NEW s \in Server, NEW c \in Client, Apply(s, c) PROVE AtMostOnce'
  BY <1>4, ReachAssumption DEF Apply, AtMostOnce, ClientAgrees, InFlight, Shapes, Clients,
     Numbers, At
<1>5. CASE UNCHANGED <<applied, told>>
  BY <1>5 DEF AtMostOnce
<1> QED
  BY <1>1, <1>2, <1>3, <1>4, <1>5
  DEF Next, ClientMoves, OwnerMoves, vars, Reach, Connect, StartOwner, ReadLine, StartTimeout,
      RetryTimeout, HelloLost, Welcome, Send, Quit, OpenStore, Busy, Bind, Accept, Linger,
          Terminate, Ends, Fenced, Unlink, CloseListener, CloseStore, Kill, Hangup, Reply, TakenAway

---------------------------------------------------------------------------
(* The theorems.                                                           *)

\* The invariant holds at the start and is kept by every step.
LEMMA Invariance == Spec => []IInv
<1>1. Init => IInv
  <2> SUFFICES ASSUME Init PROVE IInv
    OBVIOUS
  <2>1. NoServer \in Owners
    BY Members DEF NoServer, Owners
  <2>2. NewClient \in Clients
    BY Members DEF NewClient, Clients
  <2>3. Shapes
    BY <2>1, <2>2 DEF Init, Shapes
  <2>4. \A s \in Server : OwnerAgrees(s)
    BY Gone, ReachAssumption DEF Init, OwnerAgrees
  <2>5. \A c \in Client : ClientAgrees(c) /\ InFlight(c)
    BY DEF Init, NewClient, ClientAgrees, InFlight
  <2>6. Reachable /\ AtMostOnce
    BY Gone DEF Init, Reachable, AtMostOnce, Is
  <2> QED
    BY <2>3, <2>4, <2>5, <2>6 DEF IInv
<1>2. IInv /\ [Next]_vars => IInv'
  <2> SUFFICES ASSUME IInv, [Next]_vars PROVE IInv'
    OBVIOUS
  <2>1. /\ Shapes /\ \A s \in Server : OwnerAgrees(s)
        /\ \A c \in Client : ClientAgrees(c) /\ InFlight(c)
        /\ Reachable /\ AtMostOnce
    BY DEF IInv
  <2>2. Shapes'
    BY <2>1, ShapesStep
  <2>3. \A s \in Server : OwnerAgrees(s)'
    BY <2>1, OwnerStep
  <2>4. \A c \in Client : ClientAgrees(c)' /\ InFlight(c)'
    BY <2>1, ClientStep, InFlightStep
  <2>5. Reachable' /\ AtMostOnce'
    BY <2>1, ReachableStep, AtMostOnceStep
  <2> QED
    BY <2>2, <2>3, <2>4, <2>5 DEF IInv
<1> QED
  BY <1>1, <1>2, PTL DEF Spec

\* Type correctness of the owner processes and the clients: who is past the
\* open of the store has its lock, and a client is connected only where it has
\* an end (gsql_owner_run, reach).
THEOREM TypeCorrect == Spec => []TypeOK
<1>1. IInv => TypeOK
  <2> SUFFICES ASSUME IInv PROVE TypeOK
    OBVIOUS
  <2>1. \A s \in Server : srv[s] \in Owners /\ OwnerAgrees(s)
    BY DEF IInv, Shapes
  <2>2. \A c \in Client : cl[c] \in Clients /\ ClientAgrees(c)
    BY DEF IInv, Shapes
  <2>3. name \in Server \cup {None, Elsewhere} /\ faults \subseteq {"kill", "term", "late", "taken"}
    BY DEF IInv, Shapes
  <2>4. ASSUME NEW s \in Server
        PROVE  /\ srv[s].pc \in ServerPcs
               /\ srv[s].queue \cup srv[s].conns \subseteq Client \cup {None}
               /\ srv[s].served \in BOOLEAN /\ srv[s].starter \in Client \cup {None}
    BY <2>1 DEF Owners
  <2>5. ASSUME NEW c \in Client
        PROVE  /\ cl[c].pc \in ClientPcs
               /\ cl[c].fd \in Server \cup {None} /\ cl[c].owner \in Server \cup {None}
               /\ cl[c].attempt \in Tries /\ cl[c].req \in Numbers
    BY <2>2 DEF Clients
  <2> QED
    BY <2>1, <2>2, <2>3, <2>4, <2>5
    DEF TypeOK, OwnerAgrees, ClientAgrees, ServerPcs, ClientPcs, Tries, Numbers
<1> QED
  BY <1>1, Invariance, PTL

\* However owners start, race, linger, are stopped and die, the name leads to
\* the owner that serves (listen_on; unlink, close and the release of the lock
\* at the end of gsql_owner_run).
THEOREM ServingIsReachable == Spec => []Reachable
<1>1. IInv => Reachable
  BY DEF IInv
<1> QED
  BY <1>1, Invariance, PTL

\* However often owners die and clients reconnect, no request is applied twice,
\* and one that was answered was applied (gsql_client_send, lost).
THEOREM AppliedAtMostOnce == Spec => []AtMostOnce
<1>1. IInv => AtMostOnce
  BY DEF IInv
<1> QED
  BY <1>1, Invariance, PTL
=============================================================================
