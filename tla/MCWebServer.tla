----------------------------- MODULE MCWebServer -----------------------------
(* Instances of WebServer for TLC. *)
EXTENDS WebServer

CONSTANTS c1, c2

\* A program with watchers, timers and a drain hook, and one whose native
\* handler is all it has.
Watching == [native |-> FALSE, aux |-> TRUE, hook |-> TRUE]
Handling == [native |-> TRUE, aux |-> FALSE, hook |-> FALSE]
Both  == {Watching, Handling}

\* A program that answers through the queue, and nothing else.
Plain == {[native |-> FALSE, aux |-> FALSE, hook |-> FALSE]}

\* One peer closes its side, the other resets its connection; or all reset.
EachItsWay == {<<c1, "fin">>, <<c2, "reset">>}
AllReset   == Conn \X {"reset"}
=============================================================================
