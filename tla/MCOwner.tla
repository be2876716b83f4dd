------------------------------ MODULE MCOwner ------------------------------
(* Instances of the owner for TLC: what the clients send after HELLO, and  *)
(* how many requests in all.                                               *)
EXTENDS Owner

CONSTANTS c1, c2

\* One client that sends anything, read ahead of its answers; a CANCEL that
\* hits nothing is answered as a PING is.
AnySends == [c \in {c1} |-> Kinds \ {"ping"}]

AnyReqs == [c \in {c1} |-> 5]

\* A client with a write transaction, and one that writes, reads and cancels.
RaceSends == [c \in {c1, c2} |->
    IF c = c1 THEN {"begin_write", "commit"} ELSE {"write", "read", "cancel"}]

RaceReqs == [c \in {c1, c2} |-> 3]

\* Two clients that wait for each other's write transaction.
TurnSends == [c \in {c1, c2} |-> {"begin_write", "commit"}]

TurnReqs == [c \in {c1, c2} |-> IF c = c1 THEN 3 ELSE 2]

\* A client that reads inside its write transaction, and one that writes.
ReadSends == [c \in {c1, c2} |->
    IF c = c1 THEN {"begin_write", "write", "read"} ELSE {"write"}]

ReadReqs == [c \in {c1, c2} |-> IF c = c1 THEN 4 ELSE 2]
=============================================================================
