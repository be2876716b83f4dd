---------------------------- MODULE DurableStore ----------------------------
(***************************************************************************)
(* What the storage engine promises (docs/gsql_storage_design.md 1.3 and  *)
(* the oracle of 5.3): its content is the effect of a sequence of commits;*)
(* a commit is first made and then, alone or with others, made durable;   *)
(* and a crash leaves a prefix of the commits that has every durable one. *)
(***************************************************************************)
EXTENDS Naturals, Sequences

CONSTANT Txns   \* the transactions a client may commit

VARIABLES
    hist,      \* the commits, oldest first
    durable    \* how many of them are durable, and so visible to a new snapshot

Init == hist = <<>> /\ durable = 0

Commit ==
    \E t \in Txns :
        /\ \A i \in DOMAIN hist : hist[i] # t
        /\ hist' = Append(hist, t)
        /\ UNCHANGED durable

Harden ==
    /\ durable' \in durable + 1 .. Len(hist)
    /\ UNCHANGED hist

\* The engine goes down, by a crash or by closing, and what survives is durable.
Crash ==
    \E p \in durable .. Len(hist) :
        /\ hist' = SubSeq(hist, 1, p)
        /\ durable' = p

Next == Commit \/ Harden \/ Crash

Spec == Init /\ [][Next]_<<hist, durable>>
=============================================================================
