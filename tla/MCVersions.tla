----------------------------- MODULE MCVersions -----------------------------
(***************************************************************************)
(* Instances of Versions: the catalog's key, a tree that can be dropped   *)
(* with key 1, and a tree with keys 2 and 3.                               *)
(***************************************************************************)
EXTENDS Versions

Trees == [k \in 0 .. MaxKey |-> CASE k = 0 -> 0 [] k = 1 -> 1 [] OTHER -> 2]

\* A transaction that spilled: one run puts keys 1 and 3, whose range spans
\* key 2, and the next deletes key 2.
Around2 == <<[k \in {1, 3} |-> FALSE], [k \in {2} |-> TRUE]>>

\* Another deletes the catalog's entry besides, which drops a tree or both.
Drops == <<[k \in {1, 3} |-> FALSE], [k \in {0, 2} |-> TRUE]>>

Both == {Around2, Drops}

\* One tree with every key.
OneTree == [k \in 0 .. MaxKey |-> IF k = 0 THEN 0 ELSE 1]

NoSpill == {}
=============================================================================
