----------------------------- MODULE MCRouteTrie -----------------------------
(* Instances of RouteTrie for TLC.                                         *)
EXTENDS RouteTrie, FiniteSetsExt

(* Networks written with all bits after the prefix zero.                   *)
Canonical == {r \in Route : \A j \in r.size + 1 .. Width : r.address[j] = 0}

(* Every table of at most three networks.                                  *)
SmallTables == UNION {kSubset(k, Canonical) : k \in 0 .. 3}
=============================================================================
