------------------------------ MODULE MCMcHash ------------------------------
(***************************************************************************)
(* A small instance of McHash: three nodes, two slots and two buckets.      *)
(***************************************************************************)
EXTENDS McHash

CONSTANTS n1, n2, n3, b0, b1

\* Nodes are interchangeable, so it is enough that they come in one order; two go
\* to the first bucket, and the third, which reuses a slot, to the other.
Earlier == [n \in Node |-> IF n = n1 THEN {} ELSE IF n = n2 THEN {n1} ELSE {n1, n2}]
Goes    == [n \in Node |-> IF n = n3 THEN b1 ELSE b0]

NodesInOrder ==
  \A n \in Node :
    /\ life[n] # "new" => \A m \in Earlier[n] : life[m] # "new"
    /\ life[n] = "slot" => home[n] = Goes[n]
=============================================================================
