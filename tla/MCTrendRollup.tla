--------------------------- MODULE MCTrendRollup ---------------------------
(***************************************************************************)
(* Instances of TrendRollup for TLC.                                       *)
(***************************************************************************)
EXTENDS TrendRollup, TLC

CONSTANTS host, node

\* Two hosts of one cohort, and one node of another.
TwoCohorts == <<host, node>>
TwoHosts   == 1 :> host @@ 2 :> host @@ 3 :> node

\* The two hosts are not explored in both orders, and the node logs in one bucket.
FewOrders ==
  /\ (\E r \in raw : r[2] = 2) => \E r \in raw : r[2] = 1
  /\ \A r \in raw : r[2] = 3 => r[1] = Started

Symmetry == Permutations(Copy)
=============================================================================
