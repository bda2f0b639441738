----------------------------- MODULE MCStamper -----------------------------
(* Instances of Stamper for TLC. *)
EXTENDS StamperLedger

CONSTANTS c1, c2, p1, p2, k1

Rec(l, b, p, y) ==
  [cluster |-> k1, level |-> l, bucket |-> b, program |-> p, counted |-> y]

\* Two buckets of one hour, one template.
TwoBuckets ==
  [c \in {c1, c2} |-> Rec(1, IF c = c1 THEN 0 ELSE 1, p1, TRUE)]

\* Two records of one bucket; the second widens the cluster of the first.
OneBucket ==
  [c \in {c1, c2} |-> IF c = c1 THEN Rec(1, 0, p1, TRUE) ELSE Rec(2, 0, p2, TRUE)]

\* The widened template no longer fits the definition index.
Widened == {<<k1, 2>>}

Single == [c \in {c1} |-> Rec(1, 0, p1, TRUE)]

=============================================================================
