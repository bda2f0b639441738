------------------------- MODULE MCSignalProjector -------------------------
(***************************************************************************)
(* Instances of SignalProjector for TLC.                                   *)
(***************************************************************************)
EXTENDS SignalProjector, TLC

CONSTANTS a1, a2, a3, m1, m2, d2

\* Two alerts of one monitor and one of another; a1 is raised before a2.
SplitOwners == a1 :> m1 @@ a2 :> m1 @@ a3 :> m2

\* Alerts and results never share a key, and a cycle folds them one after the
\* other: an instance explores one kind or the other.
OneKindOfSource == {[alerts |-> 3, results |-> 0], [alerts |-> 0, results |-> 4]}

\* Alerts are raised in the order a3, a1, a2, so the two of m1 are not explored
\* in both orders; a3 is there from the beginning and clears at 2.  d2 has one
\* result at most, a breach in window 1, beside two of d1.  The results of d1 begin
\* with a breach (what comes before it belongs to no episode) and skip no window;
\* one at most is late, one at most unclear.
FewOrders ==
  /\ alert[a3].start <= 0 /\ alert[a3].end \in {Never, 2}
  /\ alert[a1].at # "none" => alert[a3].at # "none"
  /\ alert[a2].at # "none" => alert[a1].at # "none"
  /\ \A r \in results : r.key = d2 =>
       /\ r.grade = "breach" /\ r.window = 1 /\ r.exec = 1
       /\ Cardinality(results) <= 3
  /\ LET ofD1 == {r \in results : r.key # d2}
     IN \A r \in ofD1 :
          /\ r.grade = "breach" \/ \E s \in ofD1 : s.window = r.window - 1
          /\ \A s \in ofD1 : \A t \in r.window .. s.window :
               \E u \in ofD1 : u.window = t
  /\ Cardinality({r \in results : r.exec # r.window}) <= 1
  /\ Cardinality({r \in results : r.grade = "unclear"}) <= 1

\* Of two failures one is a cycle without names, over clear results of d1.
FewFailures ==
  failures > 1 => unnamed # {} /\ \A r \in results : r.key # d2 /\ r.grade # "unclear"
=============================================================================
