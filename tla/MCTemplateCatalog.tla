-------------------------- MODULE MCTemplateCatalog --------------------------
(***************************************************************************)
(* Instances of TemplateCatalog for TLC.                                   *)
(***************************************************************************)
EXTENDS TemplateCatalog, TLC

Symmetry == Permutations(Node)

\* Bound: no record but a late one is counted from LastCount on, and only from
\* FirstPublish on and before LastPublish a publication or a refresh is followed to its
\* end.
CONSTANTS LastCount, FirstPublish, LastPublish

\* Nothing reads a failed check, and nothing reads a view but the refresh that finds no
\* watermark and keeps it: what comes after one is not followed together with
\* publications and refreshes, which are the same without it.  A refresh of the first
\* hour has an empty window.
Followed ==
  /\ \A r \in counted : when[r] < LastCount
  /\ now \notin FirstPublish .. LastPublish - 1 \/ view # NoView =>
       build = None /\ \A n \in Node : pub[n] = None
  /\ failed = {}
  /\ now < Span => attempt = Never
=============================================================================
