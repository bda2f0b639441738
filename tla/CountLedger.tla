---------------------------- MODULE CountLedger ----------------------------
(***************************************************************************)
(* What alice-stamper promises about counts, without sockets, locks, files *)
(* and restarts: a record is counted before its chunk is acknowledged, a   *)
(* count goes away only when its bucket expires, or in a crash before the  *)
(* first checkpoint of the process, and a document in OpenSearch only ever *)
(* shows counts that were there when its publication was put together.     *)
(***************************************************************************)
EXTENDS Integers

CONSTANTS
  Chunk,
  Key,      \* buckets
  Horizon   \* how long a bucket is held

VARIABLES
  now,
  done,     \* chunks whose record is counted, or has nothing to count
  acked,    \* chunks the sender has dropped
  held,     \* counts in buckets that have not expired
  fragile,  \* counts a crash may still lose
  taken,    \* counts a publication on its way is made of
  shown     \* per bucket, what its document in OpenSearch counts

vars == <<now, done, acked, held, fragile, taken, shown>>

Fresh(entries, t) == {e \in entries : e.delta.key.start + 1 > t - Horizon}

Init ==
  /\ now = 0 /\ done = {} /\ acked = {}
  /\ held = {} /\ fragile = {} /\ taken = {}
  /\ shown = [k \in Key |-> {}]

\* At most one count, of a chunk that can still be sent.
Count(c) ==
  /\ c \notin acked
  /\ done' = done \cup {c}
  /\ held \subseteq held' /\ \A e, f \in held' \ held : e = f
  /\ \A e \in held' \ held : e.delta.chunk = c
  /\ fragile' \in {fragile, fragile \cup (held' \ held)}
  /\ UNCHANGED <<now, acked, taken, shown>>

Acknowledge(c) ==
  /\ c \in done
  /\ acked' = acked \cup {c}
  /\ UNCHANGED <<now, done, held, fragile, taken, shown>>

Settle ==
  /\ fragile' = {}
  /\ UNCHANGED <<now, done, acked, held, taken, shown>>

Lose ==
  /\ held \ fragile \subseteq held' /\ held' \subseteq held
  /\ fragile' = {} /\ taken' = {}
  /\ UNCHANGED <<now, done, acked, shown>>

Pass ==
  /\ now' = now + 1
  /\ held' = Fresh(held, now') /\ fragile' = Fresh(fragile, now')
  /\ UNCHANGED <<done, acked, taken, shown>>

Take ==
  /\ taken' \subseteq held
  /\ UNCHANGED <<now, done, acked, held, fragile, shown>>

\* Some documents are overwritten, whole; the others stay.
Show ==
  /\ \A k \in Key : shown'[k] \in {shown[k], {e \in taken : e.delta.key = k}}
  /\ taken' = {}
  /\ UNCHANGED <<now, done, acked, held, fragile>>

Next ==
  \/ \E c \in Chunk : Count(c) \/ Acknowledge(c)
  \/ Settle \/ Lose \/ Pass \/ Take \/ Show

Spec == Init /\ [][Next]_vars
=============================================================================
