---------------------------- MODULE TrendRollup ----------------------------
(***************************************************************************)
(* alice-trend-rollup: every pass rolls the last closed bucket and the     *)
(* ones before it again.  An attempt at a bucket collects one cohort after *)
(* the other from the log indices, adds a zero row for every entity that   *)
(* logged lately and is silent now, and then writes the rows, the metadata *)
(* and the commit, with a refresh of the index before the commit.          *)
(*                                                                         *)
(* Nothing of this is atomic: records of a bucket go on arriving while it  *)
(* is rolled, any request may fail after part of it took effect, a copy of *)
(* the index becomes searchable when it is refreshed and not before, and   *)
(* the process may end anywhere.                                           *)
(*                                                                         *)
(* Abstractions.  The clock counts buckets and runs SETTLE_SECONDS, which  *)
(* are less than a bucket, behind.  Lags, percentiles and error counts go  *)
(* the way of the counts.  A page of the composite aggregation holds one   *)
(* entity.                                                                 *)
(***************************************************************************)
EXTENDS Integers, FiniteSets, Sequences

CONSTANTS
  Combos,        \* COMBOS: the cohorts, in the order they are collected
  Entity,        \* entities, numbered in the order of their names
  CohortOf,      \* the cohort of each
  Copy,          \* copies of the trend-rollup index
  Backfill,      \* BACKFILL_BUCKETS
  Memory,        \* SILENCE_MEMORY_SECONDS, in buckets
  Retention,     \* RETENTION_DAYS, in buckets
  MaxEntities,   \* MAX_ENTITIES
  Lateness,      \* a record is searchable at most this many buckets late
  Started,       \* the clock when the service is first started
  MaxTime,       \* bound: last bucket
  MaxRecords,    \* bound: records ever logged
  MaxFailures,   \* bound: requests that fail, ends of the process, resets
  None

Bucket == 0 .. MaxTime
Cohort == {Combos[i] : i \in DOMAIN Combos}
Count  == 0 .. MaxRecords
Row    == Count \cup {None}
Counts == [Entity -> Row]
CommitOf == [complete : BOOLEAN, counts : Counts, floor : [Entity -> Count]]
Index  == [rows : [Bucket -> Counts],
           metas : [Bucket -> Counts],    \* what the metadata of its cohort counts of an entity
           commits : [Bucket -> {None} \cup CommitOf]]

ASSUME InputsAssumption ==
  /\ Combos \in Seq(Cohort) /\ Len(Combos) > 0
  /\ Entity \subseteq Nat /\ IsFiniteSet(Entity) /\ CohortOf \in [Entity -> Cohort]
  /\ None \notin Int \cup CommitOf
ASSUME BoundsAssumption ==
  /\ Backfill \in Nat \ {0} /\ Memory \in Nat /\ Retention \in Nat
  /\ Backfill + Memory + 2 <= Retention
  /\ MaxEntities \in Nat /\ Lateness \in Nat
  /\ MaxTime \in Nat /\ Started \in Bucket /\ MaxRecords \in Nat /\ MaxFailures \in Nat

VARIABLES
  now,       \* the bucket that is not yet settled
  raw,       \* records in the log indices, per bucket and entity
  stored,    \* trend-rollup: rows, metadata and commits
  visible,   \* what a search on each copy finds
  \* the process
  pc,
  todo,      \* buckets this pass has still to roll
  bucket,    \* the bucket of this attempt
  left,      \* cohorts this attempt has still to collect
  found,     \* the rows collected so far
  whole,     \* no cohort was truncated so far
  \* bounds and history
  failures,
  floor,     \* raw as this attempt began
  window,    \* the last buckets that had ended as the last pass began
  sound,     \* this attempt read whole answers, and no reset came between
  clean,     \* nothing failed in the last pass, and no copy was behind as it began
  doubt,     \* buckets a cut or capped answer or a reset has touched
  behind,    \* copies the last refresh of the index left out
  cut        \* the buckets and cohorts whose roster was cut in the last pass

index   == <<stored, visible>>
attempt == <<bucket, left, found, whole, floor, sound>>
history == <<window, clean, doubt, behind, cut>>
vars    == <<now, raw, index, pc, todo, attempt, failures, history>>

Nothing  == [e \in Entity |-> 0]
NoRows   == [e \in Entity |-> None]
Empty    == [rows    |-> [b \in Bucket |-> NoRows],
             metas   |-> [b \in Bucket |-> NoRows],
             commits |-> [b \in Bucket |-> None]]

Fails == failures < MaxFailures /\ failures' = failures + 1

\* The records of a bucket that are searchable.
Logged(records, b, e) == Cardinality({r \in records : r[1] = b /\ r[2] = e})

\* The documents of the buckets S that are found are deleted.
Without(docs, seen, S) ==
  [rows    |-> [b \in Bucket |-> [e \in Entity |->
                  IF b \in S /\ seen.rows[b][e] # None THEN None ELSE docs.rows[b][e]]],
   metas   |-> [b \in Bucket |-> [e \in Entity |->
                  IF b \in S /\ seen.metas[b][e] # None THEN None ELSE docs.metas[b][e]]],
   commits |-> [b \in Bucket |->
                  IF b \in S /\ seen.commits[b] # None THEN None ELSE docs.commits[b]]]

AtLeast(row, n) == n \in {None, 0} \/ (row # None /\ row >= n)

\* The first n of a set of entities.
First(n, S) == {e \in S : Cardinality({d \in S : d < e}) < n}

-----------------------------------------------------------------------------
(***************************************************************************)
(* The collectors, OpenSearch and the operator.  Records and time matter   *)
(* to what an attempt reads: what arrives beside a write arrives as well   *)
(* after it.                                                               *)
(***************************************************************************)
Reads == pc \in {"idle", "next", "collect"}

Tick ==
  /\ Reads /\ now < MaxTime /\ now' = now + 1
  /\ UNCHANGED <<raw, index, pc, todo, attempt, failures, history>>

\* A record of the bucket that ends or of one that has ended arrives.
Log(b, e) ==
  /\ Reads /\ b <= now /\ now - b <= Lateness
  /\ Cardinality(raw) < MaxRecords
  /\ raw' = raw \cup {<<b, e, Logged(raw, b, e) + 1>>}
  /\ UNCHANGED <<now, index, pc, todo, attempt, failures, history>>

\* The refresh_interval of the index passes, on one copy.
Refresh(c) ==
  /\ visible[c] # stored
  /\ visible' = [visible EXCEPT ![c] = stored] /\ behind' = behind \ {c}
  /\ UNCHANGED <<now, raw, stored, pc, todo, attempt, failures, window, clean, doubt, cut>>

\* reset_derived purges the index while the service goes on: what a search on one
\* copy finds is deleted, and the index is refreshed.
Purge(c) ==
  /\ Fails
  /\ stored' = Without(stored, visible[c], Bucket)
  /\ visible' = [d \in Copy |-> stored'] /\ behind' = {}
  /\ sound' = (pc \in {"idle", "next"}) /\ clean' = FALSE /\ doubt' = Bucket
  /\ UNCHANGED <<now, raw, pc, todo, bucket, left, found, whole, floor, window, cut>>

-----------------------------------------------------------------------------
(***************************************************************************)
(* A pass.                                                                 *)
(***************************************************************************)
\* Rolling again only the newest bucket (mutant); all that are still due.
NewestOnly(t) == {b \in Bucket : b = t - 1}
Due(t)        == {b \in Bucket : t - Backfill <= b /\ b < t}

\* The oldest bucket is rolled first.  (mutant: the newest)
Newest(S) == CHOOSE b \in S : \A a \in S : a <= b
Oldest(S) == CHOOSE b \in S : \A a \in S : b <= a

\* What an attempt knew is forgotten when it ends.  (mutant: all but its rows)
ForgetAllButRows ==
  /\ bucket' = 0 /\ left' = <<>> /\ UNCHANGED found /\ whole' = TRUE
  /\ floor' = Nothing /\ sound' = TRUE
Forget ==
  /\ bucket' = 0 /\ left' = <<>> /\ found' = NoRows /\ whole' = TRUE
  /\ floor' = Nothing /\ sound' = TRUE

BeginPass ==
  /\ pc = "idle"
  /\ pc' = "next" /\ todo' = Due(now) /\ clean' = (behind = {}) /\ cut' = {}
  /\ window' = {b \in Bucket : now - Backfill <= b /\ b < now}
  /\ UNCHANGED <<now, raw, index, attempt, failures, doubt, behind>>

\* What began more than RETENTION_DAYS ago.  The wall clock is up to a bucket and
\* SETTLE_SECONDS ahead of now, so the bucket after now - Retention may be gone too.
Pruned == {b \in Bucket : b <= now - Retention + 1}

\* prune, once an hour: a delete that stops half-way leaves some, and one that
\* raises leaves all.
Prune ==
  /\ pc = "next" /\ todo = Due(now)
  /\ \E c \in Copy, gone \in SUBSET Pruned \ {{}} :
       stored' = Without(stored, visible[c], gone)
  /\ UNCHANGED <<now, raw, visible, pc, todo, attempt, failures, history>>

BeginAttempt ==
  /\ pc = "next" /\ todo # {}
  /\ bucket' = Oldest(todo) /\ todo' = todo \ {bucket'}
  /\ pc' = "collect" /\ left' = Combos /\ found' = NoRows /\ whole' = TRUE
  /\ floor' = [e \in Entity |-> Logged(raw, bucket', e)] /\ sound' = TRUE
  /\ UNCHANGED <<now, raw, index, failures, history>>

EndPass ==
  /\ pc = "next" /\ todo = {}
  /\ pc' = "idle"
  /\ UNCHANGED <<now, raw, index, todo, attempt, failures, history>>

-----------------------------------------------------------------------------
(***************************************************************************)
(* An attempt at a bucket.                                                 *)
(***************************************************************************)
\* The entities of the cohort that is next.
Asked == {e \in Entity : CohortOf[e] = Head(left)}

\* Who logged within the memory, in what one copy finds.
Recent(c) ==
  {e \in Asked :
     \E b \in bucket - Memory .. bucket - 1 :
       b \in Bucket /\ visible[c].rows[b][e] \notin {None, 0}}

\* recent_entities: no more than MAX_ENTITIES of them, and no word of the others.
Crowded(c) == Cardinality(Recent(c)) > MaxEntities
Rosters(c) == IF Crowded(c) THEN {S \in SUBSET Recent(c) : Cardinality(S) = MaxEntities}
              ELSE {Recent(c)}

\* collect and impute_silent of one cohort.  A search that leaves out the shards it
\* could not reach is answered 200 all the same; without a roster there are no zeros.
Truncated(present) == present # {} /\ Cardinality(present) >= MaxEntities

Collect(unseen, roster) ==
  LET present == {e \in Asked : Logged(raw, bucket, e) > 0} \ unseen
      kept    == IF present = {} THEN {} ELSE First(MaxEntities, present)
      absent  == IF kept = {} THEN {} ELSE roster \ kept
      room    == MaxEntities - Cardinality(kept)
  IN /\ pc' = (IF Tail(left) = <<>> THEN "rows" ELSE "collect") /\ left' = Tail(left)
     /\ found' = [e \in Entity |->
                    IF e \in kept THEN Logged(raw, bucket, e)
                    ELSE IF e \in First(room, absent) THEN 0
                    ELSE found[e]]
     /\ whole' = (whole /\ ~Truncated(present) /\ Cardinality(absent) <= room)

CollectCohort ==
  /\ pc = "collect"
  /\ \E c \in Copy :
       /\ \E roster \in Rosters(c) : Collect({}, roster)
       /\ cut' = IF Crowded(c) THEN cut \cup {<<bucket, Head(left)>>} ELSE cut
  /\ UNCHANGED <<now, raw, index, todo, bucket, failures, floor, window, sound, clean, doubt,
                 behind>>

CollectPart ==
  /\ pc = "collect"
  /\ Fails
  /\ \/ /\ \E c \in Copy, unseen \in SUBSET Asked \ {{}} :
             \E roster \in Rosters(c) : Collect(unseen, roster)
        /\ sound' = FALSE
     \/ Collect({}, {}) /\ UNCHANGED sound
  /\ clean' = FALSE
  /\ UNCHANGED <<now, raw, index, todo, bucket, floor, window, doubt, behind, cut>>

\* The rows of S, over what is there; the metadata of the cohorts C, which says nothing
\* of an entity that was not found this time.
RowsWith(S)  == [stored EXCEPT !.rows[bucket] =
                   [e \in Entity |-> IF e \in S /\ found[e] # None THEN found[e] ELSE @[e]]]
MetasWith(C) == [stored EXCEPT !.metas[bucket] =
                   [e \in Entity |-> IF CohortOf[e] \in C THEN found[e] ELSE @[e]]]
Commit       == [stored EXCEPT !.commits[bucket] =
                   [complete |-> whole, counts |-> found,
                    floor |-> [e \in Entity |-> IF sound THEN floor[e] ELSE 0]]]

\* What a bad answer wrote is in doubt until a sound and whole attempt has committed.
Doubted(good) == IF good THEN doubt ELSE doubt \cup {bucket}

WriteRows ==
  /\ pc = "rows" /\ pc' = "metas"
  /\ stored' = RowsWith(Entity) /\ doubt' = Doubted(sound)
  /\ UNCHANGED <<now, raw, visible, todo, attempt, failures, window, clean, behind, cut>>

WriteMetas ==
  /\ pc = "metas" /\ pc' = "refresh"
  /\ stored' = MetasWith(Cohort) /\ doubt' = Doubted(sound /\ whole)
  /\ UNCHANGED <<now, raw, visible, todo, attempt, failures, window, clean, behind, cut>>

\* refresh_rollup: every copy.  (mutant: it is left to the refresh_interval)
NotRefreshed == visible
Refreshed    == [c \in Copy |-> stored]

RefreshRollup ==
  /\ pc = "refresh" /\ pc' = "commit"
  /\ visible' = Refreshed /\ behind' = {}
  /\ UNCHANGED <<now, raw, stored, todo, attempt, failures, window, clean, doubt, cut>>

\* A refresh that fails on some copies is answered 200 as well.
RefreshPart ==
  /\ pc = "refresh" /\ pc' = "commit"
  /\ Fails
  /\ \E missed \in SUBSET {c \in Copy : visible[c] # stored} \ {{}} :
       /\ visible' = [c \in Copy |-> IF c \in missed THEN visible[c] ELSE stored]
       /\ behind' = missed
  /\ clean' = FALSE
  /\ UNCHANGED <<now, raw, stored, todo, attempt, window, doubt, cut>>

WriteCommit ==
  /\ pc = "commit" /\ pc' = "next" /\ Forget
  /\ stored' = Commit
  /\ doubt' = IF sound /\ whole THEN doubt \ {bucket} ELSE doubt
  /\ clean' = (clean /\ whole)
  /\ UNCHANGED <<now, raw, visible, todo, failures, window, behind, cut>>

\* A request of the attempt fails, and what it wrote stays; the next bucket is
\* tried all the same.
AttemptFails ==
  /\ Fails /\ pc' = "next" /\ Forget /\ clean' = FALSE
  /\ \/ pc \in {"collect", "refresh"} /\ UNCHANGED <<stored, doubt>>
     \/ /\ pc = "rows" /\ doubt' = Doubted(sound)
        /\ \E S \in SUBSET Entity : stored' = RowsWith(S)
     \/ /\ pc = "metas" /\ doubt' = Doubted(sound /\ whole)
        /\ \E C \in SUBSET Cohort : stored' = MetasWith(C)
     \/ /\ pc = "commit" /\ UNCHANGED doubt
        /\ stored' \in {stored, Commit}
  /\ UNCHANGED <<now, raw, visible, todo, window, behind, cut>>

\* The process ends and systemd starts it again.
Restart ==
  /\ pc # "idle" /\ Fails
  /\ pc' = "idle" /\ todo' = {} /\ Forget /\ clean' = FALSE
  /\ UNCHANGED <<now, raw, index, window, doubt, behind, cut>>

-----------------------------------------------------------------------------
Init ==
  /\ now = Started /\ raw = {} /\ stored = Empty /\ visible = [c \in Copy |-> Empty]
  /\ pc = "idle" /\ todo = {} /\ bucket = 0 /\ left = <<>> /\ found = NoRows /\ whole = TRUE
  /\ floor = Nothing /\ sound = TRUE
  /\ failures = 0 /\ window = {} /\ clean = FALSE /\ doubt = {}
  /\ behind = {} /\ cut = {}

Environment ==
  \/ Tick
  \/ \E b \in Bucket, e \in Entity : Log(b, e)
  \/ \E c \in Copy : Refresh(c) \/ Purge(c)

Pass ==
  \/ BeginPass \/ BeginAttempt \/ CollectCohort
  \/ WriteRows \/ WriteMetas \/ RefreshRollup \/ WriteCommit \/ EndPass

Next ==
  Environment \/ Pass \/ Prune \/ CollectPart \/ RefreshPart \/ AttemptFails \/ Restart

Spec == Init /\ [][Next]_vars

-----------------------------------------------------------------------------
TypeOK ==
  /\ now \in Bucket /\ raw \subseteq Bucket \X Entity \X Count
  /\ stored \in Index /\ visible \in [Copy -> Index]
  /\ pc \in {"idle", "next", "collect", "rows", "metas", "refresh", "commit"}
  /\ left \in Seq(Cohort) /\ (pc = "collect" => left # <<>>)
  /\ todo \subseteq Bucket /\ bucket \in Bucket /\ found \in [Entity -> Row]
  /\ whole \in BOOLEAN /\ (pc \in {"idle", "next"} => found = NoRows)
  /\ failures \in 0 .. MaxFailures /\ floor \in [Entity -> Count]
  /\ window \subseteq Bucket
  /\ sound \in BOOLEAN /\ clean \in BOOLEAN /\ doubt \subseteq Bucket
  /\ behind \subseteq Copy /\ cut \subseteq Bucket \X Cohort

\* A commit that says complete on one copy is backed on every copy the last refresh
\* has reached: each entity has a row and a place in its cohort's metadata that counts
\* at least what the commit does, and that is all there was when the attempt began.
\* (roll_bucket: the order of its writes, the refresh, and attempts that fail over an
\* older commit.)
CompleteCommitIsBacked ==
  \A c \in Copy, d \in Copy \ behind, b \in Bucket \ (doubt \cup Pruned) :
    LET commit == visible[c].commits[b] IN
    commit # None /\ commit.complete =>
      \A e \in Entity :
        /\ AtLeast(commit.counts[e], commit.floor[e])
        /\ AtLeast(visible[d].rows[b][e], commit.counts[e])
        /\ AtLeast(visible[d].metas[b][e], commit.counts[e])

\* After a pass nothing went wrong in, an entity that a bucket of its memory counts
\* has a row in every bucket rolled in which its cohort logged at all, unless the
\* roster of the cohort was cut: a host that went silent is seen, also when its last
\* records came late.
SilentHostIsSeen ==
  pc = "idle" /\ clean =>
    \A b \in window, e \in Entity :
      /\ <<b, CohortOf[e]>> \notin cut
      /\ \E d \in Entity : CohortOf[d] = CohortOf[e] /\ stored.rows[b][d] \notin {None, 0}
      /\ \E a \in (b - Memory .. b - 1) \cap (Bucket \ doubt) :
           stored.commits[a] # None /\ stored.commits[a].complete /\ stored.commits[a].floor[e] > 0
      => stored.rows[b][e] # None

\* After a pass nothing went wrong in, each of the last buckets is committed, and
\* what an earlier attempt, a cut answer or a reset had left of it is made good.
BackfillHeals ==
  pc = "idle" /\ clean => \A b \in window : stored.commits[b] # None /\ b \notin doubt
=============================================================================
