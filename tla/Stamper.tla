------------------------------ MODULE Stamper ------------------------------
(***************************************************************************)
(* alice-stamper on one worker: it receives chunks of log records from     *)
(* Fluent Bit, stamps each record with a template version, returns the     *)
(* chunk through a second socket, counts it into a ledger under a journal, *)
(* acknowledges it, and publishes the ledger to OpenSearch on a timer.     *)
(*                                                                         *)
(* Two threads of the process share one lock: the connection handler       *)
(* (Stamper.handle) and the timer (Stamper.tick: publish, checkpoint).     *)
(* The process may die at any step; a restart reads the checkpoint and the *)
(* journal.  Outside it are Fluent Bit, which resends a chunk until it is  *)
(* acknowledged, the return socket, and the OpenSearch catalog.            *)
(*                                                                         *)
(* Abstractions.  A chunk carries one record of one family.  A template    *)
(* version is <<cluster, level>>: records widen a cluster from level to    *)
(* level (Trees; eviction is not modelled).  A bucket's count is the       *)
(* number of its entries, one per counted record.  One unit of time is one *)
(* fine bucket (five minutes); the clock that handle and publish read just *)
(* before they wait for the lock is read with the lock here, so a wait for *)
(* the lock that passes the end of a bucket is not modelled.               *)
(***************************************************************************)
EXTENDS Integers, FiniteSets

CONSTANTS
  Chunk,        \* chunk identifiers
  Record,       \* the record each chunk carries
  Cluster,      \* clusters of the family's drain3 tree
  Program,      \* programs that log
  MaxLevel,     \* widest level of a template
  Overlong,     \* versions whose template is longer than max_message_length
  Faults,       \* the environment faults of this instance
  Horizon,      \* LEDGER_MS, in fine buckets
  Hold,         \* CHUNK_HOLD_MS, in fine buckets
  Span,         \* fine buckets in a coarse one
  MaxTime,      \* bound: last clock value
  MaxRestarts,  \* bound: crashes and stops
  MaxLines,     \* bound: journal lines ever written
  None          \* no job, no snapshot

FaultKinds ==
  {"refuse",    \* the return socket accepts neither try
   "late_ack",  \* it accepts the chunk but both acknowledgements time out
   "ack_lost",  \* Fluent Bit does not get the stamper's acknowledgement
   "disk",      \* a journal append raises, nothing written
   "torn",      \* a crash leaves a journal line without its end
   "items",     \* OpenSearch rejects some items of a bulk request
   "mark"}      \* ... and may accept the watermark beside them

Time     == 0 .. MaxTime
Never    == -1
Version  == Cluster \X (1 .. MaxLevel)
Key      == [start : Time, late : BOOLEAN]
Hour     == [start : Time, late : BOOLEAN]
Fact     == ({"text", "from", "into"} \X Version) \cup ({"program"} \X Program)
Delta    == [chunk : Chunk, at : Time, version : Version, key : Key]
Entry    == [id : 1 .. MaxLines, delta : Delta]
Row      == Version \X SUBSET Version
Line     == [id : 1 .. MaxLines, seq : 1 .. MaxLines, chunk : Chunk,
             at : Time, entries : SUBSET Entry, defs : SUBSET Row]
Job      == [chunk : Chunk, at : Time, version : Version, dup : BOOLEAN,
             back : BOOLEAN, deltas : SUBSET Delta, defs : SUBSET Row]
Publication ==
  [keys : SUBSET Key, entries : SUBSET Entry, versions : SUBSET Version,
   facts : [Version -> SUBSET Fact], through : Time]
Checkpoint ==
  [seq : 0 .. MaxLines, ledger : SUBSET Entry, facts : [Version -> SUBSET Fact],
   seen : [Chunk -> Time \cup {Never}], tree : [Cluster -> 0 .. MaxLevel]]
Catalog ==
  [fine : [Key -> SUBSET Entry], coarse : [Hour -> SUBSET Entry],
   facts : [Version -> SUBSET Fact], mark : Time]

ASSUME RecordAssumption ==
  Record \in [Chunk -> [cluster : Cluster, level : 1 .. MaxLevel,
                        bucket : Time, program : Program, counted : BOOLEAN]]
ASSUME OverlongAssumption == Overlong \subseteq Version
ASSUME FaultsAssumption == Faults \subseteq FaultKinds
ASSUME BoundsAssumption ==
  /\ Horizon \in Nat \ {0} /\ Hold \in Nat \ {0} /\ Span \in Nat \ {0}
  /\ MaxLevel \in Nat /\ MaxTime \in Nat
  /\ MaxRestarts \in Nat /\ MaxLines \in Nat

VARIABLES
  now,          \* the wall clock
  acked,        \* chunks Fluent Bit has dropped from its buffer
  returned,     \* per chunk, the versions it went back under (first one wins)
  \* memory of the process
  job,          \* the chunk the handler holds under the lock, or None
  acking,       \* chunks handled, their acknowledgement not yet delivered
  tree,         \* level of each cluster, 0 when the tree has none
  ledger,       \* counted records
  dirty,        \* buckets changed since they were published
  facts,        \* what is known of each version, {} when it has no row
  dirtyVersions,
  seen,         \* chunk identifiers held, and since when
  seq,          \* journal.seq
  settled,      \* a checkpoint was taken since the process started
  ticker,       \* where the timer thread is, "down" without a process
  pub,          \* the snapshot a publication sends, or None
  \* disk of the worker
  ckpt, journal, torn,
  \* OpenSearch
  catalog,
  \* bounds and history
  restarts, lines,
  handled,      \* per chunk, its last journal line and when it was handled
  recent,       \* lines journaled while not settled
  forfeited     \* lines of `recent' at a crash

env     == <<now, acked, returned>>
memory  == <<job, acking, tree, ledger, dirty, facts, dirtyVersions, seen,
             seq, settled, ticker, pub>>
disk    == <<ckpt, journal, torn>>
history == <<restarts, lines, handled, recent, forfeited>>
vars    == <<env, memory, disk, catalog, history>>

NoFacts == [v \in Version |-> {}]
NoDocs  == [k \in Key |-> {}]
Up      == ticker # "down"

(***************************************************************************)
(* The ledger.                                                             *)
(***************************************************************************)
Bucket(entries, k) == {e \in entries : e.delta.key = k}

HourOf(k) == [start |-> k.start \div Span, late |-> k.late]

CoarseCounts(entries, h) == {e \in entries : HourOf(e.delta.key) = h}

\* The dirty buckets a publication sends: one that is gone or empty is skipped.
Filled(entries, keys) == {k \in keys : Bucket(entries, k) # {}}

\* What the buckets sent and their hours are made of.
\* (mutant: an hour is summed over its dirty buckets only)
DirtyOnly(entries, keys) == {e \in entries : e.delta.key \in keys}

Snapshot(entries, keys) ==
  {e \in entries : \E k \in Filled(entries, keys) : HourOf(e.delta.key) = HourOf(k)}

Past(start) == start + 1 <= now - Horizon

\* (mutant: a bucket expires one bucket early)
ExpiredEarly(entries) == {e \in entries : ~Past(e.delta.key.start - 1)}

Unexpired(entries) == {e \in entries : ~Past(e.delta.key.start)}

KeyFor(c, t) ==
  IF Record[c].bucket + 1 <= t - Horizon
  THEN [start |-> t, late |-> TRUE]
  ELSE [start |-> Record[c].bucket, late |-> FALSE]

\* Ledger.define: the row of v, and the link back on the version it widened.
Defined(known, v, from, more) ==
  [w \in Version |->
     IF w = v
     THEN known[w] \cup {<<"text", v>>} \cup more
                   \cup {<<"from", u>> : u \in from}
     ELSE IF w \in from /\ known[w] # {} /\ <<"from", w>> \notin known[v]
     THEN known[w] \cup {<<"into", v>>}
     ELSE known[w]]

Live(entries) == {e.delta.version : e \in entries}

(***************************************************************************)
(* What a restart rebuilds: the checkpoint, then the journal lines past    *)
(* its sequence number, in the order they were written.                    *)
(***************************************************************************)
\* (mutant: the first line after the checkpoint is skipped)
ReplayedLate == {l \in journal : l.seq > ckpt.seq + 1}

Replayed == {l \in journal : l.seq > ckpt.seq}

Recoverable == ckpt.ledger \cup UNION {l.entries : l \in Replayed}

RecoveredFacts ==
  LET rows(v)       == {l \in Replayed : \E r \in l.defs : r[1] = v}
      links(l, v, w) == \E r \in l.defs : r[1] = v /\ w \in r[2]
      linked(v, w)  == {l \in Replayed : links(l, v, w)}
      heldAt(l, w)  == \/ ckpt.facts[w] # {}
                       \/ \E m \in rows(w) : m.id < l.id
      backlink(w, v) ==
        /\ <<"from", w>> \notin ckpt.facts[v]
        /\ \E l \in linked(v, w) :
             /\ heldAt(l, w)
             /\ \A m \in linked(v, w) : l.id <= m.id
  IN [w \in Version |->
        ckpt.facts[w]
        \cup (IF rows(w) = {} THEN {} ELSE {<<"text", w>>})
        \cup {<<"from", u>> : u \in {x \in Version : linked(w, x) # {}}}
        \cup {<<"into", v>> : v \in {x \in Version : backlink(w, x)}}]

(***************************************************************************)
(* The connection handler.  Stamper.handle holds the lock from its first   *)
(* statement to its last; a checkpoint holds it too, so no step of the one *)
(* falls inside the other.                                                 *)
(***************************************************************************)
\* (mutant: a checkpoint gives the lock up before it truncates)
HandlerLockFree == job = None

LockFree == job = None /\ ticker \notin {"saved", "final"}

\* Chunks to acknowledge once the handler is done with j.
\* (mutant: a duplicate is returned but not acknowledged)
AckedUnlessDuplicate(j) == IF j.dup THEN acking ELSE acking \cup {j.chunk}

AckedAfter(j) == acking \cup {j.chunk}

\* Stamp the record, and count it into the deltas unless it is a duplicate.
Stamp(c) ==
  LET r     == Record[c]
      old   == tree[r.cluster]
      level == IF old > r.level THEN old ELSE r.level
      v     == <<r.cluster, level>>
      from  == IF 0 < old /\ old < level THEN {<<r.cluster, old>>} ELSE {}
      dup   == seen[c] # Never
      delta == [chunk |-> c, at |-> now, version |-> v, key |-> KeyFor(c, now)]
  IN /\ Up /\ LockFree
     /\ c \notin acked /\ c \notin acking /\ r.bucket <= now
     /\ lines < MaxLines
     /\ tree' = [tree EXCEPT ![r.cluster] = level]
     /\ \E fresh \in BOOLEAN :  \* free: the record may be the earliest seen
          /\ (facts[v] = {} \/ from # {}) => fresh
          /\ job' = [chunk |-> c, at |-> now, version |-> v, dup |-> dup,
                     back |-> FALSE,
                     deltas |-> IF r.counted /\ ~dup THEN {delta} ELSE {},
                     defs |-> IF r.counted /\ ~dup /\ fresh
                              THEN {<<v, from>>} ELSE {}]
     /\ facts' = IF r.counted /\ ~dup
                 THEN Defined(facts, v, from, {<<"program", r.program>>})
                 ELSE facts
     /\ dirtyVersions' = dirtyVersions \cup {w \in Version : facts'[w] # facts[w]}
     /\ UNCHANGED <<env, acking, ledger, dirty, seen, seq, settled, ticker, pub,
                    disk, catalog, history>>

\* The return socket takes the chunk; a duplicate needs nothing more.
ReturnAccepted ==
  /\ job # None /\ ~job.back
  /\ returned' = [returned EXCEPT ![job.chunk] = @ \cup {job.version}]
  /\ job' = IF job.dup THEN None ELSE [job EXCEPT !.back = TRUE]
  /\ acking' = IF job.dup THEN AckedAfter(job) ELSE acking
  /\ UNCHANGED <<now, acked, tree, ledger, dirty, facts, dirtyVersions, seen,
                 seq, settled, ticker, pub, disk, catalog, history>>

\* Both tries fail: StamperError closes the connection, nothing is counted.
ReturnRefused ==
  /\ job # None /\ ~job.back
  /\ \/ "refuse" \in Faults /\ UNCHANGED returned
     \/ "late_ack" \in Faults
        /\ returned' = [returned EXCEPT ![job.chunk] = @ \cup {job.version}]
  /\ job' = None
  /\ UNCHANGED <<now, acked, acking, tree, ledger, dirty, facts, dirtyVersions,
                 seen, seq, settled, ticker, pub, disk, catalog, history>>

\* The records are counted once the return socket has them.
\* (mutant: they are counted first)
CountsBeforeReturn == job # None

Returned == job # None /\ job.back

\* Append one line, then add its deltas to the ledger and hold the chunk.
\* After a torn line the appended text is glued to it, and neither parses.
Journal ==
  LET entries == {[id |-> lines + 1, delta |-> d] : d \in job.deltas}
      line    == [id |-> lines + 1, seq |-> seq + 1, chunk |-> job.chunk,
                  at |-> job.at, entries |-> entries, defs |-> job.defs]
  IN /\ Returned
     /\ journal' = IF torn THEN journal ELSE journal \cup {line}
     /\ torn' = FALSE
     /\ seq' = seq + 1
     /\ lines' = lines + 1
     /\ ledger' = ledger \cup entries
     /\ dirty' = dirty \cup {d.key : d \in job.deltas}
     /\ seen' = [seen EXCEPT ![job.chunk] = job.at]
     /\ handled' = [handled EXCEPT ![job.chunk] = [id |-> lines + 1, at |-> job.at]]
     /\ recent' = IF settled THEN recent ELSE recent \cup {lines + 1}
     /\ acking' = AckedAfter(job)
     /\ job' = None
     /\ UNCHANGED <<env, tree, facts, dirtyVersions, settled, ticker, pub, ckpt,
                    catalog, restarts, forfeited>>

\* The append raises before anything reached the file.
JournalFails ==
  /\ "disk" \in Faults
  /\ 2 * lines < MaxLines  \* bound: the other lines stay for appends that succeed
  /\ Returned
  /\ seq' = seq + 1
  /\ lines' = lines + 1
  /\ job' = None
  /\ UNCHANGED <<env, acking, tree, ledger, dirty, facts, dirtyVersions, seen,
                 settled, ticker, pub, disk, catalog, restarts, handled, recent,
                 forfeited>>

\* ForwardServer._dispatch: the acknowledgement follows the handler.
Ack(c) ==
  /\ c \in acking
  /\ acking' = acking \ {c}
  /\ acked' = acked \cup {c}
  /\ UNCHANGED <<now, returned, job, tree, ledger, dirty, facts, dirtyVersions,
                 seen, seq, settled, ticker, pub, disk, catalog, history>>

AckLost(c) ==
  /\ "ack_lost" \in Faults
  /\ c \in acking
  /\ acking' = acking \ {c}
  /\ UNCHANGED <<env, job, tree, ledger, dirty, facts, dirtyVersions, seen, seq,
                 settled, ticker, pub, disk, catalog, history>>

(***************************************************************************)
(* The timer.                                                              *)
(***************************************************************************)
\* Ledger.expire takes a bucket that expires off the dirty ones too.
DirtyLeft == {k \in dirty : ~Past(k.start)}

\* Stamper.forget_chunks.  (mutant: one unit early)
ForgottenEarly(c) == seen[c] <= now - Hold

Forgotten(c) == seen[c] < now - Hold

\* The watermark is the start of the bucket of the clock.
\* (mutant: its end)
ThroughEnd == now + 1

Through == now

\* Expire the ledger, forget old chunks and take the snapshot to send.
PublishBegin ==
  /\ ticker = "idle" /\ LockFree
  /\ ledger' = Unexpired(ledger)
  /\ dirty' = DirtyLeft
  /\ seen' = [c \in Chunk |-> IF Forgotten(c) THEN Never ELSE seen[c]]
  /\ pub' = [keys     |-> Filled(ledger', dirty'),
             entries  |-> Snapshot(ledger', dirty'),
             versions |-> dirtyVersions,
             facts    |-> [v \in Version |->
                             IF v \in dirtyVersions THEN facts[v] ELSE {}],
             through  |-> Through]
  /\ ticker' = "sending"
  /\ UNCHANGED <<env, job, acking, tree, facts, dirtyVersions, seq, settled, disk,
                 catalog, history>>

\* The documents of a publication OpenSearch takes: it overwrites a bucket and
\* merges a definition.  A definition whose template is too long is not sent.
Upserted(keys, hours, versions, through) ==
  [fine   |-> [k \in Key |-> IF k \in keys THEN Bucket(pub.entries, k)
                             ELSE catalog.fine[k]],
   coarse |-> [h \in Hour |-> IF h \in hours THEN CoarseCounts(pub.entries, h)
                              ELSE catalog.coarse[h]],
   facts  |-> [v \in Version |-> catalog.facts[v] \cup
                                 IF v \in versions \ Overlong
                                 THEN pub.facts[v] ELSE {}],
   mark   |-> through]

PubHours == {HourOf(k) : k \in pub.keys}

\* (mutant: a rejected bucket is not noticed)
BucketsRejected == Upserted({}, PubHours, pub.versions, pub.through)

Accepted == Upserted(pub.keys, PubHours, pub.versions, pub.through)

\* Buckets whose revision is the one of the snapshot.
\* (mutant: all those of the snapshot)
Sent == pub.keys

Unchanged == {k \in pub.keys : Bucket(ledger, k) = Bucket(pub.entries, k)}

\* Every item was accepted.  A bucket that changed while it was sent stays
\* dirty; a version leaves the dirty ones whatever was added to it meanwhile,
\* and though it was too long to be sent.
Published ==
  /\ ticker = "sending" /\ LockFree
  /\ catalog' = Accepted
  /\ dirty' = dirty \ Unchanged
  /\ dirtyVersions' = dirtyVersions \ pub.versions
  /\ pub' = None
  /\ ticker' = "published"
  /\ UNCHANGED <<env, job, acking, tree, ledger, facts, seen, seq, settled, disk,
                 history>>

\* The request failed, or its answer was lost, or OpenSearch rejected some of
\* its items: everything stays dirty.
PublishFails ==
  /\ ticker = "sending"
  /\ \/ UNCHANGED catalog
     \/ catalog' = Accepted
     \/ /\ "items" \in Faults
        /\ \E keys \in SUBSET pub.keys, hours \in SUBSET PubHours,
             versions \in SUBSET pub.versions,
             through \in {catalog.mark} \cup
                        (IF "mark" \in Faults THEN {pub.through} ELSE {}) :
             catalog' = Upserted(keys, hours, versions, through)
  /\ pub' = None
  /\ ticker' = "published"
  /\ UNCHANGED <<env, job, acking, tree, ledger, dirty, facts, dirtyVersions, seen,
                 seq, settled, disk, history>>

\* Write the state file.  The first tick publishes before it checkpoints; later
\* ticks may checkpoint alone; close() always does.
CheckpointWrite ==
  /\ LockFree
  /\ \/ ticker = "published"
     \/ ticker = "idle" /\ settled
     \/ ticker = "closing"
  /\ facts' = [v \in Version |-> IF v \in Live(ledger) \cup dirtyVersions
                                 THEN facts[v] ELSE {}]
  /\ ckpt' = [seq |-> seq, ledger |-> ledger, facts |-> facts', seen |-> seen,
              tree |-> tree]
  /\ ticker' = IF ticker = "closing" THEN "final" ELSE "saved"
  /\ UNCHANGED <<env, job, acking, tree, ledger, dirty, dirtyVersions, seen, seq,
                 settled, pub, journal, torn, catalog, history>>

\* Empty the journal, still under the lock.
CheckpointTruncate ==
  /\ ticker \in {"saved", "final"}
  /\ journal' = {} /\ torn' = FALSE
  /\ settled' = TRUE
  /\ recent' = {}
  /\ ticker' = IF ticker = "final" THEN "closed" ELSE "idle"
  /\ UNCHANGED <<env, job, acking, tree, ledger, dirty, facts, dirtyVersions, seen,
                 seq, pub, ckpt, catalog, restarts, lines, handled, forfeited>>

\* No checkpoint is due, or it raised before it replaced the state file.
CheckpointSkipped ==
  /\ ticker = "published"
  /\ ticker' = "idle"
  /\ UNCHANGED <<env, job, acking, tree, ledger, dirty, facts, dirtyVersions, seen,
                 seq, settled, pub, disk, catalog, history>>

\* A signal ends the timer loop between two ticks.
Close ==
  /\ ticker = "idle"
  /\ restarts < MaxRestarts
  /\ ticker' = "closing"
  /\ UNCHANGED <<env, job, acking, tree, ledger, dirty, facts, dirtyVersions, seen,
                 seq, settled, pub, disk, catalog, history>>

(***************************************************************************)
(* Process end and start.                                                  *)
(***************************************************************************)
MemoryLost ==
  /\ job' = None /\ acking' = {} /\ pub' = None
  /\ tree' = [k \in Cluster |-> 0]
  /\ ledger' = {} /\ dirty' = {}
  /\ facts' = NoFacts /\ dirtyVersions' = {}
  /\ seen' = [c \in Chunk |-> Never]
  /\ seq' = 0 /\ settled' = FALSE
  /\ ticker' = "down"
  /\ restarts' = restarts + 1
  /\ recent' = {} /\ forfeited' = forfeited \cup recent
  /\ UNCHANGED <<lines, handled>>

Exit ==
  /\ ticker = "closed"
  /\ MemoryLost
  /\ UNCHANGED <<env, disk, catalog>>

\* A crash inside an append may leave a line without its end.
Crash ==
  /\ Up /\ restarts < MaxRestarts
  /\ torn' \in {torn} \cup
        (IF "torn" \in Faults /\ job # None THEN {torn \/ job.back} ELSE {})
  /\ MemoryLost
  /\ UNCHANGED <<env, ckpt, journal, catalog>>

\* After a restart every bucket and version is published again.
\* (mutants: none is)
NoKeys == {}

RecoveredKeys == {e.delta.key : e \in Recoverable}

NoVersions == {}

RecoveredVersions == {v \in Version : RecoveredFacts[v] # {}}

\* journal.seq after a restart is the highest in the file, 0 when it is empty: the
\* sequence number of the checkpoint is not taken over.
\* (mutant: one more)
SeqAbove(n) == n - 1 \in {0} \cup {l.seq : l \in journal} /\ \A l \in journal : l.seq < n

LastSeq(n) == n \in {0} \cup {l.seq : l \in journal} /\ \A l \in journal : l.seq <= n

\* A chunk is held since the checkpoint says, or since its last line says.
HeldSince(c, t) ==
  LET held == {l \in Replayed : l.chunk = c}
  IN \/ held = {} /\ t = ckpt.seen[c]
     \/ \E l \in held : t = l.at /\ \A m \in held : m.id <= l.id

\* Stamper.load, before the process accepts a connection.
Load ==
  /\ ticker = "down"
  /\ ledger' = Recoverable
  /\ dirty' = RecoveredKeys
  /\ facts' = RecoveredFacts
  /\ dirtyVersions' = RecoveredVersions
  /\ seen' \in {f \in [Chunk -> Time \cup {Never}] :
                 \A c \in Chunk : HeldSince(c, f[c])}
  /\ tree' = ckpt.tree
  /\ \E n \in 0 .. MaxLines + 1 : LastSeq(n) /\ seq' = n
  /\ ticker' = "idle"
  /\ UNCHANGED <<env, job, acking, settled, pub, disk, catalog, history>>

Tick ==
  /\ now < MaxTime
  /\ now' = now + 1
  /\ UNCHANGED <<acked, returned, memory, disk, catalog, history>>

-----------------------------------------------------------------------------
Init ==
  /\ now = 0 /\ acked = {} /\ returned = [c \in Chunk |-> {}]
  /\ job = None /\ acking = {} /\ tree = [k \in Cluster |-> 0]
  /\ ledger = {} /\ dirty = {} /\ facts = NoFacts /\ dirtyVersions = {}
  /\ seen = [c \in Chunk |-> Never] /\ seq = 0 /\ settled = FALSE
  /\ ticker = "idle" /\ pub = None
  /\ ckpt = [seq |-> 0, ledger |-> {}, facts |-> NoFacts,
             seen |-> [c \in Chunk |-> Never], tree |-> [k \in Cluster |-> 0]]
  /\ journal = {} /\ torn = FALSE
  /\ catalog = [fine |-> NoDocs, coarse |-> NoDocs, facts |-> NoFacts, mark |-> 0]
  /\ restarts = 0 /\ lines = 0 /\ handled = [c \in Chunk |-> [id |-> 0, at |-> Never]]
  /\ recent = {} /\ forfeited = {}

Next ==
  \/ \E c \in Chunk : Stamp(c) \/ Ack(c) \/ AckLost(c)
  \/ ReturnAccepted \/ ReturnRefused \/ Journal \/ JournalFails
  \/ PublishBegin \/ Published \/ PublishFails
  \/ CheckpointWrite \/ CheckpointTruncate \/ CheckpointSkipped
  \/ Close \/ Exit \/ Crash \/ Load \/ Tick

Spec == Init /\ [][Next]_vars

\* The process is restarted and each thread runs.  Fluent Bit resends without
\* limit, so it offers a chunk again and again; the return socket, the disk and
\* OpenSearch are down for a while, not for ever.
Fairness ==
  /\ WF_vars(Load) /\ WF_vars(Exit)
  /\ SF_vars(ReturnAccepted) /\ SF_vars(Journal)
  /\ \A c \in Chunk : SF_vars(Stamp(c)) /\ SF_vars(Ack(c))
  /\ SF_vars(PublishBegin) /\ SF_vars(Published)
  /\ WF_vars(CheckpointSkipped \/ CheckpointWrite) /\ WF_vars(CheckpointTruncate)

FairSpec == Spec /\ Fairness

(***************************************************************************)
(* Properties.                                                             *)
(***************************************************************************)
EnvTypeOK ==
  now \in Time /\ acked \subseteq Chunk /\ returned \in [Chunk -> SUBSET Version]

HandlerTypeOK ==
  job \in {None} \cup Job /\ acking \subseteq Chunk
  /\ tree \in [Cluster -> 0 .. MaxLevel]

LedgerTypeOK ==
  /\ ledger \subseteq Entry /\ dirty \subseteq Key
  /\ facts \in [Version -> SUBSET Fact] /\ dirtyVersions \subseteq Version
  /\ seen \in [Chunk -> Time \cup {Never}]

TimerTypeOK ==
  /\ settled \in BOOLEAN
  /\ ticker \in {"down", "idle", "sending", "published", "saved", "closing",
                 "final", "closed"}
  /\ pub \in {None} \cup Publication
  /\ ticker = "sending" => pub \in Publication

DiskTypeOK ==
  ckpt \in Checkpoint /\ journal \subseteq Line /\ torn \in BOOLEAN

HistoryTypeOK ==
  /\ restarts \in 0 .. MaxRestarts
  /\ lines \in 0 .. MaxLines /\ seq \in 0 .. lines
  /\ handled \in [Chunk -> [id : 0 .. MaxLines, at : Time \cup {Never}]]
  /\ recent \subseteq 1 .. MaxLines /\ forfeited \subseteq 1 .. MaxLines

\* The variables keep their types; journal.seq never runs ahead of the lines
\* written, and a publication in flight has its snapshot.
TypeOK ==
  /\ EnvTypeOK /\ HandlerTypeOK /\ LedgerTypeOK /\ TimerTypeOK
  /\ DiskTypeOK /\ catalog \in Catalog /\ HistoryTypeOK

\* Once a process has taken a checkpoint, a crash at any step loses no counted
\* record: the checkpoint and the journal rebuild the ledger (Stamper.handle
\* journals before it counts, Stamper.checkpoint saves before it truncates).
SettledLedgerIsDurable == settled => ledger \subseteq Recoverable

DueKey(c) == KeyFor(c, handled[c].at)

Counted(c) ==
  \/ ~Record[c].counted
  \/ Past(DueKey(c).start)
  \/ \E e \in ledger : e.delta.chunk = c /\ e.delta.key = DueKey(c)

\* An acknowledged record is in the ledger, in the bucket of its collector time
\* or in the late bucket of its handling, until that bucket expires.  Excepted
\* is a line journaled between a restart and its first checkpoint when the
\* process crashes before that checkpoint (run stamper_acked_lost).
AckedMeansCounted ==
  Up => \A c \in acked : handled[c].id \in forfeited \/ Counted(c)

\* A chunk sent again is not counted again while its identifier is held, across
\* lost acknowledgements, failed returns, crashes and restarts.
NeverCountedTwice ==
  \A e, f \in ledger :
    e.delta.chunk = f.delta.chunk /\ e.id < f.id => f.delta.at - e.delta.at > Hold

\* A record is counted only under a version its chunk was returned under: what
\* the ledger counts, the index side has been given.
CountedMeansReturned ==
  \A e \in ledger : e.delta.version \in returned[e.delta.chunk]

\* A bucket that is not dirty is in OpenSearch exactly as the ledger has it, and
\* so is its hour while the ledger holds all of it: a count added while a
\* publication is on its way is not taken for published.
CleanBucketIsPublished ==
  /\ \A e \in ledger : \/ e.delta.key \in dirty
                       \/ Past(e.delta.key.start)
                       \/ Bucket(ledger, e.delta.key) = catalog.fine[e.delta.key]
  /\ \A e \in ledger :
       LET h == HourOf(e.delta.key)
       IN \/ \E k \in dirty : HourOf(k) = h
          \/ Past(h.start * Span)
          \/ CoarseCounts(ledger, h) = catalog.coarse[h]

\* Publishing a five-minute bucket again never takes a count back, except the
\* counts of forfeited lines: "overwrites make that safe".
RepublishKeepsCounts ==
  [][\A k \in Key : \A e \in catalog.fine[k] :
       e \in catalog'.fine[k] \/ e.id \in forfeited]_catalog

\* The watermark of a publication covers every record counted before it whose
\* bucket it has passed.
WatermarkMeansPublished ==
  Up => \A e \in ledger :
          \/ e.delta.at >= catalog.mark \/ e.delta.key.start >= catalog.mark
          \/ Past(e.delta.key.start)
          \/ e \in catalog.fine[e.delta.key]

\* A version whose row is not waiting to be published is in the catalog, over
\* failed publications and restarts.  Excepted is a version whose template is too
\* long for a definition: publish skips it and clears it all the same.
CleanVersionIsCatalogued ==
  \A v \in Version \ (dirtyVersions \cup Overlong) :
    facts[v] # {} => catalog.facts[v] # {}

\* Every record that arrives is acknowledged in the end.
EveryChunkAcked ==
  \A c \in Chunk : (Record[c].bucket <= now) ~> (c \in acked)

\* Every acknowledged record reaches the catalog, or its bucket expires first.
EveryCountPublished ==
  \A c \in Chunk :
    (c \in acked /\ Record[c].counted)
      ~> \/ \E e \in catalog.fine[DueKey(c)] : e.delta.chunk = c
         \/ Past(DueKey(c).start)
         \/ handled[c].id \in forfeited

(***************************************************************************)
(* What the documents say and the program does not do.                     *)
(***************************************************************************)
\* A crash after the acknowledgement loses nothing.
AckedIsNeverLost == Up => \A c \in acked : Counted(c)

\* A republished hour never takes a count back.
HourKeepsCounts ==
  [][\A h \in Hour : catalog.coarse[h] \subseteq catalog'.coarse[h]]_catalog

\* What a publication has not to send any more is in the catalog.
CleanVersionIsUpToDate ==
  \A v \in Version \ (dirtyVersions \cup Overlong) : facts[v] \subseteq catalog.facts[v]
=============================================================================
