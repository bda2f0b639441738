--------------------------- MODULE StamperProofs ---------------------------
(***************************************************************************)
(* Theorems about Stamper for every value of its constants.                *)
(***************************************************************************)
EXTENDS Stamper, TLAPS

\* What the types rest on: sequence numbers follow the lines written, the
\* handler has room for its line, and a closing process has a restart left.
Bounds ==
  /\ job # None => job \in Job /\ lines < MaxLines
  /\ \A l \in journal : l.seq <= lines
  /\ ckpt.seq <= lines
  /\ ticker \in {"closing", "final", "closed"} => restarts < MaxRestarts

TypeInv == TypeOK /\ Bounds

(***************************************************************************)
(* The operators of the model return what they should.                     *)
(***************************************************************************)
LEMMA DefinedType ==
  ASSUME NEW known \in [Version -> SUBSET Fact], NEW v \in Version,
         NEW from \in SUBSET Version, NEW more \in SUBSET Fact
  PROVE  Defined(known, v, from, more) \in [Version -> SUBSET Fact]
BY DEF Defined, Fact

LEMMA KeyForType ==
  ASSUME NEW c \in Chunk, NEW t \in Time
  PROVE  KeyFor(c, t) \in Key
BY RecordAssumption DEF KeyFor, Key

LEMMA RecoverableType ==
  ASSUME DiskTypeOK
  PROVE  Recoverable \subseteq Entry
BY DEF DiskTypeOK, Recoverable, Replayed, Line, Checkpoint

LEMMA RecoveredFactsType ==
  ASSUME DiskTypeOK
  PROVE  RecoveredFacts \in [Version -> SUBSET Fact]
BY DEF DiskTypeOK, RecoveredFacts, Fact, Checkpoint

LEMMA UpsertedType ==
  ASSUME catalog \in Catalog, pub \in Publication, NEW keys, NEW hours,
         NEW versions, NEW through \in Time
  PROVE  Upserted(keys, hours, versions, through) \in Catalog
<1>1. \A k \in Key : Bucket(pub.entries, k) \in SUBSET Entry
      BY DEF Publication, Bucket
<1>2. \A h \in Hour : CoarseCounts(pub.entries, h) \in SUBSET Entry
      BY DEF Publication, CoarseCounts
<1>3. \A v \in Version : pub.facts[v] \in SUBSET Fact
      BY DEF Publication
<1>4. QED  BY <1>1, <1>2, <1>3 DEF Upserted, Catalog

(***************************************************************************)
(* Type correctness, action by action.                                     *)
(***************************************************************************)
LEMMA TypeInit == Init => TypeInv
<1> SUFFICES ASSUME Init PROVE TypeInv
    OBVIOUS
<1> USE BoundsAssumption DEF Init
<1>1. EnvTypeOK  BY DEF EnvTypeOK, Time
<1>2. HandlerTypeOK  BY DEF HandlerTypeOK
<1>3. LedgerTypeOK  BY DEF LedgerTypeOK, NoFacts, Never
<1>4. TimerTypeOK  BY DEF TimerTypeOK
<1>5. DiskTypeOK
  <2>1. NoFacts \in [Version -> SUBSET Fact]
        BY DEF NoFacts
  <2>2. [c \in Chunk |-> Never] \in [Chunk -> Time \cup {Never}]
        OBVIOUS
  <2>3. [k \in Cluster |-> 0] \in [Cluster -> 0 .. MaxLevel]
        OBVIOUS
  <2>4. 0 \in 0 .. MaxLines /\ {} \in SUBSET Entry
        OBVIOUS
  <2>5. ckpt \in Checkpoint
        BY <2>1, <2>2, <2>3, <2>4, Zenon DEF Checkpoint
  <2>6. QED  BY <2>5 DEF DiskTypeOK
<1>6. catalog \in Catalog
      BY DEF Catalog, NoDocs, NoFacts, Time, Key, Hour
<1>7. HistoryTypeOK  BY DEF HistoryTypeOK, Never
<1>8. Bounds  BY DEF Bounds
<1>9. QED  BY <1>1, <1>2, <1>3, <1>4, <1>5, <1>6, <1>7, <1>8 DEF TypeInv, TypeOK

LEMMA TypeStamp ==
  ASSUME TypeInv, NEW c \in Chunk, Stamp(c)
  PROVE  TypeInv'
<1> DEFINE r     == Record[c]
           old   == tree[r.cluster]
           level == IF old > r.level THEN old ELSE r.level
           v     == <<r.cluster, level>>
           from  == IF 0 < old /\ old < level THEN {<<r.cluster, old>>} ELSE {}
           dup   == seen[c] # Never
           delta == [chunk |-> c, at |-> now, version |-> v,
                     key |-> KeyFor(c, now)]
<1> USE DEF TypeInv, TypeOK
<1>1. r.cluster \in Cluster /\ r.level \in 1 .. MaxLevel /\ r.program \in Program
      /\ old \in 0 .. MaxLevel
      BY RecordAssumption DEF HandlerTypeOK
<1>2. level \in 1 .. MaxLevel
      BY <1>1, BoundsAssumption
<1>3. v \in Version /\ from \in SUBSET Version
      BY <1>1, <1>2 DEF Version
<1>4. delta \in Delta
      BY <1>3, KeyForType DEF Delta, EnvTypeOK
<1>5. \E fresh \in BOOLEAN :
         job' = [chunk |-> c, at |-> now, version |-> v, dup |-> dup,
                 back |-> FALSE,
                 deltas |-> IF r.counted /\ ~dup THEN {delta} ELSE {},
                 defs |-> IF r.counted /\ ~dup /\ fresh
                          THEN {<<v, from>>} ELSE {}]
      BY DEF Stamp
<1>6. job' \in Job
      BY <1>3, <1>4, <1>5 DEF Job, Row, EnvTypeOK
<1>7. tree' \in [Cluster -> 0 .. MaxLevel]
  <2>1. tree' = [tree EXCEPT ![r.cluster] = level]
        BY DEF Stamp
  <2>2. tree \in [Cluster -> 0 .. MaxLevel]
        BY DEF HandlerTypeOK
  <2>3. level \in 0 .. MaxLevel
        BY <1>2, BoundsAssumption
  <2> HIDE DEF level, r
  <2>4. QED  BY <2>1, <2>2, <2>3
<1>8. facts' \in [Version -> SUBSET Fact]
  <2>1. facts' = IF r.counted /\ ~dup
                 THEN Defined(facts, v, from, {<<"program", r.program>>})
                 ELSE facts
        BY DEF Stamp
  <2>2. {<<"program", r.program>>} \in SUBSET Fact
        BY <1>1 DEF Fact
  <2>3. QED  BY <1>3, <2>1, <2>2, DefinedType DEF LedgerTypeOK
<1>9. dirtyVersions' \subseteq Version
      BY DEF Stamp, LedgerTypeOK
<1> USE DEF Stamp
<1>10. EnvTypeOK'  BY DEF EnvTypeOK, env
<1>11. HandlerTypeOK'  BY <1>6, <1>7 DEF HandlerTypeOK
<1>12. LedgerTypeOK'  BY <1>8, <1>9 DEF LedgerTypeOK
<1>13. TimerTypeOK'  BY DEF TimerTypeOK
<1>14. DiskTypeOK' /\ (catalog \in Catalog)'  BY DEF DiskTypeOK, disk
<1>15. HistoryTypeOK'  BY DEF HistoryTypeOK, history
<1>16. Bounds'  BY <1>6 DEF Bounds, disk, history
<1>17. QED  BY <1>10, <1>11, <1>12, <1>13, <1>14, <1>15, <1>16

LEMMA TypeReturnAccepted == TypeInv /\ ReturnAccepted => TypeInv'
<1> SUFFICES ASSUME TypeInv, ReturnAccepted PROVE TypeInv'
    OBVIOUS
<1> USE DEF TypeInv, TypeOK, ReturnAccepted
<1>1. job \in Job /\ lines < MaxLines
      BY DEF Bounds
<1>2. job' \in {None} \cup Job /\ (job' # None => job' \in Job)
      BY <1>1 DEF Job
<1>3. EnvTypeOK'
      BY <1>1 DEF EnvTypeOK, Job
<1>4. HandlerTypeOK'
      BY <1>1, <1>2 DEF HandlerTypeOK, AckedAfter, Job
<1>5. LedgerTypeOK'  BY DEF LedgerTypeOK
<1>6. TimerTypeOK'  BY DEF TimerTypeOK
<1>7. DiskTypeOK' /\ (catalog \in Catalog)'  BY DEF DiskTypeOK, disk
<1>8. HistoryTypeOK'  BY DEF HistoryTypeOK, history
<1>9. Bounds'  BY <1>1, <1>2 DEF Bounds, disk, history
<1>10. QED  BY <1>3, <1>4, <1>5, <1>6, <1>7, <1>8, <1>9

LEMMA TypeReturnRefused == TypeInv /\ ReturnRefused => TypeInv'
<1> SUFFICES ASSUME TypeInv, ReturnRefused PROVE TypeInv'
    OBVIOUS
<1> USE DEF TypeInv, TypeOK, ReturnRefused
<1>1. job \in Job
      BY DEF Bounds
<1>2. EnvTypeOK'
      BY <1>1 DEF EnvTypeOK, Job
<1>3. HandlerTypeOK'  BY DEF HandlerTypeOK
<1>4. LedgerTypeOK'  BY DEF LedgerTypeOK
<1>5. TimerTypeOK'  BY DEF TimerTypeOK
<1>6. DiskTypeOK'  BY DEF DiskTypeOK, disk
<1>7. (catalog \in Catalog)'  OBVIOUS
<1>8. HistoryTypeOK'  BY DEF HistoryTypeOK, history
<1>9. Bounds'
      BY DEF Bounds, disk, history
<1>10. QED  BY <1>2, <1>3, <1>4, <1>5, <1>6, <1>7, <1>8, <1>9

LEMMA TypeJournal == TypeInv /\ Journal => TypeInv'
<1> SUFFICES ASSUME TypeInv, Journal PROVE TypeInv'
    OBVIOUS
<1> USE DEF TypeInv, TypeOK, Journal
<1>1. job \in Job /\ lines < MaxLines /\ lines \in 0 .. MaxLines /\ seq \in 0 .. lines
      BY DEF Bounds, Returned, HistoryTypeOK
<1>2. lines + 1 \in 1 .. MaxLines /\ seq + 1 \in 1 .. MaxLines /\ seq + 1 \in 0 .. lines + 1
      BY <1>1, BoundsAssumption
<1>3. {[id |-> lines + 1, delta |-> d] : d \in job.deltas} \in SUBSET Entry
      BY <1>1, <1>2 DEF Job, Entry
<1>4. {d.key : d \in job.deltas} \in SUBSET Key
      BY <1>1 DEF Job, Delta
<1>5. job.chunk \in Chunk /\ job.at \in Time /\ job.defs \in SUBSET Row
      BY <1>1 DEF Job
<1>6. journal' \in SUBSET Line /\ \A l \in journal' : l \in journal \/ l.seq = seq + 1
      BY <1>2, <1>3, <1>5 DEF DiskTypeOK, Line
<1>7. EnvTypeOK'  BY DEF EnvTypeOK, env
<1>8. HandlerTypeOK'
      BY <1>5 DEF HandlerTypeOK, AckedAfter
<1>9. LedgerTypeOK'
      BY <1>3, <1>4, <1>5 DEF LedgerTypeOK
<1>10. TimerTypeOK'  BY DEF TimerTypeOK
<1>11. DiskTypeOK'
      BY <1>6 DEF DiskTypeOK
<1>12. (catalog \in Catalog)'  OBVIOUS
<1>13. HistoryTypeOK'
      BY <1>1, <1>2, <1>5 DEF HistoryTypeOK
<1>14. Bounds'
  <2>1. \A l \in journal : l.seq \in Nat
        BY BoundsAssumption DEF DiskTypeOK, Line
  <2>2. ckpt.seq \in Nat
        BY BoundsAssumption DEF DiskTypeOK, Checkpoint
  <2>3. \A l \in journal' : l.seq <= lines'
        BY <1>1, <1>6, <2>1, BoundsAssumption DEF Bounds
  <2>4. QED  BY <1>1, <2>2, <2>3, BoundsAssumption DEF Bounds
<1>15. QED  BY <1>7, <1>8, <1>9, <1>10, <1>11, <1>12, <1>13, <1>14

LEMMA TypeJournalFails == TypeInv /\ JournalFails => TypeInv'
<1> SUFFICES ASSUME TypeInv, JournalFails PROVE TypeInv'
    OBVIOUS
<1> USE DEF TypeInv, TypeOK, JournalFails
<1>1. lines \in 0 .. MaxLines /\ seq \in 0 .. lines /\ lines < MaxLines
      BY DEF HistoryTypeOK, Bounds, Returned
<1>2. EnvTypeOK'  BY DEF EnvTypeOK, env
<1>3. HandlerTypeOK'  BY DEF HandlerTypeOK
<1>4. LedgerTypeOK'  BY DEF LedgerTypeOK
<1>5. TimerTypeOK'  BY DEF TimerTypeOK
<1>6. DiskTypeOK'  BY DEF DiskTypeOK, disk
<1>7. (catalog \in Catalog)'  OBVIOUS
<1>8. HistoryTypeOK'
      BY <1>1, BoundsAssumption DEF HistoryTypeOK
<1>9. Bounds'
  <2>1. \A l \in journal : l.seq \in Nat
        BY BoundsAssumption DEF DiskTypeOK, Line
  <2>2. ckpt.seq \in Nat
        BY BoundsAssumption DEF DiskTypeOK, Checkpoint
  <2>3. QED  BY <1>1, <2>1, <2>2, BoundsAssumption DEF Bounds, disk
<1>10. QED  BY <1>2, <1>3, <1>4, <1>5, <1>6, <1>7, <1>8, <1>9

LEMMA TypeAck ==
  ASSUME TypeInv, NEW c \in Chunk, Ack(c) \/ AckLost(c)
  PROVE  TypeInv'
<1> USE DEF TypeInv, TypeOK, Ack, AckLost
<1>1. EnvTypeOK'  BY DEF EnvTypeOK, env
<1>2. HandlerTypeOK'  BY DEF HandlerTypeOK
<1>3. LedgerTypeOK'  BY DEF LedgerTypeOK
<1>4. TimerTypeOK'  BY DEF TimerTypeOK
<1>5. DiskTypeOK' /\ (catalog \in Catalog)'  BY DEF DiskTypeOK, disk
<1>6. HistoryTypeOK'  BY DEF HistoryTypeOK, history
<1>7. Bounds'  BY DEF Bounds, disk, history
<1>8. QED  BY <1>1, <1>2, <1>3, <1>4, <1>5, <1>6, <1>7

LEMMA TypePublishBegin == TypeInv /\ PublishBegin => TypeInv'
<1> SUFFICES ASSUME TypeInv, PublishBegin PROVE TypeInv'
    OBVIOUS
<1> USE DEF TypeInv, TypeOK, PublishBegin
<1>1. ledger' \in SUBSET Entry /\ dirty' \in SUBSET Key /\ seen' \in [Chunk -> Time \cup {Never}]
      BY DEF LedgerTypeOK, Unexpired, DirtyLeft
<1>2. Snapshot(ledger', dirty') \in SUBSET Entry /\ now \in Time
      BY <1>1 DEF Snapshot, EnvTypeOK
<1>3. [v \in Version |-> IF v \in dirtyVersions THEN facts[v] ELSE {}]
        \in [Version -> SUBSET Fact] /\ dirtyVersions \in SUBSET Version
      BY DEF LedgerTypeOK
<1>3a. Filled(ledger', dirty') \in SUBSET Key
      BY <1>1 DEF Filled
<1>4. pub' \in Publication
      BY <1>1, <1>2, <1>3, <1>3a, Zenon DEF Publication, Through
<1>5. EnvTypeOK'  BY DEF EnvTypeOK, env
<1>6. HandlerTypeOK'  BY DEF HandlerTypeOK
<1>7. LedgerTypeOK'
      BY <1>1 DEF LedgerTypeOK
<1>8. TimerTypeOK'
      BY <1>4 DEF TimerTypeOK
<1>9. DiskTypeOK'  BY DEF DiskTypeOK, disk
<1>10. (catalog \in Catalog)'  OBVIOUS
<1>11. HistoryTypeOK'  BY DEF HistoryTypeOK, history
<1>12. Bounds'  BY DEF Bounds, disk, history
<1>13. QED  BY <1>5, <1>6, <1>7, <1>8, <1>9, <1>10, <1>11, <1>12

LEMMA TypePublished == TypeInv /\ Published => TypeInv'
<1> SUFFICES ASSUME TypeInv, Published PROVE TypeInv'
    OBVIOUS
<1> USE DEF TypeInv, TypeOK, Published
<1>1. pub \in Publication
      BY DEF TimerTypeOK
<1>2. pub.through \in Time
      BY <1>1 DEF Publication
<1>3. EnvTypeOK'  BY DEF EnvTypeOK, env
<1>4. HandlerTypeOK'  BY DEF HandlerTypeOK
<1>5. LedgerTypeOK'
      BY DEF LedgerTypeOK
<1>6. TimerTypeOK'  BY DEF TimerTypeOK
<1>7. DiskTypeOK'  BY DEF DiskTypeOK, disk
<1>8. (catalog \in Catalog)'
      BY <1>1, <1>2, UpsertedType DEF Accepted
<1>9. HistoryTypeOK'  BY DEF HistoryTypeOK, history
<1>10. Bounds'  BY DEF Bounds, disk, history
<1>11. QED  BY <1>3, <1>4, <1>5, <1>6, <1>7, <1>8, <1>9, <1>10

LEMMA TypePublishFails == TypeInv /\ PublishFails => TypeInv'
<1> SUFFICES ASSUME TypeInv, PublishFails PROVE TypeInv'
    OBVIOUS
<1> USE DEF TypeInv, TypeOK, PublishFails
<1>1. pub \in Publication
      BY DEF TimerTypeOK
<1>2. pub.through \in Time /\ catalog.mark \in Time
      BY <1>1 DEF Publication, Catalog
<1>3. EnvTypeOK'  BY DEF EnvTypeOK, env
<1>4. HandlerTypeOK'  BY DEF HandlerTypeOK
<1>5. LedgerTypeOK'  BY DEF LedgerTypeOK
<1>6. TimerTypeOK'  BY DEF TimerTypeOK
<1>7. DiskTypeOK'  BY DEF DiskTypeOK, disk
<1>8. (catalog \in Catalog)'
  <2>1. CASE UNCHANGED catalog
        BY <2>1
  <2>2. CASE catalog' = Accepted
        BY <1>1, <1>2, <2>2, UpsertedType DEF Accepted
  <2>3. CASE \E keys \in SUBSET pub.keys, hours \in SUBSET PubHours,
              versions \in SUBSET pub.versions,
              through \in {catalog.mark} \cup
                         (IF "mark" \in Faults THEN {pub.through} ELSE {}) :
                catalog' = Upserted(keys, hours, versions, through)
        BY <1>1, <1>2, <2>3, UpsertedType
  <2>4. QED  BY <2>1, <2>2, <2>3
<1>9. HistoryTypeOK'  BY DEF HistoryTypeOK, history
<1>10. Bounds'  BY DEF Bounds, disk, history
<1>11. QED  BY <1>3, <1>4, <1>5, <1>6, <1>7, <1>8, <1>9, <1>10

LEMMA TypeCheckpointWrite == TypeInv /\ CheckpointWrite => TypeInv'
<1> SUFFICES ASSUME TypeInv, CheckpointWrite PROVE TypeInv'
    OBVIOUS
<1> USE DEF TypeInv, TypeOK, CheckpointWrite
<1>1. facts' \in [Version -> SUBSET Fact]
      BY DEF LedgerTypeOK
<1>2. seq \in 0 .. MaxLines /\ ledger \in SUBSET Entry /\ seen \in [Chunk -> Time \cup {Never}]
        /\ tree \in [Cluster -> 0 .. MaxLevel]
      BY BoundsAssumption DEF HistoryTypeOK, LedgerTypeOK, HandlerTypeOK
<1>3. ckpt' \in Checkpoint
      BY <1>1, <1>2, Zenon DEF Checkpoint
<1>4. ckpt'.seq = seq
      OBVIOUS
<1>5. EnvTypeOK'  BY DEF EnvTypeOK, env
<1>6. HandlerTypeOK'  BY DEF HandlerTypeOK
<1>7. LedgerTypeOK'
      BY <1>1 DEF LedgerTypeOK
<1>8. TimerTypeOK'  BY DEF TimerTypeOK
<1>9. DiskTypeOK'
      BY <1>3 DEF DiskTypeOK
<1>10. (catalog \in Catalog)'  OBVIOUS
<1>11. HistoryTypeOK'  BY DEF HistoryTypeOK, history
<1>12. Bounds'
      BY <1>4, BoundsAssumption DEF Bounds, HistoryTypeOK, history
<1>13. QED  BY <1>5, <1>6, <1>7, <1>8, <1>9, <1>10, <1>11, <1>12

LEMMA TypeCheckpointTruncate == TypeInv /\ CheckpointTruncate => TypeInv'
<1> SUFFICES ASSUME TypeInv, CheckpointTruncate PROVE TypeInv'
    OBVIOUS
<1> USE DEF TypeInv, TypeOK, CheckpointTruncate
<1>1. EnvTypeOK'  BY DEF EnvTypeOK, env
<1>2. HandlerTypeOK'  BY DEF HandlerTypeOK
<1>3. LedgerTypeOK'  BY DEF LedgerTypeOK
<1>4. TimerTypeOK'  BY DEF TimerTypeOK
<1>5. DiskTypeOK'
      BY DEF DiskTypeOK
<1>6. (catalog \in Catalog)'  OBVIOUS
<1>7. HistoryTypeOK'
      BY DEF HistoryTypeOK
<1>8. Bounds'
      BY DEF Bounds
<1>9. QED  BY <1>1, <1>2, <1>3, <1>4, <1>5, <1>6, <1>7, <1>8

LEMMA TypeCheckpointSkipped == TypeInv /\ CheckpointSkipped => TypeInv'
<1> SUFFICES ASSUME TypeInv, CheckpointSkipped PROVE TypeInv'
    OBVIOUS
<1> USE DEF TypeInv, TypeOK, CheckpointSkipped
<1>1. EnvTypeOK'  BY DEF EnvTypeOK, env
<1>2. HandlerTypeOK'  BY DEF HandlerTypeOK
<1>3. LedgerTypeOK'  BY DEF LedgerTypeOK
<1>4. TimerTypeOK'  BY DEF TimerTypeOK
<1>5. DiskTypeOK'  BY DEF DiskTypeOK, disk
<1>6. (catalog \in Catalog)'  OBVIOUS
<1>7. HistoryTypeOK'  BY DEF HistoryTypeOK, history
<1>8. Bounds'  BY DEF Bounds, disk, history
<1>9. QED  BY <1>1, <1>2, <1>3, <1>4, <1>5, <1>6, <1>7, <1>8

LEMMA TypeClose == TypeInv /\ Close => TypeInv'
<1> SUFFICES ASSUME TypeInv, Close PROVE TypeInv'
    OBVIOUS
<1> USE DEF TypeInv, TypeOK, Close
<1>1. EnvTypeOK'  BY DEF EnvTypeOK, env
<1>2. HandlerTypeOK'  BY DEF HandlerTypeOK
<1>3. LedgerTypeOK'  BY DEF LedgerTypeOK
<1>4. TimerTypeOK'  BY DEF TimerTypeOK
<1>5. DiskTypeOK'  BY DEF DiskTypeOK, disk
<1>6. (catalog \in Catalog)'  OBVIOUS
<1>7. HistoryTypeOK'  BY DEF HistoryTypeOK, history
<1>8. Bounds'  BY DEF Bounds, disk, history
<1>9. QED  BY <1>1, <1>2, <1>3, <1>4, <1>5, <1>6, <1>7, <1>8

LEMMA TypeMemoryLost ==
  ASSUME TypeInv, MemoryLost, restarts < MaxRestarts,
         UNCHANGED <<env, ckpt, journal, catalog>>, torn' \in BOOLEAN
  PROVE  TypeInv'
<1> USE DEF TypeInv, TypeOK, MemoryLost
<1>1. EnvTypeOK'  BY DEF EnvTypeOK, env
<1>2. HandlerTypeOK'  BY BoundsAssumption DEF HandlerTypeOK
<1>3. LedgerTypeOK'  BY DEF LedgerTypeOK, NoFacts
<1>4. TimerTypeOK'  BY DEF TimerTypeOK
<1>5. DiskTypeOK' /\ (catalog \in Catalog)'  BY DEF DiskTypeOK
<1>6. HistoryTypeOK'  BY BoundsAssumption DEF HistoryTypeOK
<1>7. Bounds'  BY DEF Bounds
<1>8. QED  BY <1>1, <1>2, <1>3, <1>4, <1>5, <1>6, <1>7

LEMMA TypeExit == TypeInv /\ Exit => TypeInv'
BY TypeMemoryLost DEF Exit, TypeInv, TypeOK, Bounds, DiskTypeOK, disk

LEMMA TypeCrash == TypeInv /\ Crash => TypeInv'
<1> SUFFICES ASSUME TypeInv, Crash PROVE TypeInv'
    OBVIOUS
<1>1. torn' \in BOOLEAN
  <2>1. torn \in BOOLEAN /\ (job # None => job \in Job)
        BY DEF TypeInv, TypeOK, Bounds, DiskTypeOK
  <2>2. job # None => job.back \in BOOLEAN
        BY <2>1 DEF Job
  <2>3. QED  BY <2>1, <2>2 DEF Crash
<1>2. QED  BY <1>1, TypeMemoryLost DEF Crash

LEMMA TypeLoad == TypeInv /\ Load => TypeInv'
<1> SUFFICES ASSUME TypeInv, Load PROVE TypeInv'
    OBVIOUS
<1> USE DEF TypeInv, TypeOK, Load
<1>1. ledger' \in SUBSET Entry
      BY RecoverableType
<1>2. dirty' \in SUBSET Key
      BY RecoverableType DEF RecoveredKeys, Entry, Delta
<1>3. facts' \in [Version -> SUBSET Fact] /\ dirtyVersions' \in SUBSET Version
      BY RecoveredFactsType DEF RecoveredVersions
<1>4. tree' \in [Cluster -> 0 .. MaxLevel]
      BY DEF DiskTypeOK, Checkpoint
<1>5. seq' \in 0 .. lines
  <2>1. \A l \in journal : l.seq \in Nat /\ l.seq <= lines
        BY BoundsAssumption DEF DiskTypeOK, Line, Bounds
  <2>2. lines \in Nat /\ seq' \in {0} \cup {l.seq : l \in journal}
        BY BoundsAssumption DEF HistoryTypeOK, LastSeq
  <2>3. QED  BY <2>1, <2>2
<1>6. EnvTypeOK'  BY DEF EnvTypeOK, env
<1>7. HandlerTypeOK'
      BY <1>4 DEF HandlerTypeOK
<1>8. LedgerTypeOK'
      BY <1>1, <1>2, <1>3 DEF LedgerTypeOK
<1>9. TimerTypeOK'  BY DEF TimerTypeOK
<1>10. DiskTypeOK'  BY DEF DiskTypeOK, disk
<1>11. (catalog \in Catalog)'  OBVIOUS
<1>12. HistoryTypeOK'
      BY <1>5 DEF HistoryTypeOK, history
<1>13. Bounds'  BY DEF Bounds, disk, history
<1>14. QED  BY <1>6, <1>7, <1>8, <1>9, <1>10, <1>11, <1>12, <1>13

LEMMA TypeTick == TypeInv /\ Tick => TypeInv'
<1> SUFFICES ASSUME TypeInv, Tick PROVE TypeInv'
    OBVIOUS
<1> USE DEF TypeInv, TypeOK, Tick
<1>1. EnvTypeOK'
      BY BoundsAssumption DEF EnvTypeOK, Time
<1>2. HandlerTypeOK'
      BY DEF HandlerTypeOK, memory
<1>3. LedgerTypeOK'
      BY DEF LedgerTypeOK, memory
<1>4. TimerTypeOK'
      BY DEF TimerTypeOK, memory
<1>5. DiskTypeOK'  BY DEF DiskTypeOK, disk
<1>6. (catalog \in Catalog)'  OBVIOUS
<1>7. HistoryTypeOK'
      BY DEF HistoryTypeOK, history, memory
<1>8. Bounds'
      BY DEF Bounds, disk, history, memory
<1>9. QED  BY <1>1, <1>2, <1>3, <1>4, <1>5, <1>6, <1>7, <1>8

LEMMA TypeStutter == TypeInv /\ UNCHANGED vars => TypeInv'
BY DEF TypeInv, TypeOK, EnvTypeOK, HandlerTypeOK, LedgerTypeOK, TimerTypeOK, DiskTypeOK,
       HistoryTypeOK, Bounds, vars, env, memory, disk, history

LEMMA TypeNext == TypeInv /\ [Next]_vars => TypeInv'
<1> SUFFICES ASSUME TypeInv, [Next]_vars PROVE TypeInv'
    OBVIOUS
<1> USE TypeReturnAccepted, TypeReturnRefused, TypeJournal, TypeJournalFails,
        TypePublishBegin, TypePublished, TypePublishFails, TypeCheckpointWrite,
        TypeCheckpointTruncate, TypeCheckpointSkipped, TypeClose, TypeExit,
        TypeCrash, TypeLoad, TypeTick
<1>1. ASSUME NEW c \in Chunk, Stamp(c) \/ Ack(c) \/ AckLost(c) PROVE TypeInv'
      BY <1>1, TypeStamp, TypeAck
<1>2. CASE UNCHANGED vars
      BY <1>2, TypeStutter
<1>3. QED  BY <1>1, <1>2 DEF Next

\* The variables of the stamper keep their types in every behaviour.
THEOREM TypeCorrect == Spec => []TypeOK
<1>1. TypeInv => TypeOK
      BY DEF TypeInv
<1>2. QED  BY <1>1, TypeInit, TypeNext, PTL DEF Spec

(***************************************************************************)
(* The ledger of a settled process can be rebuilt.  The invariant is not   *)
(* inductive alone: a journaled line counts at the next restart only if    *)
(* the file was not torn and its number is past the checkpoint's, and the  *)
(* journal may be emptied only if the checkpoint holds the whole ledger.   *)
(***************************************************************************)
Durable ==
  /\ SettledLedgerIsDurable
  /\ settled => ~torn /\ ckpt.seq <= seq
  /\ ticker = "down" => ~settled
  /\ ticker \in {"saved", "final"} =>
       job = None /\ ledger \subseteq ckpt.ledger /\ ckpt.seq <= seq

LEMMA DurableInit == Init => Durable
BY DEF Init, Durable, SettledLedgerIsDurable, Recoverable

\* A step that leaves the disk, journal.seq and the timer's place alone and adds
\* nothing to the ledger keeps it.
LEMMA DurableKept ==
  ASSUME Durable, UNCHANGED <<disk, seq, settled, ticker>>,
         ledger' \subseteq ledger,
         job' = None \/ ticker \notin {"saved", "final"}
  PROVE  Durable'
BY DEF Durable, SettledLedgerIsDurable, Recoverable, Replayed, disk

LEMMA DurableJournal == TypeInv /\ Durable /\ Journal => Durable'
<1> SUFFICES ASSUME TypeInv, Durable, Journal PROVE Durable'
    OBVIOUS
<1> DEFINE entries == {[id |-> lines + 1, delta |-> d] : d \in job.deltas}
           line    == [id |-> lines + 1, seq |-> seq + 1, chunk |-> job.chunk,
                       at |-> job.at, entries |-> entries, defs |-> job.defs]
<1>1. ticker \notin {"saved", "final"} /\ ticker' = ticker
      BY DEF Durable, Journal, Returned
<1>2. seq \in Nat /\ ckpt.seq \in Nat /\ seq' = seq + 1 /\ ckpt' = ckpt
  <2>1. seq \in Nat
        BY BoundsAssumption DEF TypeInv, TypeOK, HistoryTypeOK
  <2>2. ckpt.seq \in Nat
        BY BoundsAssumption DEF TypeInv, TypeOK, DiskTypeOK, Checkpoint
  <2>3. QED  BY <2>1, <2>2 DEF Journal
<1>3. ledger' = ledger \cup entries /\ settled' = settled
      BY DEF Journal
<1>4. ASSUME settled
      PROVE  ledger' \subseteq Recoverable'
  <2>1. ~torn /\ ckpt.seq <= seq /\ ledger \subseteq Recoverable
        BY <1>4 DEF Durable, SettledLedgerIsDurable
  <2>2. journal' = journal \cup {line}
        BY <2>1 DEF Journal
  <2>3. line \in Replayed'
        BY <1>2, <2>1, <2>2 DEF Replayed
  <2>4. entries \subseteq Recoverable'
        BY <2>3 DEF Recoverable
  <2>5. Recoverable \subseteq Recoverable'
        BY <1>2, <2>2 DEF Recoverable, Replayed
  <2>6. QED  BY <1>3, <2>1, <2>4, <2>5
<1>5. settled' => ~torn' /\ ckpt'.seq <= seq'
      BY <1>2, <1>3 DEF Durable, Journal
<1>6. QED  BY <1>1, <1>3, <1>4, <1>5 DEF Durable, SettledLedgerIsDurable

LEMMA DurableNext == TypeInv /\ Durable /\ [Next]_vars => Durable'
<1> SUFFICES ASSUME TypeInv, Durable, [Next]_vars PROVE Durable'
    OBVIOUS
<1>1. seq \in Nat /\ ckpt.seq \in Nat
  <2>1. seq \in Nat
        BY BoundsAssumption DEF TypeInv, TypeOK, HistoryTypeOK
  <2>2. ckpt.seq \in Nat
        BY BoundsAssumption DEF TypeInv, TypeOK, DiskTypeOK, Checkpoint
  <2>3. QED  BY <2>1, <2>2
<1>2. ASSUME NEW c \in Chunk, Stamp(c)
      PROVE  Durable'
      BY <1>2, DurableKept DEF Stamp, LockFree
<1>3. ASSUME NEW c \in Chunk, Ack(c) \/ AckLost(c)
      PROVE  Durable'
      BY <1>3, DurableKept DEF Ack, AckLost, Durable
<1>4. CASE ReturnAccepted
      BY <1>4, DurableKept DEF ReturnAccepted, Durable
<1>5. CASE ReturnRefused
      BY <1>5, DurableKept DEF ReturnRefused
<1>6. CASE Journal
      BY <1>6, DurableJournal
<1>7. CASE JournalFails
      BY <1>1, <1>7 DEF JournalFails, Returned, Durable, SettledLedgerIsDurable,
                        Recoverable, Replayed, disk
<1>8. CASE PublishBegin
      BY <1>8 DEF PublishBegin, Unexpired, Durable, SettledLedgerIsDurable,
                  Recoverable, Replayed, disk
<1>9. CASE Published
      BY <1>9 DEF Published, Durable, SettledLedgerIsDurable, Recoverable, Replayed, disk
<1>10. CASE PublishFails
      BY <1>10 DEF PublishFails, Durable, SettledLedgerIsDurable, Recoverable, Replayed, disk
<1>11. CASE CheckpointWrite
  <2>1. ckpt'.ledger = ledger /\ ckpt'.seq = seq /\ seq' = seq /\ ledger' = ledger
        /\ job' = job /\ torn' = torn /\ settled' = settled
        BY <1>11 DEF CheckpointWrite
  <2>2. ticker' \in {"saved", "final"} /\ job = None
        BY <1>11 DEF CheckpointWrite, LockFree
  <2>3. ledger' \subseteq Recoverable'
        BY <2>1 DEF Recoverable
  <2>4. QED  BY <1>1, <2>1, <2>2, <2>3 DEF Durable, SettledLedgerIsDurable
<1>12. CASE CheckpointTruncate
      BY <1>12 DEF CheckpointTruncate, Durable, SettledLedgerIsDurable, Recoverable
<1>13. CASE CheckpointSkipped \/ Close
      BY <1>13 DEF CheckpointSkipped, Close, Durable, SettledLedgerIsDurable,
                   Recoverable, Replayed, disk
<1>14. CASE Exit \/ Crash
      BY <1>14 DEF Exit, Crash, MemoryLost, Durable, SettledLedgerIsDurable
<1>15. CASE Load
      BY <1>15 DEF Load, Durable, SettledLedgerIsDurable
<1>16. CASE Tick
      BY <1>16 DEF Tick, memory, disk, Durable, SettledLedgerIsDurable, Recoverable, Replayed
<1>17. CASE UNCHANGED vars
      BY <1>17 DEF vars, memory, disk, Durable, SettledLedgerIsDurable, Recoverable, Replayed
<1>18. QED
      BY <1>2, <1>3, <1>4, <1>5, <1>6, <1>7, <1>8, <1>9, <1>10, <1>11, <1>12, <1>13,
         <1>14, <1>15, <1>16, <1>17 DEF Next

\* From its first checkpoint on, a process can be killed at any step without
\* losing a counted record: the checkpoint and the journal rebuild the ledger.
THEOREM SettledIsDurable == Spec => []SettledLedgerIsDurable
<1>1. Durable => SettledLedgerIsDurable
      BY DEF Durable
<1>2. Init => TypeInv /\ Durable
      BY TypeInit, DurableInit
<1>3. TypeInv /\ Durable /\ [Next]_vars => (TypeInv /\ Durable)'
      BY TypeNext, DurableNext
<1>4. QED  BY <1>1, <1>2, <1>3, PTL DEF Spec

(***************************************************************************)
(* What is counted went back first.  The ledger may be rebuilt from the    *)
(* disk, so the invariant speaks of the checkpoint and the journal too;    *)
(* and the handler counts what it returned.                                *)
(***************************************************************************)
WasReturned(e) == e.delta.version \in returned[e.delta.chunk]

JobIsReturned ==
  job # None =>
    /\ job.back => job.version \in returned[job.chunk]
    /\ \A d \in job.deltas : d.chunk = job.chunk /\ d.version = job.version

AllReturned ==
  /\ \A e \in ledger : WasReturned(e)
  /\ \A e \in ckpt.ledger : WasReturned(e)
  /\ \A l \in journal : \A e \in l.entries : WasReturned(e)
  /\ JobIsReturned

LEMMA ReturnedInit == Init => AllReturned
BY DEF Init, AllReturned, JobIsReturned

\* A step that counts nothing, saves nothing and leaves the handler's job as it
\* is, or drops it, keeps the invariant.
LEMMA ReturnedKept ==
  ASSUME AllReturned, UNCHANGED <<returned, ckpt>>,
         job' = None \/ job' = job,
         ledger' \subseteq ledger, journal' \subseteq journal
  PROVE  AllReturned'
BY DEF AllReturned, JobIsReturned, WasReturned

LEMMA ReturnedNext == TypeInv /\ AllReturned /\ [Next]_vars => AllReturned'
<1> SUFFICES ASSUME TypeInv, AllReturned, [Next]_vars PROVE AllReturned'
    OBVIOUS
<1>1. ASSUME NEW c \in Chunk, Stamp(c)
      PROVE  AllReturned'
  <2>1. job'.back = FALSE
        /\ \A d \in job'.deltas : d.chunk = job'.chunk /\ d.version = job'.version
        BY <1>1 DEF Stamp
  <2>2. UNCHANGED <<returned, ledger, ckpt, journal>>
        BY <1>1 DEF Stamp, env, disk
  <2>3. QED  BY <2>1, <2>2 DEF AllReturned, JobIsReturned, WasReturned
<1>2. ASSUME NEW c \in Chunk, Ack(c) \/ AckLost(c)
      PROVE  AllReturned'
      BY <1>2, ReturnedKept DEF Ack, AckLost, env, disk
<1>3. CASE ReturnAccepted \/ ReturnRefused
  <2>1. job \in Job /\ returned \in [Chunk -> SUBSET Version]
        BY <1>3 DEF TypeInv, TypeOK, EnvTypeOK, Bounds, ReturnAccepted, ReturnRefused
  <2>2. \A c \in Chunk : returned[c] \subseteq returned'[c]
        BY <1>3, <2>1 DEF ReturnAccepted, ReturnRefused
  <2>3. \A e \in Entry : WasReturned(e) => WasReturned(e)'
        BY <2>2 DEF WasReturned, Entry, Delta
  <2>4. ledger \subseteq Entry /\ ckpt.ledger \subseteq Entry
        /\ \A l \in journal : l.entries \subseteq Entry
        BY DEF TypeInv, TypeOK, LedgerTypeOK, DiskTypeOK, Checkpoint, Line
  <2>5. UNCHANGED <<ledger, ckpt, journal>>
        BY <1>3 DEF ReturnAccepted, ReturnRefused, disk
  <2>6. JobIsReturned'
    <3>1. CASE job' = None
          BY <3>1 DEF JobIsReturned
    <3>2. CASE job' # None
      <4>1. ReturnAccepted /\ job' = [job EXCEPT !.back = TRUE]
            BY <1>3, <3>2 DEF ReturnAccepted, ReturnRefused
      <4>2. job'.chunk = job.chunk /\ job'.version = job.version
            /\ job'.deltas = job.deltas
            BY <2>1, <4>1 DEF Job
      <4>3. job.version \in returned'[job.chunk]
            BY <2>1, <4>1 DEF ReturnAccepted, Job
      <4>4. QED  BY <2>1, <4>1, <4>2, <4>3 DEF AllReturned, JobIsReturned, ReturnAccepted
    <3>3. QED  BY <3>1, <3>2
  <2>7. QED  BY <2>3, <2>4, <2>5, <2>6 DEF AllReturned
<1>4. CASE Journal
  <2> DEFINE entries == {[id |-> lines + 1, delta |-> d] : d \in job.deltas}
  <2>1. \A e \in entries : WasReturned(e)
        BY <1>4 DEF Journal, Returned, AllReturned, JobIsReturned, WasReturned
  <2>2. ledger' = ledger \cup entries /\ UNCHANGED <<returned, ckpt>> /\ job' = None
        BY <1>4 DEF Journal, env
  <2>3. \A l \in journal' : l \in journal \/ l.entries = entries
        BY <1>4 DEF Journal
  <2>4. QED  BY <2>1, <2>2, <2>3 DEF AllReturned, JobIsReturned, WasReturned
<1>5. CASE CheckpointWrite
  <2>1. ckpt'.ledger = ledger /\ UNCHANGED <<returned, ledger, journal, job>>
        BY <1>5 DEF CheckpointWrite, env
  <2>2. QED  BY <2>1 DEF AllReturned, JobIsReturned, WasReturned
<1>6. CASE Load
  <2>1. ledger' = Recoverable /\ UNCHANGED <<returned, ckpt, journal, job>>
        BY <1>6 DEF Load, env, disk
  <2>2. \A e \in Recoverable : WasReturned(e)
        BY DEF Recoverable, Replayed, AllReturned
  <2>3. QED  BY <2>1, <2>2 DEF AllReturned, JobIsReturned, WasReturned
<1>7. CASE JournalFails \/ PublishBegin \/ Published \/ PublishFails
      BY <1>7, ReturnedKept DEF JournalFails, PublishBegin, Unexpired, Published,
                                PublishFails, env, disk
<1>8. CASE CheckpointTruncate \/ CheckpointSkipped \/ Close \/ Exit \/ Crash \/ Tick
      BY <1>8, ReturnedKept DEF CheckpointTruncate, CheckpointSkipped, Close, Exit,
                                Crash, MemoryLost, Tick, env, disk, memory
<1>9. CASE UNCHANGED vars
      BY <1>9, ReturnedKept DEF vars, env, disk, memory
<1>10. QED
       BY <1>1, <1>2, <1>3, <1>4, <1>5, <1>6, <1>7, <1>8, <1>9 DEF Next

\* No record is counted under a version its chunk was not returned under, whatever
\* is refused, retried, lost or restarted.
THEOREM CountedWasReturned == Spec => []CountedMeansReturned
<1>1. AllReturned => CountedMeansReturned
      BY DEF AllReturned, CountedMeansReturned, WasReturned
<1>2. Init => TypeInv /\ AllReturned
      BY TypeInit, ReturnedInit
<1>3. TypeInv /\ AllReturned /\ [Next]_vars => (TypeInv /\ AllReturned)'
      BY TypeNext, ReturnedNext
<1>4. QED  BY <1>1, <1>2, <1>3, PTL DEF Spec

(***************************************************************************)
(* An acknowledged record stays counted.  The invariant follows a record   *)
(* from its last journal line, whether or not it is acknowledged yet: its  *)
(* entry is in the ledger of a running process, and what a restart would   *)
(* rebuild has it too unless the line is one of the unsettled ones.        *)
(***************************************************************************)
Kept(entries, c) ==
  \/ ~Record[c].counted
  \/ Past(DueKey(c).start)
  \/ \E e \in entries : e.delta.chunk = c /\ e.delta.key = DueKey(c)

Handled(c) == handled[c].id # 0

\* A chunk that is held, acknowledged or about to be has a journal line.
HandledInv ==
  /\ \A c \in acked \cup acking : Handled(c)
  /\ \A c \in Chunk : seen[c] # Never \/ ckpt.seen[c] # Never => Handled(c)
  /\ \A l \in journal : Handled(l.chunk)
  /\ job # None /\ job.dup => Handled(job.chunk)

\* The handler counts a record of a chunk it holds for the first time.
CountingInv ==
  job # None =>
    /\ job.back => ~job.dup
    /\ ~job.dup /\ Record[job.chunk].counted =>
         \E d \in job.deltas : d.chunk = job.chunk /\ d.key = KeyFor(job.chunk, job.at)

KeptInv ==
  /\ \A c \in Chunk : Handled(c) =>
       \/ handled[c].id \in forfeited
       \/ /\ Up => Kept(ledger, c)
          /\ handled[c].id \in recent \/ Kept(Recoverable, c)
  /\ ticker = "down" => recent = {} /\ job = None

LEMMA HandledInit == Init => HandledInv /\ CountingInv /\ KeptInv
BY DEF Init, HandledInv, Handled, CountingInv, KeptInv, Never

LEMMA HandledNext == TypeInv /\ HandledInv /\ [Next]_vars => HandledInv'
<1> SUFFICES ASSUME TypeInv, HandledInv, [Next]_vars PROVE HandledInv'
    OBVIOUS
<1>1. ASSUME NEW c \in Chunk, Stamp(c)
      PROVE  HandledInv'
  <2>1. job'.chunk = c /\ job'.dup = (seen[c] # Never)
        BY <1>1 DEF Stamp
  <2>2. UNCHANGED <<acked, acking, seen, ckpt, journal, handled>>
        BY <1>1 DEF Stamp, env, disk, history
  <2>3. QED  BY <2>1, <2>2 DEF HandledInv, Handled
<1>2. ASSUME NEW c \in Chunk, Ack(c) \/ AckLost(c)
      PROVE  HandledInv'
      BY <1>2 DEF Ack, AckLost, HandledInv, Handled, env, disk, history
<1>3. CASE ReturnAccepted \/ ReturnRefused
  <2>1. job \in Job /\ UNCHANGED <<acked, seen, ckpt, journal, handled>>
        BY <1>3 DEF TypeInv, Bounds, ReturnAccepted, ReturnRefused, disk, history
  <2>2. acking' = acking \/ (job.dup /\ acking' = acking \cup {job.chunk})
        BY <1>3 DEF ReturnAccepted, ReturnRefused, AckedAfter
  <2>3. job' = None \/ (job'.chunk = job.chunk /\ job'.dup = job.dup)
        BY <1>3, <2>1 DEF ReturnAccepted, ReturnRefused, Job
  <2>4. job # None
        BY <1>3 DEF ReturnAccepted, ReturnRefused
  <2>5. QED  BY <2>1, <2>2, <2>3, <2>4 DEF HandledInv, Handled
<1>4. CASE Journal
  <2>1. job \in Job /\ job # None /\ lines \in Nat
        BY <1>4, BoundsAssumption
        DEF TypeInv, TypeOK, Bounds, Journal, Returned, HistoryTypeOK
  <2>2. job.chunk \in Chunk
        BY <2>1 DEF Job
  <2>3. handled' = [handled EXCEPT ![job.chunk] = [id |-> lines + 1, at |-> job.at]]
        /\ seen' = [seen EXCEPT ![job.chunk] = job.at]
        /\ acking' = acking \cup {job.chunk} /\ job' = None
        /\ UNCHANGED <<acked, ckpt>>
        BY <1>4 DEF Journal, AckedAfter, env
  <2>4. handled \in [Chunk -> [id : 0 .. MaxLines, at : Time \cup {Never}]]
        /\ seen \in [Chunk -> Time \cup {Never}]
        /\ acked \subseteq Chunk /\ acking \subseteq Chunk
        /\ \A l \in journal : l.chunk \in Chunk
        BY DEF TypeInv, TypeOK, HistoryTypeOK, LedgerTypeOK, EnvTypeOK, HandlerTypeOK,
               DiskTypeOK, Line
  <2>5. \A l \in journal' : l \in journal \/ l.chunk = job.chunk
        BY <1>4 DEF Journal
  <2>6. handled'[job.chunk].id = lines + 1 /\ lines + 1 # 0
        /\ \A c \in Chunk : c # job.chunk => handled'[c] = handled[c]
        BY <2>1, <2>2, <2>3, <2>4
  <2>7. \A c \in Chunk : Handled(c) \/ c = job.chunk => handled'[c].id # 0
        BY <2>2, <2>6 DEF Handled
  <2>8. \A c \in Chunk : c = job.chunk \/ seen'[c] = seen[c]
        BY <2>2, <2>3, <2>4
  <2>9. \A c \in acked' \cup acking' : handled'[c].id # 0
        BY <2>2, <2>3, <2>4, <2>7 DEF HandledInv
  <2>10. \A c \in Chunk : seen'[c] # Never \/ ckpt'.seen[c] # Never => handled'[c].id # 0
        BY <2>3, <2>7, <2>8 DEF HandledInv
  <2>11. \A l \in journal' : handled'[l.chunk].id # 0
        BY <2>2, <2>4, <2>5, <2>7 DEF HandledInv
  <2>12. QED  BY <2>3, <2>9, <2>10, <2>11 DEF HandledInv, Handled
<1>5. CASE PublishBegin
  <2>1. \A c \in Chunk : seen'[c] # Never => seen[c] # Never
        BY <1>5 DEF PublishBegin
  <2>2. UNCHANGED <<acked, acking, ckpt, journal, handled, job>>
        BY <1>5 DEF PublishBegin, env, disk, history
  <2>3. QED  BY <2>1, <2>2 DEF HandledInv, Handled
<1>6. CASE CheckpointWrite
  <2>1. ckpt'.seen = seen /\ UNCHANGED <<acked, acking, seen, journal, handled, job>>
        BY <1>6 DEF CheckpointWrite, env, history
  <2>2. QED  BY <2>1 DEF HandledInv, Handled
<1>7. CASE Exit \/ Crash
      BY <1>7 DEF Exit, Crash, MemoryLost, HandledInv, Handled, env, disk
<1>8. CASE Load
  <2>1. \A c \in Chunk : HeldSince(c, seen'[c])
        BY <1>8 DEF Load
  <2>2. \A c \in Chunk : seen'[c] # Never => ckpt.seen[c] # Never
                                        \/ \E l \in journal : l.chunk = c
        BY <2>1 DEF HeldSince, Replayed
  <2>3. UNCHANGED <<acked, acking, ckpt, journal, handled, job>>
        BY <1>8 DEF Load, env, disk, history
  <2>4. QED  BY <2>2, <2>3 DEF HandledInv, Handled
<1>9. CASE JournalFails \/ Published \/ PublishFails \/ CheckpointTruncate
           \/ CheckpointSkipped \/ Close
      BY <1>9 DEF JournalFails, Published, PublishFails, CheckpointTruncate,
                  CheckpointSkipped, Close, env, disk, history, HandledInv, Handled
<1>10. CASE Tick \/ UNCHANGED vars
      BY <1>10 DEF Tick, vars, env, disk, history, memory, HandledInv, Handled
<1>11. QED
       BY <1>1, <1>2, <1>3, <1>4, <1>5, <1>6, <1>7, <1>8, <1>9, <1>10 DEF Next

LEMMA CountingNext == TypeInv /\ CountingInv /\ [Next]_vars => CountingInv'
<1> SUFFICES ASSUME TypeInv, CountingInv, [Next]_vars PROVE CountingInv'
    OBVIOUS
<1>1. ASSUME NEW c \in Chunk, Stamp(c)
      PROVE  CountingInv'
  <2> DEFINE v == job'.version
             delta == [chunk |-> c, at |-> now, version |-> v, key |-> KeyFor(c, now)]
  <2>1. job'.chunk = c /\ job'.at = now /\ job'.back = FALSE
        /\ job'.dup = (seen[c] # Never)
        /\ (Record[c].counted /\ ~(seen[c] # Never) => delta \in job'.deltas)
        BY <1>1 DEF Stamp
  <2>2. QED  BY <2>1 DEF CountingInv
<1>2. CASE ReturnAccepted
  <2>1. job \in Job /\ job # None
        BY <1>2 DEF TypeInv, Bounds, ReturnAccepted
  <2>2. job' = None \/ (~job.dup /\ job' = [job EXCEPT !.back = TRUE])
        BY <1>2 DEF ReturnAccepted
  <2>3. job' = None \/ (~job.dup /\ job'.chunk = job.chunk /\ job'.at = job.at
                        /\ job'.dup = job.dup /\ job'.deltas = job.deltas)
        BY <2>1, <2>2 DEF Job
  <2>4. QED  BY <2>1, <2>3 DEF CountingInv
<1>3. ASSUME job' = None \/ job' = job
      PROVE  CountingInv'
      BY <1>3 DEF CountingInv
<1>4. ASSUME NEW c \in Chunk, Ack(c) \/ AckLost(c)
      PROVE  job' = job
      BY <1>4 DEF Ack, AckLost
<1>5. CASE ReturnRefused \/ Journal \/ JournalFails \/ Exit \/ Crash
      BY <1>3, <1>5 DEF ReturnRefused, Journal, JournalFails, Exit, Crash, MemoryLost
<1>6. CASE PublishBegin \/ Published \/ PublishFails \/ CheckpointWrite
           \/ CheckpointTruncate \/ CheckpointSkipped \/ Close \/ Load
      BY <1>3, <1>6 DEF PublishBegin, Published, PublishFails, CheckpointWrite,
                        CheckpointTruncate, CheckpointSkipped, Close, Load
<1>7. CASE Tick \/ UNCHANGED vars
      BY <1>3, <1>7 DEF Tick, vars, memory
<1>8. QED  BY <1>1, <1>2, <1>3, <1>4, <1>5, <1>6, <1>7 DEF Next

\* A step that takes no line and no clock tick keeps it, when it drops only
\* expired buckets from the ledger and nothing from what a restart rebuilds.
LEMMA KeptStill ==
  ASSUME KeptInv, UNCHANGED <<now, handled, forfeited, recent>>,
         \A e \in ledger : e \in ledger' \/ Past(e.delta.key.start),
         Recoverable \subseteq Recoverable',
         Up' <=> Up, job' = None \/ job' = job \/ Up
  PROVE  KeptInv'
<1>1. \A c \in Chunk : DueKey(c)' = DueKey(c) /\ Past(DueKey(c).start)' = Past(DueKey(c).start)
      BY DEF DueKey, KeyFor, Past
<1>2. ASSUME NEW c \in Chunk, Kept(ledger, c)
      PROVE  Kept(ledger, c)'
      BY <1>1, <1>2 DEF Kept
<1>3. ASSUME NEW c \in Chunk, Kept(Recoverable, c)
      PROVE  Kept(Recoverable, c)'
      BY <1>1, <1>3 DEF Kept
<1>4. \A c \in Chunk : Handled(c)' = Handled(c)
      BY DEF Handled
<1>5. ASSUME NEW c \in Chunk, Handled(c)'
      PROVE  \/ handled'[c].id \in forfeited'
             \/ (Up' => Kept(ledger, c)')
                /\ (handled'[c].id \in recent' \/ Kept(Recoverable, c)')
      BY <1>2, <1>3, <1>4, <1>5 DEF KeptInv
<1>6. ticker' = "down" => recent' = {} /\ job' = None
      BY DEF KeptInv, Up
<1>7. QED  BY <1>5, <1>6 DEF KeptInv

\* The new line is the last one of its chunk, and its entry is where it is due.
LEMMA KeptJournal ==
  TypeInv /\ Durable /\ CountingInv /\ KeptInv /\ Journal => KeptInv'
<1> SUFFICES ASSUME TypeInv, Durable, CountingInv, KeptInv, Journal PROVE KeptInv'
    OBVIOUS
<1> DEFINE entries == {[id |-> lines + 1, delta |-> d] : d \in job.deltas}
           line    == [id |-> lines + 1, seq |-> seq + 1, chunk |-> job.chunk,
                       at |-> job.at, entries |-> entries, defs |-> job.defs]
<1>1. job \in Job /\ job # None
      BY DEF TypeInv, Bounds, Journal, Returned
<1>2. job.chunk \in Chunk /\ job.at \in Time
      BY <1>1 DEF Job
<1>3. PICK b \in Chunk : b = job.chunk
      BY <1>2
<1>4. PICK t \in Time : t = job.at
      BY <1>2
<1>5. handled' = [handled EXCEPT ![b] = [id |-> lines + 1, at |-> job.at]]
      /\ ledger' = ledger \cup entries /\ job' = None
      /\ UNCHANGED <<now, ckpt, forfeited, settled, ticker>>
      BY <1>3 DEF Journal, env
<1>6. handled \in [Chunk -> [id : 0 .. MaxLines, at : Time \cup {Never}]]
      BY DEF TypeInv, TypeOK, HistoryTypeOK
<1>7. handled'[b] = [id |-> lines + 1, at |-> job.at]
      /\ \A c \in Chunk : c # b => handled'[c] = handled[c]
      BY <1>5, <1>6, <1>3
<1>8. seq \in Nat /\ ckpt.seq \in Nat
  <2>1. seq \in Nat
        BY BoundsAssumption DEF TypeInv, TypeOK, HistoryTypeOK
  <2>2. ckpt.seq \in Nat
        BY BoundsAssumption DEF TypeInv, TypeOK, DiskTypeOK, Checkpoint
  <2>3. QED  BY <2>1, <2>2
<1>9. Up /\ Up'
      BY <1>1, <1>5 DEF KeptInv, Up
<1>10. recent \subseteq recent' /\ Recoverable \subseteq Recoverable'
      BY DEF Journal, Recoverable, Replayed
<1>11. ASSUME NEW c \in Chunk, c # b, handled'[c].id # 0
      PROVE  \/ handled'[c].id \in forfeited'
             \/ Kept(ledger, c)' /\ (handled'[c].id \in recent' \/ Kept(Recoverable, c)')
  <2>1. Handled(c) /\ handled'[c] = handled[c]
        BY <1>7, <1>11 DEF Handled
  <2>2. DueKey(c)' = DueKey(c) /\ Past(DueKey(c).start)' = Past(DueKey(c).start)
    <3>1. now' = now
          BY <1>5
    <3>2. QED  BY <2>1, <3>1 DEF DueKey, KeyFor, Past
  <2>3. Kept(ledger, c) => Kept(ledger, c)'
        BY <1>5, <2>2 DEF Kept
  <2>4. Kept(Recoverable, c) => Kept(Recoverable, c)'
        BY <1>10, <2>2 DEF Kept
  <2>5. \/ handled[c].id \in forfeited
        \/ Kept(ledger, c) /\ (handled[c].id \in recent \/ Kept(Recoverable, c))
        BY <1>9, <2>1 DEF KeptInv
  <2>6. QED  BY <1>5, <1>10, <2>1, <2>3, <2>4, <2>5
<1>12. Kept(ledger, b)' /\ (handled'[b].id \in recent' \/ Kept(Recoverable, b)')
  <2>1. DueKey(b)' = KeyFor(b, t)
    <3>1. handled'[b].at = t
          BY <1>7, <1>4
    <3>2. QED  BY <3>1 DEF DueKey, KeyFor
  <2>2. job.back /\ ~job.dup
        BY <1>1 DEF Journal, Returned, CountingInv
  <2>3. CASE ~Record[b].counted
        BY <2>3 DEF Kept
  <2>4. CASE Record[b].counted
    <3>1. PICK d \in job.deltas : d.chunk = b /\ d.key = KeyFor(b, t)
          BY <1>1, <1>3, <1>4, <2>2, <2>4 DEF CountingInv
    <3>2. PICK e : e \in entries /\ e.delta.chunk = b /\ e.delta.key = DueKey(b)'
      <4>1. [id |-> lines + 1, delta |-> d] \in entries
            BY <3>1
      <4>2. QED  BY <2>1, <3>1, <4>1
    <3>3. Kept(ledger, b)'
          BY <1>5, <3>2 DEF Kept
    <3>4. CASE ~settled
          BY <1>7, <3>3, <3>4 DEF Journal
    <3>5. CASE settled
      <4>1. ~torn /\ ckpt.seq <= seq
            BY <3>5 DEF Durable
      <4>2. line \in journal'
            BY <4>1 DEF Journal
      <4>3. line.seq > ckpt'.seq /\ line.entries = entries
            BY <1>5, <1>8, <4>1
      <4>4. line \in Replayed'
            BY <4>2, <4>3 DEF Replayed
      <4>5. e \in Recoverable'
            BY <3>2, <4>3, <4>4 DEF Recoverable
      <4>6. QED  BY <3>2, <3>3, <4>5 DEF Kept
    <3>6. QED  BY <3>4, <3>5
  <2>5. QED  BY <2>3, <2>4
<1>13. \A c \in Chunk : handled'[c].id # 0 =>
          \/ handled'[c].id \in forfeited'
          \/ Kept(ledger, c)' /\ (handled'[c].id \in recent' \/ Kept(Recoverable, c)')
       BY <1>11, <1>12
<1>14. QED  BY <1>9, <1>13 DEF KeptInv, Handled, Up

LEMMA KeptNext ==
  TypeInv /\ Durable /\ CountingInv /\ KeptInv /\ [Next]_vars => KeptInv'
<1> SUFFICES ASSUME TypeInv, Durable, CountingInv, KeptInv, [Next]_vars PROVE KeptInv'
    OBVIOUS
<1>1. ASSUME NEW c \in Chunk, Stamp(c)
      PROVE  KeptInv'
      BY <1>1, KeptStill DEF Stamp, env, disk, history, Up, Recoverable, Replayed
<1>2. ASSUME NEW c \in Chunk, Ack(c) \/ AckLost(c)
      PROVE  KeptInv'
      BY <1>2, KeptStill DEF Ack, AckLost, env, disk, history, Up, Recoverable, Replayed
<1>3. CASE ReturnAccepted \/ ReturnRefused
      BY <1>3, KeptStill
      DEF ReturnAccepted, ReturnRefused, disk, history, Up, Recoverable, Replayed, KeptInv
<1>4. CASE Journal
      BY <1>4, KeptJournal
<1>5. CASE JournalFails
      BY <1>5, KeptStill DEF JournalFails, env, disk, Up, Recoverable, Replayed
<1>6. CASE PublishBegin
  <2>1. \A e \in ledger : e \in ledger' \/ Past(e.delta.key.start)
        BY <1>6 DEF PublishBegin, Unexpired
  <2>2. QED
        BY <1>6, <2>1, KeptStill
        DEF PublishBegin, env, disk, history, Up, Recoverable, Replayed
<1>7. CASE Published \/ PublishFails \/ CheckpointSkipped \/ Close
      BY <1>7, KeptStill
      DEF Published, PublishFails, CheckpointSkipped, Close, env, disk, history, Up,
          Recoverable, Replayed
<1>8. CASE CheckpointWrite
  <2>1. ledger \subseteq Recoverable'
        BY <1>8 DEF CheckpointWrite, Recoverable
  <2>2. Up /\ Up' /\ UNCHANGED <<now, handled, forfeited, recent, ledger, job>>
        BY <1>8 DEF CheckpointWrite, Up, env, history
  <2>3. \A c \in Chunk : DueKey(c)' = DueKey(c)
                         /\ Past(DueKey(c).start)' = Past(DueKey(c).start)
        BY <2>2 DEF DueKey, KeyFor, Past
  <2>4. \A c \in Chunk : Kept(ledger, c) => Kept(ledger, c)' /\ Kept(Recoverable, c)'
        BY <2>1, <2>2, <2>3 DEF Kept
  <2>5. QED  BY <2>2, <2>4 DEF KeptInv, Handled, Up
<1>9. CASE CheckpointTruncate
  <2>1. Up /\ Up' /\ UNCHANGED <<now, handled, forfeited, ledger, ckpt, job>>
        BY <1>9 DEF CheckpointTruncate, Up, env
  <2>2. ledger \subseteq Recoverable'
        BY <1>9, <2>1 DEF CheckpointTruncate, Durable, Recoverable
  <2>3. \A c \in Chunk : DueKey(c)' = DueKey(c)
                         /\ Past(DueKey(c).start)' = Past(DueKey(c).start)
        BY <2>1 DEF DueKey, KeyFor, Past
  <2>4. \A c \in Chunk : Kept(ledger, c) => Kept(ledger, c)' /\ Kept(Recoverable, c)'
        BY <2>1, <2>2, <2>3 DEF Kept
  <2>5. QED  BY <2>1, <2>4 DEF KeptInv, Handled, Up
<1>10. CASE Exit \/ Crash
  <2>1. forfeited' = forfeited \cup recent /\ recent' = {} /\ job' = None /\ ~Up'
        /\ UNCHANGED <<now, handled, ckpt, journal>>
        BY <1>10 DEF Exit, Crash, MemoryLost, Up, env, disk
  <2>2. \A c \in Chunk : DueKey(c)' = DueKey(c)
                         /\ Past(DueKey(c).start)' = Past(DueKey(c).start)
        BY <2>1 DEF DueKey, KeyFor, Past
  <2>3. Recoverable' = Recoverable
        BY <2>1 DEF Recoverable, Replayed
  <2>4. \A c \in Chunk : Kept(Recoverable, c) => Kept(Recoverable, c)'
        BY <2>2, <2>3 DEF Kept
  <2>5. QED  BY <2>1, <2>4 DEF KeptInv, Handled
<1>11. CASE Load
  <2>1. recent = {} /\ recent' = {} /\ job' = job /\ ledger' = Recoverable /\ Up'
        /\ UNCHANGED <<now, handled, forfeited, ckpt, journal>>
        BY <1>11 DEF Load, KeptInv, Up, env, disk, history
  <2>2. \A c \in Chunk : DueKey(c)' = DueKey(c)
                         /\ Past(DueKey(c).start)' = Past(DueKey(c).start)
        BY <2>1 DEF DueKey, KeyFor, Past
  <2>3. Recoverable' = Recoverable
        BY <2>1 DEF Recoverable, Replayed
  <2>4. \A c \in Chunk : Kept(Recoverable, c) => Kept(ledger, c)' /\ Kept(Recoverable, c)'
        BY <2>1, <2>2, <2>3 DEF Kept
  <2>5. QED  BY <2>1, <2>4 DEF KeptInv, Handled, Up
<1>12. CASE Tick
  <2>1. now \in Int /\ now' = now + 1 /\ Horizon \in Int
        /\ UNCHANGED <<handled, forfeited, recent, ledger, job, ticker, ckpt, journal>>
        BY <1>12, BoundsAssumption
        DEF Tick, TypeInv, TypeOK, EnvTypeOK, Time, memory, disk, history
  <2>2. ASSUME NEW c \in Chunk, Handled(c), Past(DueKey(c).start)
        PROVE  Past(DueKey(c).start)'
    <3>1. DueKey(c)' = DueKey(c)
          BY <2>1 DEF DueKey, KeyFor
    <3>2. DueKey(c).start \in Int
      <4>1. handled[c].at \in Time \cup {Never} /\ Record[c].bucket \in Time
            BY RecordAssumption DEF TypeInv, TypeOK, HistoryTypeOK
      <4>2. QED  BY <4>1, BoundsAssumption DEF DueKey, KeyFor, Time, Never
    <3>3. QED  BY <2>1, <2>2, <3>1, <3>2 DEF Past
  <2>3. \A c \in Chunk : DueKey(c)' = DueKey(c)
        BY <2>1 DEF DueKey, KeyFor
  <2>4. Recoverable' = Recoverable
        BY <2>1 DEF Recoverable, Replayed
  <2>5. \A c \in Chunk : Handled(c) =>
          (Kept(ledger, c) => Kept(ledger, c)') /\ (Kept(Recoverable, c) => Kept(Recoverable, c)')
        BY <2>1, <2>2, <2>3, <2>4 DEF Kept
  <2>6. QED  BY <2>1, <2>5 DEF KeptInv, Handled, Up
<1>13. CASE UNCHANGED vars
       BY <1>13, KeptStill DEF vars, env, memory, disk, history, Up, Recoverable, Replayed
<1>14. QED
       BY <1>1, <1>2, <1>3, <1>4, <1>5, <1>6, <1>7, <1>8, <1>9, <1>10, <1>11, <1>12,
          <1>13 DEF Next

\* An acknowledged record is in the ledger of every running process, in the
\* bucket it is due in, until that bucket expires; a lost acknowledgement, a
\* resent chunk, a torn line and a crash change nothing of it.
THEOREM AckedIsCounted == Spec => []AckedMeansCounted
<1> DEFINE Inv == TypeInv /\ Durable /\ HandledInv /\ CountingInv /\ KeptInv
<1>1. Inv => AckedMeansCounted
      BY DEF TypeInv, TypeOK, EnvTypeOK, HandledInv, KeptInv, Kept, Counted,
             AckedMeansCounted
<1>2. Init => Inv
      BY TypeInit, DurableInit, HandledInit
<1>3. Inv /\ [Next]_vars => Inv'
      BY TypeNext, DurableNext, HandledNext, CountingNext, KeptNext
<1>4. QED  BY <1>1, <1>2, <1>3, PTL DEF Spec
=============================================================================
