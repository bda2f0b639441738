------------------------ MODULE StamperCatalogProofs ------------------------
(***************************************************************************)
(* What the stamper has nothing more to send of is in the catalog, for     *)
(* every value of its constants.  The invariants follow a publication on   *)
(* its way: while it is sent, what it is made of is what the ledger has,   *)
(* but for what has become dirty since.                                    *)
(***************************************************************************)
EXTENDS StamperLedgerProofs

Sending == ticker = "sending"

(***************************************************************************)
(* Definitions.                                                            *)
(***************************************************************************)
VersionInv ==
  /\ CleanVersionIsCatalogued
  /\ \A v \in dirtyVersions : facts[v] # {}
  /\ Sending => \A v \in pub.versions : pub.facts[v] # {}

LEMMA VersionInit == Init => VersionInv
BY DEF Init, VersionInv, CleanVersionIsCatalogued, NoFacts, Sending

LEMMA VersionStamp ==
  ASSUME TypeInv, VersionInv, NEW c \in Chunk, Stamp(c)
  PROVE  VersionInv'
<1>1. /\ UNCHANGED <<catalog, pub, ticker>>
      /\ dirtyVersions' = dirtyVersions \cup {w \in Version : facts'[w] # facts[w]}
      BY DEF Stamp
<1>2. \A w \in Version : facts[w] \subseteq facts'[w]
      BY DEF Stamp, Defined, TypeInv, TypeOK, LedgerTypeOK
<1>3. dirtyVersions \subseteq Version
      BY DEF TypeInv, TypeOK, LedgerTypeOK
<1>4. QED  BY <1>1, <1>2, <1>3 DEF VersionInv, CleanVersionIsCatalogued, Sending

LEMMA VersionNext ==
  ASSUME TypeInv, VersionInv, [Next]_vars
  PROVE  VersionInv'
<1>1. ASSUME NEW c \in Chunk, Stamp(c)
      PROVE  VersionInv'
      BY <1>1, VersionStamp
<1>2. ASSUME NEW c \in Chunk, Ack(c) \/ AckLost(c)
      PROVE  VersionInv'
      BY <1>2 DEF Ack, AckLost, VersionInv, CleanVersionIsCatalogued, Sending
<1>3. CASE ReturnAccepted \/ ReturnRefused \/ Journal \/ JournalFails
      BY <1>3 DEF ReturnAccepted, ReturnRefused, Journal, JournalFails, VersionInv,
                  CleanVersionIsCatalogued, Sending
<1>4. CASE PublishBegin
  <2>1. /\ UNCHANGED <<facts, dirtyVersions, catalog>> /\ pub'.versions = dirtyVersions
        /\ \A v \in Version : v \in dirtyVersions => pub'.facts[v] = facts[v]
        BY <1>4 DEF PublishBegin
  <2>2. dirtyVersions \subseteq Version
        BY DEF TypeInv, TypeOK, LedgerTypeOK
  <2>3. QED  BY <2>1, <2>2 DEF VersionInv, CleanVersionIsCatalogued
<1>5. CASE Published \/ PublishFails
  <2>1. /\ UNCHANGED facts /\ ~Sending' /\ Sending
        /\ dirtyVersions' \in {dirtyVersions, dirtyVersions \ pub.versions}
        BY <1>5 DEF Published, PublishFails, Sending
  <2>2. \A v \in Version : catalog.facts[v] \subseteq catalog'.facts[v]
        BY <1>5 DEF Published, PublishFails, Accepted, Upserted
  <2>3. dirtyVersions' = dirtyVersions \/ \A v \in (pub.versions \cap Version) \ Overlong :
                                           pub.facts[v] \subseteq catalog'.facts[v]
        BY <1>5 DEF Published, PublishFails, Accepted, Upserted
  <2>4. QED  BY <2>1, <2>2, <2>3 DEF VersionInv, CleanVersionIsCatalogued
<1>6. CASE CheckpointWrite
  <2>1. /\ UNCHANGED <<dirtyVersions, pub, catalog>> /\ ~Sending'
        /\ \A v \in Version : facts'[v] \in {facts[v], {}}
        /\ \A v \in Version : v \in dirtyVersions => facts'[v] = facts[v]
        BY <1>6 DEF CheckpointWrite, Sending
  <2>2. dirtyVersions \subseteq Version
        BY DEF TypeInv, TypeOK, LedgerTypeOK
  <2>3. QED  BY <2>1, <2>2 DEF VersionInv, CleanVersionIsCatalogued
<1>7. CASE CheckpointTruncate \/ CheckpointSkipped \/ Close
      BY <1>7 DEF CheckpointTruncate, CheckpointSkipped, Close, VersionInv,
                  CleanVersionIsCatalogued, Sending
<1>8. CASE Exit \/ Crash
      BY <1>8 DEF Exit, Crash, MemoryLost, NoFacts, VersionInv, CleanVersionIsCatalogued, Sending
<1>9. CASE Load
      BY <1>9 DEF Load, RecoveredVersions, VersionInv, CleanVersionIsCatalogued, Sending
<1>10. CASE Tick \/ UNCHANGED vars
       BY <1>10 DEF Tick, vars, memory, VersionInv, CleanVersionIsCatalogued, Sending
<1>11. QED
       BY <1>1, <1>2, <1>3, <1>4, <1>5, <1>6, <1>7, <1>8, <1>9, <1>10 DEF Next

\* A version the stamper has a row of and nothing to send of is in the catalog, unless
\* its template is too long for a definition, across publications that fail, items
\* that are rejected, crashes and pruning.
THEOREM CleanVersionsAreCatalogued == Spec => []CleanVersionIsCatalogued
<1>1. VersionInv => CleanVersionIsCatalogued
      BY DEF VersionInv
<1>2. Init => TypeInv /\ VersionInv
      BY TypeInit, VersionInit
<1>3. TypeInv /\ VersionInv /\ [Next]_vars => (TypeInv /\ VersionInv)'
      BY TypeNext, VersionNext
<1>4. QED  BY <1>1, <1>2, <1>3, PTL DEF Spec

(***************************************************************************)
(* Buckets.                                                                *)
(***************************************************************************)
FineClean ==
  \A e \in ledger : \/ e.delta.key \in dirty
                    \/ Past(e.delta.key.start)
                    \/ Bucket(ledger, e.delta.key) = catalog.fine[e.delta.key]

CoarseClean ==
  \A e \in ledger :
    \/ \E k \in dirty : HourOf(k) = HourOf(e.delta.key)
    \/ Past(HourOf(e.delta.key).start * Span)
    \/ CoarseCounts(ledger, HourOf(e.delta.key)) = catalog.coarse[HourOf(e.delta.key)]

\* What is being sent is still dirty, and its hours are as the ledger has them but for
\* other dirty buckets.
InTransit ==
  Sending =>
    /\ pub.keys \subseteq dirty
    /\ \A k \in Key : HourOf(k) \in PubHours =>
         k \in dirty \/ Bucket(ledger, k) = Bucket(pub.entries, k)

CatalogInv == FineClean /\ CoarseClean /\ InTransit

LEMMA HourStart ==
  ASSUME NEW n \in Nat
  PROVE  (n \div Span) * Span \in Nat /\ (n \div Span) * Span <= n
<1>1. Span \in Nat \ {0}
      BY BoundsAssumption
<1> DEFINE q == n \div Span
           r == n % Span
<1>2. q \in Int /\ r \in 0 .. Span - 1 /\ n = Span * q + r
      BY <1>1
<1> HIDE DEF q, r
<1>3. q >= 0
  <2>1. SUFFICES ASSUME q <= -1 PROVE FALSE
        BY <1>2
  <2>2. Span * q <= -Span
        BY <1>1, <1>2, <2>1
  <2>3. QED  BY <1>1, <1>2, <2>2
<1>4. q * Span \in Nat /\ q * Span <= n
      BY <1>1, <1>2, <1>3
<1>5. QED  BY <1>4 DEF q

LEMMA CatalogTypes ==
  ASSUME TypeInv
  PROVE  /\ now \in Nat /\ Horizon \in Nat
         /\ ledger \subseteq Entry /\ dirty \subseteq Key
         /\ \A e \in Entry : e.delta.key \in Key
         /\ \A k \in Key : /\ k.start \in Nat
                           /\ HourOf(k).start * Span \in Nat
                           /\ HourOf(k).start * Span <= k.start
<1>1. now \in Nat /\ Horizon \in Nat /\ ledger \subseteq Entry
      BY NumberTypes
<1>2. dirty \subseteq Key
      BY DEF TypeInv, TypeOK, LedgerTypeOK
<1>3. \A e \in Entry : e.delta.key \in Key
      BY DEF Entry, Delta
<1>4. \A k \in Key : k.start \in Nat
      BY BoundsAssumption DEF Key, Time
<1>5. \A k \in Key : HourOf(k).start * Span \in Nat /\ HourOf(k).start * Span <= k.start
      BY <1>4, HourStart DEF HourOf
<1>6. QED  BY <1>1, <1>2, <1>3, <1>4, <1>5

LEMMA HourType ==
  ASSUME NEW k \in Key
  PROVE  HourOf(k) \in Hour
<1>1. Span \in Nat \ {0} /\ MaxTime \in Nat /\ k.start \in 0 .. MaxTime /\ k.late \in BOOLEAN
      BY BoundsAssumption DEF Key, Time
<1> DEFINE q == k.start \div Span
           r == k.start % Span
<1>2. q \in Int /\ r \in 0 .. Span - 1 /\ k.start = Span * q + r
      BY <1>1
<1> HIDE DEF q, r
<1>3. q >= 0
  <2>1. SUFFICES ASSUME q <= -1 PROVE FALSE
        BY <1>2
  <2>2. Span * q <= -Span
        BY <1>1, <1>2, <2>1
  <2>3. QED  BY <1>1, <1>2, <2>2
<1>4. q <= k.start
  <2>1. Span * q >= q
        BY <1>1, <1>2, <1>3
  <2>2. QED  BY <1>1, <1>2, <2>1
<1>5. q \in 0 .. MaxTime
      BY <1>1, <1>2, <1>3, <1>4
<1>6. QED  BY <1>1, <1>5 DEF q, HourOf, Hour, Time

\* An hour is the union of its buckets.
LEMMA HourOfBuckets ==
  ASSUME NEW S, NEW T, NEW h, \A e \in S \cup T : e.delta.key \in Key,
         \A k \in Key : HourOf(k) = h => Bucket(S, k) = Bucket(T, k)
  PROVE  CoarseCounts(S, h) = CoarseCounts(T, h)
BY DEF CoarseCounts, Bucket

LEMMA CatalogInit == Init => CatalogInv
BY DEF Init, CatalogInv, FineClean, CoarseClean, InTransit, Sending

LEMMA CatalogKept ==
  ASSUME CatalogInv, UNCHANGED <<now, ledger, dirty, catalog>>,
         ~Sending' \/ UNCHANGED <<ticker, pub>>
  PROVE  CatalogInv'
BY SameCounts DEF CatalogInv, FineClean, CoarseClean, InTransit, Sending, PubHours, Past

LEMMA CatalogJournal ==
  ASSUME TypeInv, CatalogInv, Journal
  PROVE  CatalogInv'
<1> DEFINE entries == {[id |-> lines + 1, delta |-> d] : d \in job.deltas}
           keys == {d.key : d \in job.deltas}
<1>1. /\ ledger' = ledger \cup entries /\ dirty' = dirty \cup keys
      /\ UNCHANGED <<now, catalog, ticker, pub>>
      BY DEF Journal, env
<1>2. \A e \in entries : e.delta.key \in keys
      OBVIOUS
<1> HIDE DEF entries, keys
<1>3. \A k \in Key \ dirty' : Bucket(ledger', k) = Bucket(ledger, k)
      BY <1>1, <1>2 DEF Bucket
<1>4. FineClean'
  <2> SUFFICES ASSUME NEW e \in ledger', e.delta.key \notin dirty'
               PROVE  Past(e.delta.key.start)' \/ Bucket(ledger', e.delta.key) = catalog'.fine[e.delta.key]
      BY DEF FineClean
  <2>1. e \in ledger
        BY <1>1, <1>2
  <2>2. Bucket(ledger', e.delta.key) = Bucket(ledger, e.delta.key)
        BY <1>3, <2>1, CatalogTypes
  <2>3. QED  BY <1>1, <2>1, <2>2 DEF CatalogInv, FineClean, Past
<1>5. CoarseClean'
  <2> SUFFICES ASSUME NEW e \in ledger',
                      \A k \in dirty' : HourOf(k) # HourOf(e.delta.key)
               PROVE  \/ Past(HourOf(e.delta.key).start * Span)'
                      \/ CoarseCounts(ledger', HourOf(e.delta.key)) = catalog'.coarse[HourOf(e.delta.key)]
      BY DEF CoarseClean
  <2>1. e \in ledger
        BY <1>1, <1>2
  <2>2. CoarseCounts(ledger', HourOf(e.delta.key)) = CoarseCounts(ledger, HourOf(e.delta.key))
        BY <1>1, <1>2 DEF CoarseCounts
  <2>3. QED  BY <1>1, <2>1, <2>2 DEF CatalogInv, CoarseClean, Past
<1>6. InTransit'
      BY <1>1, <1>3 DEF CatalogInv, InTransit, Sending, PubHours
<1>7. QED  BY <1>4, <1>5, <1>6 DEF CatalogInv

LEMMA CatalogBegin ==
  ASSUME TypeInv, CatalogInv, PublishBegin
  PROVE  CatalogInv'
<1>1. /\ ledger' = Unexpired(ledger) /\ dirty' = DirtyLeft
      /\ pub'.keys = Filled(ledger', dirty') /\ pub'.entries = Snapshot(ledger', dirty')
      /\ UNCHANGED <<now, catalog>>
      BY DEF PublishBegin, env
<1>2. \A k \in Key : ~Past(k.start) => Bucket(ledger', k) = Bucket(ledger, k)
      BY <1>1 DEF Unexpired, Bucket
<1>3. FineClean'
  <2> SUFFICES ASSUME NEW e \in ledger', e.delta.key \notin dirty'
               PROVE  Bucket(ledger', e.delta.key) = catalog'.fine[e.delta.key]
      BY DEF FineClean
  <2>1. e \in ledger /\ ~Past(e.delta.key.start) /\ e.delta.key \in Key
        BY <1>1, CatalogTypes DEF Unexpired
  <2>2. e.delta.key \notin dirty
        BY <1>1, <2>1 DEF DirtyLeft
  <2>3. QED  BY <1>1, <1>2, <2>1, <2>2 DEF CatalogInv, FineClean
<1>4. ASSUME NEW k \in Key, ~Past(HourOf(k).start * Span)
      PROVE  \A j \in Key : HourOf(j) = HourOf(k) => ~Past(j.start)
      BY <1>4, CatalogTypes DEF Past
<1>5. CoarseClean'
  <2> SUFFICES ASSUME NEW e \in ledger',
                      \A k \in dirty' : HourOf(k) # HourOf(e.delta.key),
                      ~Past(HourOf(e.delta.key).start * Span)
               PROVE  CoarseCounts(ledger', HourOf(e.delta.key)) = catalog'.coarse[HourOf(e.delta.key)]
      BY <1>1 DEF CoarseClean, Past
  <2>1. e \in ledger /\ e.delta.key \in Key
        BY <1>1, CatalogTypes DEF Unexpired
  <2>2. \A j \in Key : HourOf(j) = HourOf(e.delta.key) => ~Past(j.start)
        BY <1>4, <2>1
  <2>3. \A k \in dirty : HourOf(k) # HourOf(e.delta.key)
        BY <1>1, <2>2, CatalogTypes DEF DirtyLeft
  <2>4. CoarseCounts(ledger', HourOf(e.delta.key)) = CoarseCounts(ledger, HourOf(e.delta.key))
        BY <1>1, <2>2, CatalogTypes DEF CoarseCounts, Unexpired
  <2>5. QED  BY <1>1, <2>1, <2>3, <2>4 DEF CatalogInv, CoarseClean
<1>6. InTransit'
  <2>1. \A k \in Key : HourOf(k) \in PubHours' => Bucket(ledger', k) = Bucket(pub'.entries, k)
        BY <1>1 DEF PubHours, Bucket, Snapshot, Filled
  <2>2. QED  BY <1>1, <2>1 DEF InTransit, Filled
<1>7. QED  BY <1>3, <1>5, <1>6 DEF CatalogInv

LEMMA CatalogPublished ==
  ASSUME TypeInv, CatalogInv, Published
  PROVE  CatalogInv'
<1>1. /\ UNCHANGED <<now, ledger>> /\ dirty' = dirty \ Unchanged /\ Sending /\ ~Sending'
      /\ catalog' = Accepted
      BY DEF Published, env, Sending
<1>2. \A k \in Key : catalog'.fine[k] = IF k \in pub.keys THEN Bucket(pub.entries, k)
                                       ELSE catalog.fine[k]
      BY <1>1 DEF Accepted, Upserted
<1>3. \A h \in Hour : catalog'.coarse[h] = IF h \in PubHours THEN CoarseCounts(pub.entries, h)
                                          ELSE catalog.coarse[h]
      BY <1>1 DEF Accepted, Upserted
<1>4. pub \in Publication /\ \A e \in ledger \cup pub.entries : e.delta.key \in Key
      BY <1>1, CatalogTypes DEF TypeInv, TypeOK, TimerTypeOK, Sending, Publication
<1>5. FineClean'
  <2> SUFFICES ASSUME NEW e \in ledger, e.delta.key \notin dirty'
               PROVE  Past(e.delta.key.start) \/ Bucket(ledger, e.delta.key) = catalog'.fine[e.delta.key]
      BY <1>1 DEF FineClean, Past
  <2>1. CASE e.delta.key \in pub.keys
    <3>1. e.delta.key \in Unchanged
          BY <1>1, <2>1 DEF CatalogInv, InTransit
    <3>2. QED  BY <1>2, <1>4, <2>1, <3>1 DEF Unchanged
  <2>2. CASE e.delta.key \notin pub.keys
    <3>1. e.delta.key \notin dirty
          BY <1>1, <2>2 DEF Unchanged
    <3>2. QED  BY <1>2, <1>4, <2>2, <3>1 DEF CatalogInv, FineClean
  <2>3. QED  BY <2>1, <2>2
<1>6. CoarseClean'
  <2> SUFFICES ASSUME NEW e \in ledger,
                      \A k \in dirty' : HourOf(k) # HourOf(e.delta.key)
               PROVE  \/ Past(HourOf(e.delta.key).start * Span)
                      \/ CoarseCounts(ledger, HourOf(e.delta.key)) = catalog'.coarse[HourOf(e.delta.key)]
      BY <1>1 DEF CoarseClean, Past
  <2> DEFINE h == HourOf(e.delta.key)
  <2>1. h \in Hour
        BY <1>4, HourType
  <2>2. CASE h \in PubHours
    <3>1. \A k \in Key : HourOf(k) = h => Bucket(ledger, k) = Bucket(pub.entries, k)
          BY <1>1, <2>2 DEF CatalogInv, InTransit, Unchanged
    <3>2. CoarseCounts(ledger, h) = CoarseCounts(pub.entries, h)
          BY <1>4, <3>1, HourOfBuckets
    <3>3. QED  BY <1>3, <2>1, <2>2, <3>2
  <2>3. CASE h \notin PubHours
    <3>1. \A k \in dirty : HourOf(k) # h
          BY <1>1, <2>3 DEF PubHours, Unchanged
    <3>2. QED  BY <1>3, <2>1, <2>3, <3>1 DEF CatalogInv, CoarseClean
  <2>4. QED  BY <2>2, <2>3
<1>7. QED  BY <1>1, <1>5, <1>6 DEF CatalogInv, InTransit

LEMMA CatalogFails ==
  ASSUME TypeInv, CatalogInv, PublishFails
  PROVE  CatalogInv'
<1>1. UNCHANGED <<now, ledger, dirty>> /\ Sending /\ ~Sending'
      BY DEF PublishFails, env, Sending
<1>2. pub.keys \subseteq dirty /\ \A h \in PubHours : \E k \in dirty : HourOf(k) = h
      BY <1>1 DEF CatalogInv, InTransit, PubHours
<1>3. \A k \in Key \ pub.keys : catalog'.fine[k] = catalog.fine[k]
      BY DEF PublishFails, Accepted, Upserted
<1>4. \A h \in Hour \ PubHours : catalog'.coarse[h] = catalog.coarse[h]
      BY DEF PublishFails, Accepted, Upserted
<1>5. \A e \in ledger : e.delta.key \in Key /\ HourOf(e.delta.key) \in Hour
      BY CatalogTypes, HourType
<1>6. FineClean'
      BY <1>1, <1>2, <1>3, <1>5 DEF CatalogInv, FineClean, Past
<1>7. CoarseClean'
      BY <1>1, <1>2, <1>4, <1>5 DEF CatalogInv, CoarseClean, Past
<1>8. InTransit'
      BY <1>1 DEF InTransit
<1>9. QED  BY <1>6, <1>7, <1>8 DEF CatalogInv

LEMMA CatalogTick ==
  ASSUME TypeInv, CatalogInv, Tick
  PROVE  CatalogInv'
<1>1. UNCHANGED <<ledger, dirty, catalog, pub, ticker>> /\ now' = now + 1
      BY DEF Tick, memory
<1>2. \A n \in Nat : Past(n) => Past(n)'
      BY <1>1, CatalogTypes DEF Past
<1>3. FineClean'
      BY <1>1, <1>2, CatalogTypes DEF CatalogInv, FineClean
<1>4. CoarseClean'
      BY <1>1, <1>2, CatalogTypes DEF CatalogInv, CoarseClean
<1>5. InTransit'
      BY <1>1 DEF CatalogInv, InTransit, Sending, PubHours
<1>6. QED  BY <1>3, <1>4, <1>5 DEF CatalogInv

LEMMA CatalogNext ==
  ASSUME TypeInv, CatalogInv, [Next]_vars
  PROVE  CatalogInv'
<1>1. ASSUME NEW c \in Chunk, Stamp(c) \/ Ack(c) \/ AckLost(c)
      PROVE  CatalogInv'
      BY <1>1, CatalogKept DEF Stamp, Ack, AckLost, env
<1>2. CASE ReturnAccepted \/ ReturnRefused \/ JournalFails
      BY <1>2, CatalogKept DEF ReturnAccepted, ReturnRefused, JournalFails, env
<1>3. CASE CheckpointWrite \/ CheckpointTruncate \/ CheckpointSkipped \/ Close
      BY <1>3, CatalogKept DEF CheckpointWrite, CheckpointTruncate, CheckpointSkipped, Close,
                               env, Sending
<1>4. CASE UNCHANGED vars
      BY <1>4, CatalogKept DEF vars, env, memory
<1>5. CASE Exit \/ Crash
      BY <1>5 DEF Exit, Crash, MemoryLost, CatalogInv, FineClean, CoarseClean, InTransit, Sending
<1>6. CASE Load
  <2>1. ledger' = Recoverable /\ dirty' = RecoveredKeys /\ ~Sending'
        BY <1>6 DEF Load, Sending
  <2>2. \A e \in ledger' : e.delta.key \in dirty'
        BY <2>1 DEF RecoveredKeys
  <2>3. QED  BY <2>1, <2>2 DEF CatalogInv, FineClean, CoarseClean, InTransit
<1>7. QED
      BY <1>1, <1>2, <1>3, <1>4, <1>5, <1>6, CatalogJournal, CatalogBegin, CatalogPublished,
         CatalogFails, CatalogTick DEF Next

\* A bucket the stamper has nothing more to send of is in the catalog exactly as the
\* ledger has it, and its hour too, whatever is counted while a publication is on its way
\* and whichever of its items are taken.
THEOREM CleanBucketsArePublished == Spec => []CleanBucketIsPublished
<1>1. CatalogInv => CleanBucketIsPublished
      BY DEF CatalogInv, FineClean, CoarseClean, CleanBucketIsPublished
<1>2. Init => TypeInv /\ CatalogInv
      BY TypeInit, CatalogInit
<1>3. TypeInv /\ CatalogInv /\ [Next]_vars => (TypeInv /\ CatalogInv)'
      BY TypeNext, CatalogNext
<1>4. QED  BY <1>1, <1>2, <1>3, PTL DEF Spec

-----------------------------------------------------------------------------
(***************************************************************************)
(* What a publication does to what was published before it, for every      *)
(* value of the constants of the stamper: its watermark covers the counts  *)
(* it has passed, and its documents take no count back.                    *)
(***************************************************************************)
LEMMA HeldTypes ==
  ASSUME TypeInv
  PROVE  /\ now \in Nat /\ catalog.mark \in Nat /\ Held \subseteq Entry /\ ledger \subseteq Entry
         /\ Sending => pub.through \in Nat
         /\ job # None => \A d \in job.deltas : d.at \in Nat
         /\ \A e \in Entry : e.delta.at \in Nat /\ e.delta.key \in Key /\ e.delta.key.start \in Nat
<1> USE BoundsAssumption DEF TypeInv, TypeOK
<1>1. now \in Nat /\ Held \subseteq Entry /\ ledger \subseteq Entry
      BY NumberTypes DEF Held, Lasting
<1>2. catalog.mark \in Nat
      BY DEF Catalog, Time
<1>3. Sending => pub.through \in Nat
      BY DEF TimerTypeOK, Publication, Time, Sending
<1>4. job # None => \A d \in job.deltas : d.at \in Nat
      BY DEF HandlerTypeOK, Job, Delta, Time
<1>5. \A e \in Entry : e.delta.at \in Nat /\ e.delta.key \in Key /\ e.delta.key.start \in Nat
      BY DEF Entry, Delta, Key, Time
<1>6. QED  BY <1>1, <1>2, <1>3, <1>4, <1>5

(***************************************************************************)
(* The watermark.  A count is covered when it came after the watermark, or *)
(* its bucket did, or its document has it.                                 *)
(***************************************************************************)
After(e, mark) == e.delta.at >= mark \/ e.delta.key.start >= mark

Covered == \A e \in Held : After(e, catalog.mark) \/ e \in catalog.fine[e.delta.key]

\* What the handler is about to count came after the watermark, and after the one that
\* is on its way.
Unpassed ==
  job # None => \A d \in job.deltas : /\ d.at >= catalog.mark
                                      /\ Sending => d.at >= pub.through

\* The watermark on its way passes no count that its publication does not carry and the
\* catalog does not have.
Carried ==
  /\ catalog.mark <= now
  /\ Sending =>
       /\ catalog.mark <= pub.through /\ pub.through <= now
       /\ \A e \in Held :
            \/ After(e, pub.through)
            \/ e.delta.key \in pub.keys /\ e \in pub.entries
            \/ e.delta.key \notin pub.keys /\ e \in catalog.fine[e.delta.key]

MarkInv == Covered /\ Unpassed /\ Carried

LEMMA MarkInit == Init => MarkInv
BY DEF Init, MarkInv, Covered, Unpassed, Carried, Held, Lasting, Up, Sending

\* A step that publishes nothing and counts nothing.
LEMMA MarkKept ==
  ASSUME MarkInv, UNCHANGED catalog, now' = now, Held' \subseteq Held,
         job' = None \/ (job # None /\ job'.deltas = job.deltas),
         ~Sending' \/ UNCHANGED <<ticker, pub>>
  PROVE  MarkInv'
<1>1. Covered'
      BY DEF MarkInv, Covered, After
<1>2. Unpassed'
      BY DEF MarkInv, Unpassed, Sending
<1>3. Carried'
      BY DEF MarkInv, Carried, After, Sending
<1>4. QED  BY <1>1, <1>2, <1>3 DEF MarkInv

LEMMA MarkStamp ==
  ASSUME TypeInv, MarkInv, NEW c \in Chunk, Stamp(c)
  PROVE  MarkInv'
<1>1. UNCHANGED <<now, acked, handled, ledger, recent, catalog, pub, ticker, ckpt, journal>>
      BY DEF Stamp, env, disk, history
<1>2. Held' = Held
      BY <1>1, SameCounts DEF Held, Lasting, Up, Recoverable, Replayed
<1>3. \A d \in job'.deltas : d.at = now
  <2> DEFINE delta == [chunk |-> c, at |-> now, key |-> KeyFor(c, now),
                       version |-> <<Record[c].cluster,
                         IF tree[Record[c].cluster] > Record[c].level
                         THEN tree[Record[c].cluster] ELSE Record[c].level>>]
  <2>1. job'.deltas \subseteq {delta} /\ delta.at = now
        BY DEF Stamp
  <2> HIDE DEF delta
  <2>2. QED  BY <2>1
<1>4. Unpassed'
      BY <1>1, <1>3, HeldTypes DEF MarkInv, Carried, Unpassed, Sending
<1>5. Covered' /\ Carried'
      BY <1>1, <1>2 DEF MarkInv, Covered, Carried, After, Sending
<1>6. QED  BY <1>4, <1>5 DEF MarkInv

LEMMA MarkJournal ==
  ASSUME TypeInv, PromiseInv, MarkInv, Journal
  PROVE  MarkInv'
<1> DEFINE entries == {[id |-> lines + 1, delta |-> d] : d \in job.deltas}
<1>1. /\ ledger' = ledger \cup entries /\ UNCHANGED <<now, catalog, ticker, pub>>
      /\ job # None /\ job' = None
      BY DEF Journal, Returned, env
<1>2. Up /\ Up'
      BY <1>1 DEF PromiseInv, Handling, Up
<1>3. Held' \subseteq Held \cup entries
      BY <1>1, <1>2, SameCounts DEF Held, Lasting
<1>4. \A e \in entries : e.delta \in job.deltas
      OBVIOUS
<1>5. \A e \in entries : After(e, catalog.mark) /\ (Sending => After(e, pub.through))
      BY <1>1, <1>4 DEF MarkInv, Unpassed, After
<1> HIDE DEF entries
<1>6. QED  BY <1>1, <1>3, <1>5 DEF MarkInv, Covered, Unpassed, Carried, After, Sending

LEMMA MarkBegin ==
  ASSUME TypeInv, CatalogInv, MarkInv, PublishBegin
  PROVE  MarkInv'
<1>1. /\ ledger' = Unexpired(ledger) /\ dirty' = DirtyLeft
      /\ pub'.keys = Filled(ledger', dirty')
      /\ pub'.entries = Snapshot(ledger', dirty') /\ pub'.through = now
      /\ UNCHANGED <<now, job, catalog>> /\ Up /\ Up' /\ job = None
      BY DEF PublishBegin, env, Up, Through, LockFree
<1>2. Held' = Held /\ Held' = ledger'
      BY <1>1, SameCounts DEF Held, Lasting, Unexpired
<1>3. ASSUME NEW e \in Held'
      PROVE  \/ e.delta.key \in pub'.keys /\ e \in pub'.entries
             \/ e.delta.key \notin pub'.keys /\ e \in catalog'.fine[e.delta.key]
  <2>1. e \in ledger /\ ~Past(e.delta.key.start) /\ e.delta.key \in Key
        BY <1>1, <1>2, <1>3, HeldTypes DEF Unexpired
  <2>2. CASE e.delta.key \in dirty'
        BY <1>1, <1>2, <1>3, <2>1, <2>2 DEF Snapshot, Filled, Bucket
  <2>3. CASE e.delta.key \notin dirty'
    <3>1. e.delta.key \notin dirty
          BY <1>1, <2>1, <2>3 DEF DirtyLeft
    <3>2. e \in catalog.fine[e.delta.key]
          BY <2>1, <3>1 DEF CatalogInv, FineClean, Bucket
    <3>3. QED  BY <1>1, <2>3, <3>2 DEF Filled
  <2>4. QED  BY <2>2, <2>3
<1>4. Covered' /\ Unpassed'
      BY <1>1, <1>2 DEF MarkInv, Covered, Unpassed, After
<1>5. Carried'
      BY <1>1, <1>3, HeldTypes DEF MarkInv, Carried
<1>6. QED  BY <1>4, <1>5 DEF MarkInv

\* The buckets and the watermark that a publication, or a part of it, leaves.
Shows(keys, through) ==
  /\ catalog'.mark = through
  /\ \A k \in Key : catalog'.fine[k] = IF k \in keys THEN Bucket(pub.entries, k)
                                        ELSE catalog.fine[k]

LEMMA ShowsOrNot ==
  ASSUME "mark" \notin Faults, Published \/ PublishFails
  PROVE  \/ catalog' = catalog
         \/ Shows(pub.keys, pub.through)
         \/ \E keys \in SUBSET pub.keys : Shows(keys, catalog.mark)
<1>1. CASE catalog' = Accepted
      BY <1>1 DEF Accepted, Upserted, Shows
<1>2. ASSUME NEW keys \in SUBSET pub.keys, NEW hours \in SUBSET PubHours,
             NEW versions \in SUBSET pub.versions,
             catalog' = Upserted(keys, hours, versions, catalog.mark)
      PROVE  Shows(keys, catalog.mark)
      BY <1>2 DEF Upserted, Shows
<1>3. \/ catalog' = catalog
      \/ catalog' = Accepted
      \/ \E keys \in SUBSET pub.keys, hours \in SUBSET PubHours,
            versions \in SUBSET pub.versions :
           catalog' = Upserted(keys, hours, versions, catalog.mark)
      BY DEF Published, PublishFails
<1>4. QED  BY <1>1, <1>2, <1>3

LEMMA MarkShown ==
  ASSUME "mark" \notin Faults, TypeInv, MarkInv, Published \/ PublishFails
  PROVE  MarkInv'
<1>1. /\ UNCHANGED <<now, acked, handled, ledger, recent, job>> /\ Up /\ Up'
      /\ Sending /\ ~Sending'
      BY DEF Published, PublishFails, env, history, Up, Sending
<1>2. Held' = Held
      BY <1>1, SameCounts DEF Held, Lasting
<1>3. \/ catalog' = catalog
      \/ Shows(pub.keys, pub.through)
      \/ \E keys \in SUBSET pub.keys : Shows(keys, catalog.mark)
      BY ShowsOrNot
<1>4. CASE catalog' = catalog
      BY <1>1, <1>2, <1>4, HeldTypes DEF MarkInv, Covered, Unpassed, Carried, After
<1>5. ASSUME NEW keys \in SUBSET pub.keys, NEW through \in {catalog.mark, pub.through},
             Shows(keys, through),
             through = catalog.mark \/ keys = pub.keys
      PROVE  MarkInv'
  <2>1. /\ catalog'.mark = through
        /\ \A k \in Key : catalog'.fine[k] = IF k \in keys THEN Bucket(pub.entries, k)
                                            ELSE catalog.fine[k]
        BY <1>5 DEF Shows
  <2>2. \A e \in Held : /\ e.delta.key \in Key /\ e.delta.at \in Nat /\ e.delta.key.start \in Nat
        BY HeldTypes
  <2>3. catalog.mark \in Nat /\ pub.through \in Nat /\ now \in Nat
        BY <1>1, HeldTypes
  <2>4. catalog.mark <= pub.through /\ pub.through <= now
        BY <1>1 DEF MarkInv, Carried
  <2>5. ASSUME NEW e \in Held
        PROVE  After(e, through) \/ e \in catalog'.fine[e.delta.key]
    <3>1. CASE After(e, pub.through)
          BY <1>5, <2>2, <2>3, <2>4, <3>1 DEF After
    <3>2. CASE e.delta.key \in pub.keys /\ e \in pub.entries
      <4>1. CASE e.delta.key \in keys
            BY <2>1, <2>2, <3>2, <4>1 DEF Bucket
      <4>2. CASE e.delta.key \notin keys
        <5>1. through = catalog.mark
              BY <1>5, <3>2, <4>2
        <5>2. QED  BY <2>1, <2>2, <4>2, <5>1 DEF MarkInv, Covered
      <4>3. QED  BY <4>1, <4>2
    <3>3. CASE e.delta.key \notin pub.keys /\ e \in catalog.fine[e.delta.key]
          BY <1>5, <2>1, <2>2, <3>3
    <3>4. QED  BY <1>1, <3>1, <3>2, <3>3 DEF MarkInv, Carried
  <2>6. Covered'
        BY <1>2, <2>1, <2>5 DEF Covered, After
  <2>7. Unpassed'
        BY <1>1, <1>5, <2>1 DEF MarkInv, Unpassed
  <2>8. Carried'
        BY <1>1, <1>5, <2>1, <2>3, <2>4 DEF Carried
  <2>9. QED  BY <2>6, <2>7, <2>8 DEF MarkInv
<1>6. QED  BY <1>3, <1>4, <1>5

LEMMA MarkTick ==
  ASSUME TypeInv, MarkInv, Tick
  PROVE  MarkInv'
<1>1. /\ now' = now + 1
      /\ UNCHANGED <<job, ledger, ckpt, journal, ticker, pub, catalog>>
      BY DEF Tick, memory, disk
<1>2. Lasting' = Lasting /\ Lasting \subseteq Entry
      BY <1>1, NumberTypes DEF Lasting, Up, Recoverable, Replayed
<1>3. \A e \in Entry : Past(e.delta.key.start) => Past(e.delta.key.start)'
      BY <1>1, NumberTypes DEF Past
<1>4. Held' \subseteq Held
      BY <1>2, <1>3 DEF Held
<1>5. Covered' /\ Unpassed'
      BY <1>1, <1>4 DEF MarkInv, Covered, Unpassed, After, Sending
<1>6. Carried'
      BY <1>1, <1>4, HeldTypes DEF MarkInv, Carried, After, Sending
<1>7. QED  BY <1>5, <1>6 DEF MarkInv

LEMMA HeldKept ==
  ASSUME UNCHANGED <<now, ledger>>, UNCHANGED <<ticker, ckpt, journal>> \/ (Up /\ Up')
  PROVE  Held' = Held
BY SameCounts DEF Held, Lasting, Up, Recoverable, Replayed

LEMMA HeldLost ==
  ASSUME PromiseInv, Exit \/ Crash
  PROVE  Held' \subseteq Held /\ \A e \in Held : e \in Held' \/ e.id \in forfeited'
<1>1. Promise!Lose
      BY LoseStep
<1>2. forfeited' = forfeited \cup recent
      BY DEF Exit, Crash, MemoryLost
<1>3. QED  BY <1>1, <1>2 DEF Promise!Lose

LEMMA HeldRestarts == Load => Held' = Held
BY RestartStutters DEF Promise!vars

LEMMA MarkNext ==
  ASSUME "mark" \notin Faults, TypeInv, PromiseInv, CatalogInv, MarkInv, [Next]_vars
  PROVE  MarkInv'
<1>1. ASSUME NEW c \in Chunk, Ack(c) \/ AckLost(c)
      PROVE  MarkInv'
      BY <1>1, HeldKept, MarkKept DEF Ack, AckLost, env, disk
<1>2. CASE ReturnAccepted
  <2>1. job \in Job
        BY <1>2 DEF ReturnAccepted, TypeInv, Bounds
  <2>2. job' = None \/ job'.deltas = job.deltas
        BY <1>2, <2>1 DEF ReturnAccepted, Job
  <2>3. job # None /\ UNCHANGED <<now, ledger, ticker, ckpt, journal, pub, catalog>>
        BY <1>2 DEF ReturnAccepted, disk
  <2>4. QED  BY <2>2, <2>3, HeldKept, MarkKept
<1>3. CASE ReturnRefused \/ JournalFails
      BY <1>3, HeldKept, MarkKept DEF ReturnRefused, JournalFails, env, disk
<1>4. CASE CheckpointWrite \/ CheckpointTruncate \/ CheckpointSkipped \/ Close
  <2>1. /\ UNCHANGED <<now, ledger, job, catalog>> /\ Up /\ Up' /\ ~Sending'
        BY <1>4 DEF CheckpointWrite, CheckpointTruncate, CheckpointSkipped, Close, env, Up,
                    Sending
  <2>2. QED  BY <2>1, HeldKept DEF MarkInv, Covered, Unpassed, Carried, After
<1>5. CASE Exit \/ Crash
  <2>1. UNCHANGED <<now, catalog>> /\ job' = None /\ ~Sending'
        BY <1>5 DEF Exit, Crash, MemoryLost, env, Sending
  <2>2. QED  BY <1>5, <2>1, HeldLost, MarkKept
<1>6. CASE Load
  <2>1. UNCHANGED <<now, job, catalog>> /\ ~Sending'
        BY <1>6 DEF Load, env, Sending
  <2>2. QED  BY <1>6, <2>1, HeldRestarts DEF MarkInv, Covered, Unpassed, Carried, After
<1>7. CASE UNCHANGED vars
  <2>1. UNCHANGED <<now, job, ledger, ticker, ckpt, journal, pub, catalog>>
        BY <1>7 DEF vars, env, memory, disk
  <2>2. QED  BY <2>1, HeldKept DEF MarkInv, Covered, Unpassed, Carried, After, Sending
<1>8. QED
      BY <1>1, <1>2, <1>3, <1>4, <1>5, <1>6, <1>7, MarkStamp, MarkJournal, MarkBegin, MarkShown,
         MarkTick DEF Next

\* While a watermark is not stored beside rejected buckets, it covers every record that
\* was counted before it in a bucket it has passed.
THEOREM WatermarkCovers ==
  ASSUME "mark" \notin Faults
  PROVE  Spec => []WatermarkMeansPublished
<1> DEFINE Inv == TypeInv /\ Durable /\ PromiseInv /\ CatalogInv /\ MarkInv
<1>1. Inv => WatermarkMeansPublished
      BY DEF MarkInv, Covered, After, Held, Lasting, WatermarkMeansPublished
<1>2. Init => Inv
      BY TypeInit, DurableInit, PromiseInit, CatalogInit, MarkInit
<1>3. Inv /\ [Next]_vars => Inv'
      BY TypeNext, DurableNext, PromiseNext, CatalogNext, MarkNext
<1>4. QED  BY <1>1, <1>2, <1>3, PTL DEF Spec

(***************************************************************************)
(* The documents.  What a five-minute document shows is held, or its       *)
(* bucket has expired, or it was lost with a process that never saved it.  *)
(***************************************************************************)
Stays(k, e) == Past(k.start) \/ e \in Held \/ e.id \in forfeited

ShownInv ==
  /\ \A k \in Key : \A e \in catalog.fine[k] : e.delta.key = k /\ Stays(k, e)
  /\ Sending =>
       /\ pub.keys \subseteq Key
       /\ \A e \in pub.entries : e.delta.key \in Key /\ Stays(e.delta.key, e)
       /\ \A k \in pub.keys : \A e \in catalog.fine[k] :
            e \in pub.entries \/ e.id \in forfeited

LEMMA ShownInit == Init => ShownInv
BY DEF Init, ShownInv, NoDocs, Sending

\* A step that publishes nothing and takes back no count but one it forfeits.
LEMMA ShownKept ==
  ASSUME ShownInv, UNCHANGED catalog, forfeited \subseteq forfeited',
         \A n \in Nat : Past(n) => Past(n)',
         \A e \in Held : \/ Past(e.delta.key.start)' \/ e \in Held' \/ e.id \in forfeited',
         ~Sending' \/ (Sending /\ UNCHANGED pub)
  PROVE  ShownInv'
<1>1. \A k \in Key : k.start \in Nat
      BY BoundsAssumption DEF Key, Time
<1>2. ASSUME NEW k \in Key, NEW e, e.delta.key = k, Stays(k, e)
      PROVE  Stays(k, e)'
      BY <1>1, <1>2 DEF Stays
<1>3. \A k \in Key : \A e \in catalog'.fine[k] : e.delta.key = k /\ Stays(k, e)'
      BY <1>2 DEF ShownInv
<1>4. CASE ~Sending'
      BY <1>3, <1>4 DEF ShownInv
<1>5. CASE Sending' /\ Sending /\ UNCHANGED pub
      BY <1>2, <1>3, <1>5 DEF ShownInv
<1>6. QED  BY <1>4, <1>5

\* The documents a publication, or a part of it, leaves.
ShowsFine(keys) ==
  \A k \in Key : catalog'.fine[k] = IF k \in keys THEN Bucket(pub.entries, k)
                                     ELSE catalog.fine[k]

LEMMA ShowsSome ==
  ASSUME Published \/ PublishFails
  PROVE  \E keys \in SUBSET pub.keys : ShowsFine(keys)
<1>1. CASE catalog' = catalog
  <2>1. ShowsFine({}) /\ {} \in SUBSET pub.keys
        BY <1>1 DEF ShowsFine
  <2>2. QED  BY <2>1
<1>2. CASE catalog' = Accepted
  <2>1. ShowsFine(pub.keys)
        BY <1>2 DEF Accepted, Upserted, ShowsFine
  <2>2. QED  BY <2>1
<1>3. ASSUME NEW keys \in SUBSET pub.keys, NEW hours \in SUBSET PubHours,
             NEW versions \in SUBSET pub.versions, NEW through,
             catalog' = Upserted(keys, hours, versions, through)
      PROVE  ShowsFine(keys)
      BY <1>3 DEF Upserted, ShowsFine
<1>4. \/ catalog' = catalog
      \/ catalog' = Accepted
      \/ \E keys \in SUBSET pub.keys, hours \in SUBSET PubHours,
            versions \in SUBSET pub.versions,
            through \in {catalog.mark} \cup (IF "mark" \in Faults THEN {pub.through} ELSE {}) :
           catalog' = Upserted(keys, hours, versions, through)
      BY DEF Published, PublishFails
<1>5. QED  BY <1>1, <1>2, <1>3, <1>4

LEMMA ShownBegin ==
  ASSUME TypeInv, ShownInv, PublishBegin
  PROVE  ShownInv'
<1>1. /\ ledger' = Unexpired(ledger) /\ dirty' = DirtyLeft
      /\ pub'.keys = Filled(ledger', dirty') /\ pub'.entries = Snapshot(ledger', dirty')
      /\ UNCHANGED <<now, catalog, forfeited>> /\ Up /\ Up'
      BY DEF PublishBegin, env, history, Up
<1>2. Held' = Held /\ Held' = ledger' /\ Held \subseteq Entry /\ dirty' \subseteq Key
      BY <1>1, SameCounts, HeldTypes, CatalogTypes DEF Held, Lasting, Unexpired, DirtyLeft
<1>3. \A k, e : Stays(k, e)' <=> Stays(k, e)
      BY <1>1, <1>2 DEF Stays, Past
<1>4. \A e \in pub'.entries : e.delta.key \in Key /\ Stays(e.delta.key, e)'
      BY <1>1, <1>2, HeldTypes DEF Snapshot, Filled, Stays
<1>5. ASSUME NEW k \in pub'.keys, NEW e \in catalog'.fine[k]
      PROVE  e \in pub'.entries \/ e.id \in forfeited'
  <2>1. k \in Key /\ ~Past(k.start) /\ e.delta.key = k /\ Stays(k, e)
        BY <1>1, <1>2 DEF ShownInv, DirtyLeft, Filled
  <2>2. QED  BY <1>1, <1>2, <1>5, <2>1 DEF Stays, Snapshot, Filled, Bucket
<1>6. pub'.keys \subseteq Key
      BY <1>1, <1>2 DEF Filled
<1>7. QED  BY <1>1, <1>2, <1>3, <1>4, <1>5, <1>6 DEF ShownInv

LEMMA ShownPublished ==
  ASSUME ShownInv, Published \/ PublishFails
  PROVE  ShownInv'
<1>1. /\ UNCHANGED <<now, ledger, forfeited>> /\ Up /\ Up' /\ Sending /\ ~Sending'
      BY DEF Published, PublishFails, env, history, Up, Sending
<1>2. \A k, e : Stays(k, e)' <=> Stays(k, e)
      BY <1>1, HeldKept DEF Stays, Past
<1>3. PICK keys \in SUBSET pub.keys : ShowsFine(keys)
      BY ShowsSome
<1>4. ASSUME NEW k \in Key, NEW e \in catalog'.fine[k]
      PROVE  e.delta.key = k /\ Stays(k, e)
  <2>1. CASE k \in keys
    <3>1. e \in pub.entries /\ e.delta.key = k
          BY <1>3, <1>4, <2>1 DEF ShowsFine, Bucket
    <3>2. QED  BY <1>1, <3>1 DEF ShownInv
  <2>2. CASE k \notin keys
        BY <1>3, <1>4, <2>2 DEF ShowsFine, ShownInv
  <2>3. QED  BY <2>1, <2>2
<1>5. QED  BY <1>1, <1>2, <1>4 DEF ShownInv

LEMMA ShownNext ==
  ASSUME TypeInv, PromiseInv, ShownInv, [Next]_vars
  PROVE  ShownInv'
<1>0. UNCHANGED now => \A n \in Nat : Past(n) => Past(n)'
      BY DEF Past
<1>1. ASSUME NEW c \in Chunk, Stamp(c) \/ Ack(c) \/ AckLost(c)
      PROVE  ShownInv'
      BY <1>0, <1>1, HeldKept, ShownKept DEF Stamp, Ack, AckLost, env, disk, history, Sending
<1>2. CASE ReturnAccepted \/ ReturnRefused \/ JournalFails
      BY <1>0, <1>2, HeldKept, ShownKept
         DEF ReturnAccepted, ReturnRefused, JournalFails, env, disk, history, Sending
<1>3. CASE Journal
  <2>1. /\ UNCHANGED <<now, catalog, ticker, pub, forfeited>> /\ ledger \subseteq ledger'
        /\ job # None
        BY <1>3 DEF Journal, Returned, env
  <2>2. Up /\ Up'
        BY <2>1 DEF PromiseInv, Handling, Up
  <2>3. Held \subseteq Held'
        BY <2>1, <2>2, SameCounts DEF Held, Lasting
  <2>4. QED  BY <1>0, <2>1, <2>3, ShownKept DEF Sending
<1>4. CASE CheckpointWrite \/ CheckpointTruncate \/ CheckpointSkipped \/ Close
  <2>1. /\ UNCHANGED <<now, ledger, catalog, forfeited>> /\ Up /\ Up' /\ ~Sending'
        BY <1>4 DEF CheckpointWrite, CheckpointTruncate, CheckpointSkipped, Close, env, history,
                    Up, Sending
  <2>2. QED  BY <1>0, <2>1, HeldKept, ShownKept
<1>5. CASE Exit \/ Crash
  <2>1. UNCHANGED <<now, catalog>> /\ forfeited \subseteq forfeited' /\ ~Sending'
        BY <1>5 DEF Exit, Crash, MemoryLost, env, Sending
  <2>2. QED  BY <1>0, <1>5, <2>1, HeldLost, ShownKept
<1>6. CASE Load
  <2>1. UNCHANGED <<now, catalog, forfeited>> /\ ~Sending'
        BY <1>6 DEF Load, env, history, Sending
  <2>2. QED  BY <1>0, <1>6, <2>1, HeldRestarts, ShownKept
<1>7. CASE Tick
  <2>1. /\ UNCHANGED <<ledger, ckpt, journal, ticker, pub, catalog, forfeited>>
        /\ now' = now + 1
        BY <1>7 DEF Tick, memory, disk, history
  <2>2. \A n \in Nat : Past(n) => Past(n)'
        BY <2>1, HeldTypes, CatalogTypes DEF Past
  <2>3. Lasting' = Lasting
        BY <2>1 DEF Lasting, Up, Recoverable, Replayed
  <2>4. \A e \in Held : Past(e.delta.key.start)' \/ e \in Held'
        BY <2>3 DEF Held
  <2>5. QED  BY <2>1, <2>2, <2>4, ShownKept DEF Sending
<1>8. CASE UNCHANGED vars
  <2>1. UNCHANGED <<now, ledger, ticker, ckpt, journal, pub, catalog, forfeited>>
        BY <1>8 DEF vars, env, memory, disk, history
  <2>2. QED  BY <1>0, <2>1, HeldKept, ShownKept DEF Sending
<1>9. QED
      BY <1>1, <1>2, <1>3, <1>4, <1>5, <1>6, <1>7, <1>8, ShownBegin, ShownPublished DEF Next

\* Publishing a bucket again takes none of its counts back, but those of lines that a
\* crash before the first checkpoint lost.
THEOREM RepublishingKeepsCounts == Spec => RepublishKeepsCounts
<1> DEFINE Inv == TypeInv /\ Durable /\ PromiseInv /\ ShownInv
           Keeps == \A k \in Key : \A e \in catalog.fine[k] :
                      e \in catalog'.fine[k] \/ e.id \in forfeited
<1>1. Init => Inv
      BY TypeInit, DurableInit, PromiseInit, ShownInit
<1>2. Inv /\ [Next]_vars => Inv'
      BY TypeNext, DurableNext, PromiseNext, ShownNext
<1>3. ASSUME Inv, [Next]_vars
      PROVE  [Keeps]_catalog
  <2>1. CASE Published \/ PublishFails
    <3>1. PICK keys \in SUBSET pub.keys : ShowsFine(keys)
          BY <2>1, ShowsSome
    <3>2. Sending
          BY <2>1 DEF Published, PublishFails, Sending
    <3>3. QED  BY <1>3, <3>1, <3>2 DEF ShownInv, ShowsFine, Bucket
  <2>2. CASE ~(Published \/ PublishFails)
    <3>1. UNCHANGED catalog
          BY <1>3, <2>2 DEF Next, Stamp, Ack, AckLost, ReturnAccepted, ReturnRefused, Journal,
                            JournalFails, PublishBegin, CheckpointWrite, CheckpointTruncate,
                            CheckpointSkipped, Close, Exit, Crash, Load, Tick, vars
    <3>2. QED  BY <3>1
  <2>3. QED  BY <2>1, <2>2
<1>4. QED  BY <1>1, <1>2, <1>3, PTL DEF Spec, RepublishKeepsCounts
=============================================================================
