------------------------ MODULE StamperLedgerProofs ------------------------
(***************************************************************************)
(* The stamper implements CountLedger, for every value of its constants.   *)
(* What makes it so is that the ledger of a process and what a restart     *)
(* would give back agree on every bucket that has not expired, but for the *)
(* lines written before the first checkpoint of the process.  The second   *)
(* part is that no chunk is counted twice.                                 *)
(***************************************************************************)
EXTENDS StamperLedger, StamperProofs

Counts(e) == ~Past(e.delta.key.start)

\* What a restart gives back is in the ledger, and the ledger is given back but for
\* the lines of `recent', which a settled process has none of.
Agreement ==
  /\ Up => \A e \in Recoverable : Counts(e) => e \in ledger
  /\ Up => \A e \in ledger : Counts(e) => e \in Recoverable \/ e.id \in recent
  /\ settled => recent = {}

\* The journal has no line past journal.seq, and no count past the lines written.
Numbered ==
  /\ Up => \A l \in journal : l.seq <= seq
  /\ \A e \in ledger \cup ckpt.ledger : e.id <= lines
  /\ \A l \in journal : \A e \in l.entries : e.id <= lines

\* The handler holds a chunk that is still to be acknowledged, and counts one record.
Handling ==
  job # None =>
    /\ Up /\ job.chunk \notin acked \cup acking
    /\ \A d \in job.deltas : d.chunk = job.chunk
    /\ \A d, e \in job.deltas : d = e

PromiseInv == Agreement /\ Numbered /\ Handling

LEMMA NumberTypes ==
  ASSUME TypeInv
  PROVE  /\ now \in Nat /\ seq \in Nat /\ lines \in Nat /\ ckpt.seq \in Nat
         /\ Horizon \in Nat
         /\ \A l \in journal : l.seq \in Nat
         /\ Recoverable \subseteq Entry /\ ledger \subseteq Entry
         /\ \A e \in Entry : e.id \in Nat /\ e.delta.key.start \in Nat
<1> USE BoundsAssumption DEF TypeInv, TypeOK
<1>1. now \in Nat /\ Horizon \in Nat
      BY DEF EnvTypeOK, Time
<1>2. seq \in Nat /\ lines \in Nat
      BY DEF HistoryTypeOK
<1>3. ckpt.seq \in Nat /\ \A l \in journal : l.seq \in Nat
      BY DEF DiskTypeOK, Checkpoint, Line
<1>4. Recoverable \subseteq Entry /\ ledger \subseteq Entry
      BY RecoverableType DEF LedgerTypeOK
<1>5. \A e \in Entry : e.id \in Nat /\ e.delta.key.start \in Nat
      BY DEF Entry, Delta, Key, Time
<1>6. QED  BY <1>1, <1>2, <1>3, <1>4, <1>5

(***************************************************************************)
(* The invariant.                                                          *)
(***************************************************************************)
LEMMA PromiseInit == Init => PromiseInv
BY DEF Init, PromiseInv, Agreement, Numbered, Handling, Recoverable, Replayed, Up

LEMMA AgreementJournal ==
  ASSUME TypeInv, Durable, PromiseInv, Journal
  PROVE  Agreement'
<1> DEFINE entries == {[id |-> lines + 1, delta |-> d] : d \in job.deltas}
           line    == [id |-> lines + 1, seq |-> seq + 1, chunk |-> job.chunk,
                       at |-> job.at, entries |-> entries, defs |-> job.defs]
<1>1. /\ ledger' = ledger \cup entries
      /\ UNCHANGED <<now, ckpt, ticker, settled>>
      /\ journal' \subseteq journal \cup {line} /\ journal \subseteq journal'
      /\ recent' = IF settled THEN recent ELSE recent \cup {lines + 1}
      BY DEF Journal, env
<1>2. Up /\ Up'
      BY <1>1 DEF Journal, Returned, PromiseInv, Handling, Up
<1>3. Recoverable' \subseteq Recoverable \cup entries /\ Recoverable \subseteq Recoverable'
      BY <1>1 DEF Recoverable, Replayed
<1>4. \A e : Counts(e)' <=> Counts(e)
      BY <1>1 DEF Counts, Past
<1>5. \A e \in Recoverable' : Counts(e)' => e \in ledger'
      BY <1>1, <1>2, <1>3, <1>4 DEF PromiseInv, Agreement
<1>6. settled => ledger' \subseteq Recoverable'
      BY <1>1, DurableJournal DEF Durable, SettledLedgerIsDurable
<1>7. ~settled => \A e \in ledger' : Counts(e)' => e \in Recoverable' \/ e.id \in recent'
      BY <1>1, <1>2, <1>3, <1>4 DEF PromiseInv, Agreement
<1>8. settled' => recent' = {}
      BY <1>1 DEF PromiseInv, Agreement
<1>9. QED  BY <1>5, <1>6, <1>7, <1>8 DEF Agreement

\* A step that leaves the disk alone and takes at most expired counts off the ledger.
LEMMA AgreementKept ==
  ASSUME Agreement, UNCHANGED <<now, ckpt, journal, ticker, settled, recent>>,
         ledger' \subseteq ledger, \A e \in ledger : Counts(e) => e \in ledger'
  PROVE  Agreement'
<1>1. Recoverable' = Recoverable /\ (Up' <=> Up)
      BY DEF Recoverable, Replayed, Up
<1>2. \A e : Counts(e)' <=> Counts(e)
      BY DEF Counts, Past
<1>3. QED  BY <1>1, <1>2 DEF Agreement

LEMMA AgreementNext ==
  ASSUME TypeInv, Durable, PromiseInv, [Next]_vars
  PROVE  Agreement'
<1>0. /\ seq \in Nat /\ \A l \in journal : l.seq \in Nat /\ (Up => l.seq <= seq)
      BY NumberTypes DEF PromiseInv, Numbered
<1> USE DEF PromiseInv
<1>1. ASSUME NEW c \in Chunk, Stamp(c) \/ Ack(c) \/ AckLost(c)
      PROVE  Agreement'
      BY <1>1, AgreementKept DEF Stamp, Ack, AckLost, env, disk, history
<1>2. CASE ReturnAccepted \/ ReturnRefused \/ JournalFails
      BY <1>2, AgreementKept DEF ReturnAccepted, ReturnRefused, JournalFails, env, disk, history
<1>3. CASE Journal
      BY <1>3, AgreementJournal
<1>4. CASE PublishBegin
  <2>1. Up /\ Up'
        BY <1>4 DEF PublishBegin, Up
  <2>2. UNCHANGED <<now, ckpt, journal, settled, recent>> /\ ledger' = Unexpired(ledger)
        BY <1>4 DEF PublishBegin, env, disk, history
  <2>3. Recoverable' = Recoverable /\ \A e : Counts(e)' <=> Counts(e)
        BY <2>2 DEF Recoverable, Replayed, Counts, Past
  <2>4. QED  BY <2>1, <2>2, <2>3 DEF Agreement, Unexpired, Counts
<1>5. CASE Published \/ PublishFails \/ CheckpointSkipped \/ Close
  <2>1. Up /\ Up'
        BY <1>5 DEF Published, PublishFails, CheckpointSkipped, Close, Up
  <2>2. UNCHANGED <<now, ledger, ckpt, journal, settled, recent>>
        BY <1>5 DEF Published, PublishFails, CheckpointSkipped, Close, env, disk, history
  <2>3. Recoverable' = Recoverable /\ \A e : Counts(e)' <=> Counts(e)
        BY <2>2 DEF Recoverable, Replayed, Counts, Past
  <2>4. QED  BY <2>1, <2>2, <2>3 DEF Agreement
<1>6. CASE CheckpointWrite
  <2>1. Up /\ Up'
        BY <1>6 DEF CheckpointWrite, Up
  <2>2. /\ UNCHANGED <<now, ledger, journal, settled, recent>>
        /\ ckpt'.seq = seq /\ ckpt'.ledger = ledger
        BY <1>6 DEF CheckpointWrite, env, history
  <2>3. Replayed' = {}
        BY <1>0, <2>1, <2>2 DEF Replayed
  <2>4. Recoverable' = ledger
        BY <2>2, <2>3 DEF Recoverable
  <2>5. QED  BY <2>2, <2>4 DEF Agreement
<1>7. CASE CheckpointTruncate
  <2>1. Up /\ Up' /\ settled' /\ recent' = {}
        BY <1>7 DEF CheckpointTruncate, Up
  <2>2. UNCHANGED <<now, ledger, ckpt>> /\ journal' = {}
        BY <1>7 DEF CheckpointTruncate, env
  <2>3. Recoverable' \subseteq Recoverable /\ \A e : Counts(e)' <=> Counts(e)
        BY <2>2 DEF Recoverable, Replayed, Counts, Past
  <2>4. ledger' \subseteq Recoverable'
        BY <1>7, <2>1, DurableNext DEF Durable, SettledLedgerIsDurable
  <2>5. QED  BY <2>1, <2>2, <2>3, <2>4 DEF Agreement
<1>8. CASE Exit \/ Crash
      BY <1>8 DEF Exit, Crash, MemoryLost, Agreement, Up
<1>9. CASE Load
  <2>1. UNCHANGED <<now, ckpt, journal, settled, recent>> /\ ledger' = Recoverable
        BY <1>9 DEF Load, env, disk, history
  <2>2. Recoverable' = Recoverable
        BY <2>1 DEF Recoverable, Replayed
  <2>3. QED  BY <2>1, <2>2 DEF Agreement
<1>10. CASE Tick
  <2>1. UNCHANGED <<ledger, ckpt, journal, settled, ticker, recent>> /\ now' = now + 1
        BY <1>10 DEF Tick, memory, disk, history
  <2>2. Recoverable' = Recoverable /\ (Up' <=> Up)
        BY <2>1 DEF Recoverable, Replayed, Up
  <2>3. \A e \in Entry : Counts(e)' => Counts(e)
        BY <2>1, NumberTypes DEF Counts, Past
  <2>4. QED  BY <2>1, <2>2, <2>3, NumberTypes DEF Agreement
<1>11. CASE UNCHANGED vars
      BY <1>11, AgreementKept DEF vars, env, memory, disk, history
<1>12. QED
      BY <1>1, <1>2, <1>3, <1>4, <1>5, <1>6, <1>7, <1>8, <1>9, <1>10, <1>11 DEF Next

LEMMA NumberedKept ==
  ASSUME Numbered, UNCHANGED <<ckpt, journal, seq, lines>>, Up' => Up, ledger' \subseteq ledger
  PROVE  Numbered'
BY DEF Numbered

LEMMA NumberedNext ==
  ASSUME TypeInv, PromiseInv, [Next]_vars
  PROVE  Numbered'
<1>0. /\ seq \in Nat /\ lines \in Nat /\ \A l \in journal : l.seq \in Nat
      /\ \A e \in ledger \cup Recoverable : e.id \in Nat
      BY NumberTypes
<1> USE DEF PromiseInv
<1>1. ASSUME NEW c \in Chunk, Stamp(c) \/ Ack(c) \/ AckLost(c)
      PROVE  Numbered'
      BY <1>1, NumberedKept DEF Stamp, Ack, AckLost, disk, history, Up
<1>2. CASE ReturnAccepted \/ ReturnRefused
      BY <1>2, NumberedKept DEF ReturnAccepted, ReturnRefused, disk, history, Up
<1>3. CASE Journal
  <2> DEFINE entries == {[id |-> lines + 1, delta |-> d] : d \in job.deltas}
             line    == [id |-> lines + 1, seq |-> seq + 1, chunk |-> job.chunk,
                         at |-> job.at, entries |-> entries, defs |-> job.defs]
  <2>1. /\ ledger' = ledger \cup entries /\ UNCHANGED <<ckpt, ticker>>
        /\ journal' \subseteq journal \cup {line}
        /\ seq' = seq + 1 /\ lines' = lines + 1
        BY <1>3 DEF Journal
  <2>2. \A e \in entries : e.id <= lines'
        BY <1>0, <2>1
  <2>3. line.seq <= seq' /\ line.entries = entries
        BY <1>0, <2>1
  <2>4. Up' => \A l \in journal' : l.seq <= seq'
        BY <1>0, <2>1, <2>3 DEF Numbered, Up
  <2>5. \A e \in ledger' \cup ckpt'.ledger : e.id <= lines'
    <3>1. \A e \in ckpt.ledger : e.id \in Nat
          BY <1>0 DEF Recoverable
    <3>2. QED  BY <1>0, <2>1, <2>2, <3>1 DEF Numbered
  <2>6. \A l \in journal' : \A e \in l.entries : e.id <= lines'
    <3>1. \A l \in journal : \A e \in l.entries : e.id \in Nat
          BY BoundsAssumption DEF TypeInv, TypeOK, DiskTypeOK, Line, Entry
    <3>2. \A l \in journal : \A e \in l.entries : e.id <= lines'
          BY <1>0, <2>1, <3>1 DEF Numbered
    <3> HIDE DEF entries
    <3>3. QED  BY <2>1, <2>2, <2>3, <3>2
  <2>7. QED  BY <2>4, <2>5, <2>6 DEF Numbered
<1>4. CASE JournalFails
  <2>1. UNCHANGED <<ledger, ckpt, journal, ticker>> /\ seq' = seq + 1 /\ lines' = lines + 1
        BY <1>4 DEF JournalFails, disk
  <2>2. \A e \in ledger \cup ckpt.ledger : e.id \in Nat
        BY <1>0 DEF Recoverable
  <2>3. \A l \in journal : \A e \in l.entries : e.id \in Nat
        BY BoundsAssumption DEF TypeInv, TypeOK, DiskTypeOK, Line, Entry
  <2>4. QED  BY <1>0, <2>1, <2>2, <2>3 DEF Numbered, Up
<1>5. CASE PublishBegin \/ Published \/ PublishFails \/ CheckpointSkipped \/ Close
      BY <1>5, NumberedKept DEF PublishBegin, Unexpired, Published, PublishFails,
                                CheckpointSkipped, Close, disk, history, Up
<1>6. CASE CheckpointWrite
  <2>1. UNCHANGED <<ledger, journal, seq, lines>> /\ ckpt'.ledger = ledger
        BY <1>6 DEF CheckpointWrite, history
  <2>2. Up
        BY <1>6 DEF CheckpointWrite, Up
  <2>3. QED  BY <2>1, <2>2 DEF Numbered
<1>7. CASE CheckpointTruncate
      BY <1>7 DEF CheckpointTruncate, Numbered
<1>8. CASE Exit \/ Crash
      BY <1>8 DEF Exit, Crash, MemoryLost, Numbered, Up, disk
<1>9. CASE Load
  <2>1. UNCHANGED <<ckpt, journal, lines>> /\ ledger' = Recoverable
        BY <1>9 DEF Load, disk, history
  <2>2. \A l \in journal : l.seq <= seq'
        BY <1>9 DEF Load, LastSeq
  <2>3. \A e \in Recoverable : e.id <= lines
        BY DEF Numbered, Recoverable, Replayed
  <2>4. QED  BY <2>1, <2>2, <2>3 DEF Numbered
<1>10. CASE Tick \/ UNCHANGED vars
      BY <1>10, NumberedKept DEF Tick, vars, memory, disk, history, Up
<1>11. QED
      BY <1>1, <1>2, <1>3, <1>4, <1>5, <1>6, <1>7, <1>8, <1>9, <1>10 DEF Next

LEMMA HandlingNext ==
  ASSUME TypeInv, PromiseInv, [Next]_vars
  PROVE  Handling'
<1> USE DEF PromiseInv
<1>1. ASSUME NEW c \in Chunk, Stamp(c)
      PROVE  Handling'
  <2>1. /\ job'.chunk = c /\ Up /\ UNCHANGED <<ticker, acked, acking>>
        /\ c \notin acked \cup acking
        BY <1>1 DEF Stamp, env
  <2> DEFINE delta == [chunk |-> c, at |-> now, key |-> KeyFor(c, now),
                       version |-> <<Record[c].cluster,
                         IF tree[Record[c].cluster] > Record[c].level
                         THEN tree[Record[c].cluster] ELSE Record[c].level>>]
  <2>2. job'.deltas \subseteq {delta} /\ delta.chunk = c
        BY <1>1 DEF Stamp
  <2> HIDE DEF delta
  <2>3. QED  BY <2>1, <2>2 DEF Handling, Up
<1>2. ASSUME NEW c \in Chunk, Ack(c) \/ AckLost(c)
      PROVE  Handling'
      BY <1>2 DEF Ack, AckLost, Handling, env, Up
<1>3. CASE ReturnAccepted
  <2>1. job \in Job
        BY <1>3 DEF ReturnAccepted, TypeInv, Bounds
  <2>2. job' = None \/ (/\ job'.chunk = job.chunk /\ job'.deltas = job.deltas
                        /\ UNCHANGED <<acked, acking, ticker>>)
        BY <1>3, <2>1 DEF ReturnAccepted, Job
  <2>3. QED  BY <1>3, <2>2 DEF Handling, Up, ReturnAccepted
<1>4. CASE ReturnRefused \/ Journal \/ JournalFails \/ Exit \/ Crash
      BY <1>4 DEF ReturnRefused, Journal, JournalFails, Exit, Crash, MemoryLost, Handling
<1>5. CASE PublishBegin \/ Published \/ PublishFails \/ CheckpointWrite
           \/ CheckpointTruncate \/ CheckpointSkipped \/ Close \/ Load
      BY <1>5 DEF PublishBegin, Published, PublishFails, CheckpointWrite, CheckpointTruncate,
                  CheckpointSkipped, Close, Load, Handling, env, Up
<1>6. CASE Tick \/ UNCHANGED vars
      BY <1>6 DEF Tick, vars, env, memory, Handling, Up
<1>7. QED  BY <1>1, <1>2, <1>3, <1>4, <1>5, <1>6 DEF Next

LEMMA PromiseNext ==
  ASSUME TypeInv, Durable, PromiseInv, [Next]_vars
  PROVE  PromiseInv'
BY AgreementNext, NumberedNext, HandlingNext DEF PromiseInv

(***************************************************************************)
(* The simulation: each step of the stamper is a step of CountLedger.      *)
(***************************************************************************)
Fragile == {e \in Held : e.id \in recent}

LEMMA SameCounts ==
  ASSUME UNCHANGED now
  PROVE  \A e : Past(e.delta.key.start)' <=> Past(e.delta.key.start)
BY DEF Past

\* A step that stays within a process, or without one, and counts nothing.
LEMMA Stutters ==
  ASSUME UNCHANGED <<now, acked, handled, ledger, recent, catalog, pub>>,
         \/ UNCHANGED <<ticker, ckpt, journal>>
         \/ Up /\ Up' /\ ticker # "sending" /\ ticker' # "sending"
  PROVE  UNCHANGED Promise!vars
<1>1. Lasting' = Lasting
      BY DEF Lasting, Up, Recoverable, Replayed
<1>2. Held' = Held
      BY <1>1, SameCounts DEF Held
<1>3. InFlight' = InFlight
      BY DEF InFlight
<1>4. Done' = Done
      BY DEF Done
<1>5. QED  BY <1>2, <1>3, <1>4 DEF Promise!vars

LEMMA CountStep ==
  ASSUME TypeInv, PromiseInv, Journal
  PROVE  \E c \in Chunk : Promise!Count(c)
<1> DEFINE entries == {[id |-> lines + 1, delta |-> d] : d \in job.deltas}
<1>1. /\ ledger' = ledger \cup entries
      /\ UNCHANGED <<now, acked, ticker, pub, catalog>>
      /\ recent' = IF settled THEN recent ELSE recent \cup {lines + 1}
      /\ handled' = [handled EXCEPT ![job.chunk] = [id |-> lines + 1, at |-> job.at]]
      BY DEF Journal, env
<1>2. /\ Up /\ Up' /\ job.chunk \notin acked
      /\ \A d \in job.deltas : d.chunk = job.chunk
      /\ \A d, e \in job.deltas : d = e
      BY <1>1 DEF Journal, Returned, PromiseInv, Handling, Up
<1>3. job.chunk \in Chunk /\ lines \in Nat
      BY NumberTypes DEF Journal, Returned, TypeInv, Bounds, Job
<1>4. /\ Held  = {e \in ledger : ~Past(e.delta.key.start)}
      /\ Held' = {e \in ledger \cup entries : ~Past(e.delta.key.start)}
      BY <1>1, <1>2, SameCounts DEF Held, Lasting
<1>5. Held \subseteq Held' /\ Held' \ Held \subseteq entries
      BY <1>4
<1>6. Done' = Done \cup {job.chunk}
  <2>1. handled \in [Chunk -> [id : 0 .. MaxLines, at : Time \cup {Never}]]
        BY DEF TypeInv, TypeOK, HistoryTypeOK
  <2>2. QED  BY <1>1, <1>3, <2>1 DEF Done
<1>7. \A e, f \in Held' \ Held : e = f
      BY <1>2, <1>5
<1>8. \A e \in Held' \ Held : e.delta.chunk = job.chunk
      BY <1>2, <1>5
<1>9. Fragile' \in {Fragile, Fragile \cup (Held' \ Held)}
  <2>1. CASE settled
        BY <1>1, <2>1 DEF Fragile, PromiseInv, Agreement
  <2>2. CASE ~settled
    <3>1. \A e \in Held : e.id # lines + 1
          BY <1>3, <1>4, NumberTypes DEF PromiseInv, Numbered
    <3>2. \A e \in entries : e.id = lines + 1
          OBVIOUS
    <3>3. recent' = recent \cup {lines + 1}
          BY <1>1, <2>2
    <3> HIDE DEF entries
    <3>4. Fragile' = Fragile \cup (Held' \ Held)
          BY <1>5, <3>1, <3>2, <3>3 DEF Fragile
    <3>5. QED  BY <3>4
  <2>3. QED  BY <2>1, <2>2
<1>10. InFlight' = InFlight
       BY <1>1 DEF InFlight
<1> HIDE DEF entries
<1>11. PICK c \in Chunk : c = job.chunk
       BY <1>3
<1>12. Promise!Count(c)
       BY <1>1, <1>2, <1>5, <1>6, <1>7, <1>8, <1>9, <1>10, <1>11 DEF Promise!Count, Fragile
<1>13. QED  BY <1>12

LEMMA AcknowledgeStep ==
  ASSUME HandledInv, NEW c \in Chunk, Ack(c)
  PROVE  Promise!Acknowledge(c)
<1>1. c \in Done
      BY DEF Ack, HandledInv, Handled, Done
<1>2. UNCHANGED <<now, handled, ledger, recent, catalog, pub, ticker, ckpt, journal>>
      /\ acked' = acked \cup {c}
      BY DEF Ack, disk, history
<1>3. Held' = Held /\ Done' = Done /\ InFlight' = InFlight
      BY <1>2, SameCounts DEF Held, Lasting, Up, Recoverable, Replayed, Done, InFlight
<1>4. QED  BY <1>1, <1>2, <1>3 DEF Promise!Acknowledge

LEMMA TakeStep == PublishBegin => Promise!Take
<1> SUFFICES ASSUME PublishBegin PROVE Promise!Take
    OBVIOUS
<1>1. /\ UNCHANGED <<now, acked, handled, recent, catalog>>
      /\ ledger' = Unexpired(ledger) /\ Up /\ Up' /\ ticker' = "sending"
      /\ pub'.entries = Snapshot(ledger', dirty')
      BY DEF PublishBegin, env, history, Up
<1>2. Held' = Held /\ Held' = ledger'
      BY <1>1, SameCounts DEF Held, Lasting, Unexpired
<1>3. InFlight' \subseteq Held
      BY <1>1, <1>2 DEF InFlight, Snapshot
<1>4. QED  BY <1>1, <1>2, <1>3 DEF Promise!Take, Done

LEMMA ShowStep ==
  ASSUME TypeInv, Published \/ PublishFails
  PROVE  Promise!Show
<1>1. /\ UNCHANGED <<now, acked, handled, ledger, recent>> /\ Up /\ Up'
      /\ ticker = "sending" /\ ticker' # "sending"
      BY DEF Published, PublishFails, env, history, Up
<1>2. Held' = Held /\ Done' = Done /\ InFlight = pub.entries /\ InFlight' = {}
      BY <1>1, SameCounts DEF Held, Lasting, Done, InFlight
<1>3. \A keys, hours, versions, through : \A k \in Key :
         Upserted(keys, hours, versions, through).fine[k]
           \in {catalog.fine[k], {e \in InFlight : e.delta.key = k}}
      BY <1>2 DEF Upserted, Bucket
<1>4. \A k \in Key : catalog'.fine[k] \in {catalog.fine[k], {e \in InFlight : e.delta.key = k}}
      BY <1>3 DEF Published, PublishFails, Accepted
<1>5. QED  BY <1>1, <1>2, <1>4 DEF Promise!Show

LEMMA SettleStep == CheckpointTruncate => Promise!Settle
<1> SUFFICES ASSUME CheckpointTruncate PROVE Promise!Settle
    OBVIOUS
<1>1. /\ UNCHANGED <<now, acked, handled, ledger, catalog>> /\ Up /\ Up' /\ recent' = {}
      /\ ticker # "sending" /\ ticker' # "sending"
      BY DEF CheckpointTruncate, env, Up
<1>2. Held' = Held /\ Done' = Done /\ InFlight' = InFlight
      BY <1>1, SameCounts DEF Held, Lasting, Done, InFlight
<1>3. QED  BY <1>1, <1>2 DEF Promise!Settle

LEMMA LoseStep ==
  ASSUME PromiseInv, Exit \/ Crash
  PROVE  Promise!Lose
<1>1. /\ UNCHANGED <<now, acked, handled, ckpt, journal, catalog>>
      /\ Up /\ ~Up' /\ recent' = {} /\ ticker' = "down"
      BY DEF Exit, Crash, MemoryLost, env, disk, Up
<1>2. Lasting = ledger /\ Lasting' = Recoverable
      BY <1>1 DEF Lasting, Recoverable, Replayed
<1>3. Held \ Fragile \subseteq Held' /\ Held' \subseteq Held
      BY <1>1, <1>2, SameCounts DEF Held, Fragile, PromiseInv, Agreement, Counts
<1>4. Fragile' = {} /\ Done' = Done /\ InFlight' = {}
      BY <1>1 DEF Fragile, Done, InFlight
<1>5. QED  BY <1>1, <1>3, <1>4 DEF Promise!Lose, Fragile

LEMMA RestartStutters == Load => UNCHANGED Promise!vars
<1> SUFFICES ASSUME Load PROVE UNCHANGED Promise!vars
    OBVIOUS
<1>1. /\ UNCHANGED <<now, acked, handled, recent, ckpt, journal, catalog>>
      /\ ledger' = Recoverable /\ ticker = "down" /\ ticker' = "idle"
      BY DEF Load, env, disk, history
<1>2. Lasting' = Lasting
      BY <1>1 DEF Lasting, Up
<1>3. Held' = Held /\ Done' = Done /\ InFlight' = InFlight
      BY <1>1, <1>2, SameCounts DEF Held, Done, InFlight
<1>4. QED  BY <1>1, <1>3 DEF Promise!vars

LEMMA PassStep ==
  ASSUME TypeInv, Tick
  PROVE  Promise!Pass
<1>1. /\ now' = now + 1
      /\ UNCHANGED <<acked, handled, ledger, recent, ckpt, journal, ticker, pub, catalog>>
      BY DEF Tick, memory, disk, history
<1>2. Lasting' = Lasting /\ Done' = Done /\ InFlight' = InFlight
      BY <1>1 DEF Lasting, Up, Recoverable, Replayed, Done, InFlight
<1>3. Lasting \subseteq Entry
      BY NumberTypes DEF Lasting
<1>4. \A e \in Entry : /\ Past(e.delta.key.start) => Past(e.delta.key.start)'
                       /\ Past(e.delta.key.start)' <=> ~(e.delta.key.start + 1 > now' - Horizon)
      BY <1>1, NumberTypes DEF Past
<1>5. Held' = Promise!Fresh(Held, now') /\ Fragile' = Promise!Fresh(Fragile, now')
      BY <1>1, <1>2, <1>3, <1>4 DEF Held, Fragile, Promise!Fresh
<1>6. QED  BY <1>1, <1>2, <1>5 DEF Promise!Pass, Fragile

LEMMA PromiseStep ==
  ASSUME TypeInv, Durable, HandledInv, PromiseInv, [Next]_vars
  PROVE  [Promise!Next]_(Promise!vars)
<1>1. ASSUME NEW c \in Chunk, Stamp(c) \/ AckLost(c)
      PROVE  UNCHANGED Promise!vars
      BY <1>1, Stutters DEF Stamp, AckLost, env, disk, history
<1>2. ASSUME NEW c \in Chunk, Ack(c)
      PROVE  Promise!Next
      BY <1>2, AcknowledgeStep DEF Promise!Next
<1>3. CASE ReturnAccepted \/ ReturnRefused \/ JournalFails
  <2>1. UNCHANGED <<now, acked, handled, ledger, recent, catalog, pub, ticker, ckpt, journal>>
        BY <1>3 DEF ReturnAccepted, ReturnRefused, JournalFails, env, disk, history
  <2>2. QED  BY <2>1, Stutters
<1>4. CASE Journal
      BY <1>4, CountStep DEF Promise!Next
<1>5. CASE PublishBegin
      BY <1>5, TakeStep DEF Promise!Next
<1>6. CASE Published \/ PublishFails
      BY <1>6, ShowStep DEF Promise!Next
<1>7. CASE CheckpointWrite \/ CheckpointSkipped \/ Close
      BY <1>7, Stutters DEF CheckpointWrite, CheckpointSkipped, Close, env, disk, history, Up
<1>8. CASE CheckpointTruncate
      BY <1>8, SettleStep DEF Promise!Next
<1>9. CASE Exit \/ Crash
      BY <1>9, LoseStep DEF Promise!Next
<1>10. CASE Load
       BY <1>10, RestartStutters
<1>11. CASE Tick
       BY <1>11, PassStep DEF Promise!Next
<1>12. CASE UNCHANGED vars
       BY <1>12, Stutters DEF vars, env, memory, disk, history
<1>13. QED
       BY <1>1, <1>2, <1>3, <1>4, <1>5, <1>6, <1>7, <1>8, <1>9, <1>10, <1>11, <1>12 DEF Next

LEMMA PromiseStarts == Init => Promise!Init
<1> SUFFICES ASSUME Init PROVE Promise!Init
    OBVIOUS
<1>1. Held = {} /\ Done = {} /\ InFlight = {}
      BY DEF Init, Held, Lasting, Up, Done, InFlight
<1>2. QED  BY <1>1 DEF Init, Promise!Init, NoDocs

\* Whatever is refused, retried, crashed and restarted, the stamper only does what
\* CountLedger allows: it counts before it acknowledges, takes back no count but of
\* an expired bucket or a line its process never saved, and shows what it counted.
THEOREM LedgerIsImplemented == Spec => ImplementsCountLedger
<1> DEFINE Inv == TypeInv /\ Durable /\ HandledInv /\ PromiseInv
<1>1. Init => Inv /\ Promise!Init
      BY TypeInit, DurableInit, HandledInit, PromiseInit, PromiseStarts
<1>2. Inv /\ [Next]_vars => Inv'
      BY TypeNext, DurableNext, HandledNext, PromiseNext
<1>3. Inv /\ [Next]_vars => [Promise!Next]_(Promise!vars)
      BY PromiseStep
<1>4. QED  BY <1>1, <1>2, <1>3, PTL DEF Spec, ImplementsCountLedger, Promise!Spec

-----------------------------------------------------------------------------
(***************************************************************************)
(* The stamper counts no chunk twice while it holds its identifier, for    *)
(* every value of its constants.  The invariant speaks of what a restart   *)
(* would give back as well as of the ledger: every count in either is      *)
(* covered by the time its identifier is held since, in memory and, for    *)
(* the checkpoint, on disk.                                                *)
(***************************************************************************)
Everything == ledger \cup Recoverable

Apart(S) ==
  \A e, f \in S : e.delta.chunk = f.delta.chunk /\ e.id < f.id => f.delta.at - e.delta.at > Hold

\* The identifier is held since the count or later, or the count is older than Hold.
Covers(held, e) == held[e.delta.chunk] >= e.delta.at \/ now - e.delta.at > Hold

Memorised ==
  /\ Apart(Everything)
  /\ Up => \A e \in Everything : Covers(seen, e)
  /\ \A e \in ckpt.ledger : Covers(ckpt.seen, e)

\* Lines and counts follow each other in time.
Ordered ==
  /\ \A e \in Everything : e.delta.at <= now
  /\ \A l \in journal : l.at <= now /\ l.id <= lines
  /\ \A l, m \in journal : m.id <= l.id => m.at <= l.at
  /\ \A e \in ckpt.ledger : \A l \in Replayed : e.delta.at <= l.at
  /\ \A l \in journal : \A e \in l.entries : e.delta.chunk = l.chunk /\ e.delta.at = l.at

\* The handler's line comes after all others, and what it counts is not held.
Latest ==
  job # None =>
    /\ job.at <= now
    /\ \A d \in job.deltas : d.at = job.at
    /\ \A e \in Everything : e.delta.at <= job.at
    /\ \A l \in journal : l.at <= job.at
    /\ job.deltas # {} =>
         \A e \in Everything : e.delta.chunk = job.chunk => job.at - e.delta.at > Hold

OnceInv == Memorised /\ Ordered /\ Latest

LEMMA OnceTypes ==
  ASSUME TypeInv
  PROVE  /\ now \in Nat /\ Hold \in Nat /\ lines \in Nat
         /\ \A e \in Everything : e.id \in Nat /\ e.delta.at \in Nat /\ e.delta.chunk \in Chunk
         /\ \A e \in ckpt.ledger : e \in Everything
         /\ \A l \in journal : l.at \in Nat /\ l.id \in Nat
         /\ seen \in [Chunk -> Int] /\ ckpt.seen \in [Chunk -> Int]
         /\ job # None => job.at \in Nat /\ job.chunk \in Chunk
<1> USE BoundsAssumption DEF TypeInv, TypeOK
<1>1. now \in Nat /\ Hold \in Nat /\ lines \in Nat
      BY DEF EnvTypeOK, Time, HistoryTypeOK
<1>2. Everything \subseteq Entry
      BY NumberTypes DEF Everything
<1>3. \A e \in Entry : e.id \in Nat /\ e.delta.at \in Nat /\ e.delta.chunk \in Chunk
      BY DEF Entry, Delta, Time
<1>4. \A e \in ckpt.ledger : e \in Everything
      BY DEF Everything, Recoverable
<1>5. \A l \in journal : l.at \in Nat /\ l.id \in Nat
      BY DEF DiskTypeOK, Line, Time
<1>6. seen \in [Chunk -> Int] /\ ckpt.seen \in [Chunk -> Int]
      BY DEF LedgerTypeOK, DiskTypeOK, Checkpoint, Time, Never
<1>7. job # None => job.at \in Nat /\ job.chunk \in Chunk
      BY DEF Bounds, Job, Time
<1>8. QED  BY <1>1, <1>2, <1>3, <1>4, <1>5, <1>6, <1>7

LEMMA OnceInit == Init => OnceInv
BY DEF Init, OnceInv, Memorised, Ordered, Latest, Apart, Everything, Recoverable, Replayed

\* A step that adds no count, no line and no checkpoint, while time may pass.
LEMMA OnceKept ==
  ASSUME TypeInv, OnceInv, UNCHANGED <<ckpt, lines>>,
         now' \in {now, now + 1}, ledger' \subseteq Everything, journal' \subseteq journal,
         \/ job' = None
         \/ job # None /\ UNCHANGED <<job.chunk, job.at, job.deltas>>,
         Up' => \A e \in Everything : Covers(seen, e) => Covers(seen, e)'
                                      \/ now' - e.delta.at > Hold,
         Up' => Up
  PROVE  OnceInv'
<1>1. Replayed' \subseteq Replayed /\ Everything' \subseteq Everything
      BY DEF Everything, Recoverable, Replayed
<1>2. Memorised'
      BY <1>1, OnceTypes DEF OnceInv, Memorised, Apart, Covers
<1>3. Ordered'
      BY <1>1, OnceTypes DEF OnceInv, Ordered
<1>4. Latest'
      BY <1>1, OnceTypes DEF OnceInv, Latest
<1>5. QED  BY <1>2, <1>3, <1>4 DEF OnceInv

LEMMA OnceStamp ==
  ASSUME TypeInv, OnceInv, NEW c \in Chunk, Stamp(c)
  PROVE  OnceInv'
<1>1. /\ UNCHANGED <<now, ledger, seen, ckpt, journal, lines, ticker>> /\ Up
      /\ job'.chunk = c /\ job'.at = now
      BY DEF Stamp, env, disk, history
<1>2. Everything' = Everything /\ Replayed' = Replayed /\ Up'
      BY <1>1 DEF Everything, Recoverable, Replayed, Up
<1>3. \A d \in job'.deltas : d.at = now
      BY DEF Stamp
<1>4. job'.deltas # {} => seen[c] = Never
      BY DEF Stamp
<1>5. seen[c] = Never => \A e \in Everything : e.delta.chunk = c => now - e.delta.at > Hold
      BY <1>1, OnceTypes DEF OnceInv, Memorised, Covers, Never
<1>6. Memorised' /\ Ordered'
      BY <1>1, <1>2 DEF OnceInv, Memorised, Ordered, Apart, Covers
<1>7. Latest'
      BY <1>1, <1>2, <1>3, <1>4, <1>5, OnceTypes DEF OnceInv, Ordered, Latest
<1>8. QED  BY <1>6, <1>7 DEF OnceInv

LEMMA OnceJournal ==
  ASSUME TypeInv, PromiseInv, OnceInv, Journal
  PROVE  OnceInv'
<1> DEFINE entries == {[id |-> lines + 1, delta |-> d] : d \in job.deltas}
           line    == [id |-> lines + 1, seq |-> seq + 1, chunk |-> job.chunk,
                       at |-> job.at, entries |-> entries, defs |-> job.defs]
<1>1. /\ UNCHANGED <<now, ckpt, ticker>> /\ ledger' = ledger \cup entries
      /\ journal' \subseteq journal \cup {line}
      /\ lines' = lines + 1 /\ seen' = [seen EXCEPT ![job.chunk] = job.at]
      /\ job' = None /\ job # None /\ Up
      BY DEF Journal, Returned, env, PromiseInv, Handling
<1>2. \A e \in entries : /\ e.id = lines + 1 /\ e.delta.chunk = job.chunk
                         /\ e.delta.at = job.at /\ job.deltas # {}
      BY <1>1 DEF OnceInv, Latest, PromiseInv, Handling
<1>3. line.id = lines + 1 /\ line.at = job.at /\ line.chunk = job.chunk /\ line.entries = entries
      OBVIOUS
<1> HIDE DEF entries, line
<1>4. Replayed' \subseteq Replayed \cup {line} /\ Everything' \subseteq Everything \cup entries
      BY <1>1, <1>3 DEF Everything, Recoverable, Replayed
<1>5. \A e \in Everything : e.id <= lines
      BY DEF PromiseInv, Numbered, Everything, Recoverable, Replayed
<1>6. /\ \A e \in Everything : e.delta.at <= job.at
      /\ \A l \in journal : l.at <= job.at
      /\ \A e \in Everything : job.deltas # {} /\ e.delta.chunk = job.chunk
                                 => job.at - e.delta.at > Hold
      /\ job.at <= now
      BY <1>1 DEF OnceInv, Latest
<1>7. Apart(Everything')
  <2> SUFFICES ASSUME NEW e \in Everything', NEW f \in Everything',
                      e.delta.chunk = f.delta.chunk, e.id < f.id
               PROVE  f.delta.at - e.delta.at > Hold
      BY DEF Apart
  <2>1. e \in Everything
        BY <1>2, <1>4, <1>5, OnceTypes
  <2>2. CASE f \in Everything
        BY <2>1, <2>2 DEF OnceInv, Memorised, Apart
  <2>3. CASE f \in entries
        BY <1>2, <1>6, <2>1, <2>3
  <2>4. QED  BY <1>4, <2>2, <2>3
<1>8. \A e \in Everything' : Covers(seen', e)
  <2> SUFFICES ASSUME NEW e \in Everything' PROVE Covers(seen', e)
      OBVIOUS
  <2>1. CASE e.delta.chunk = job.chunk
        BY <1>1, <1>2, <1>4, <1>6, <2>1, OnceTypes DEF Covers
  <2>2. CASE e.delta.chunk # job.chunk
        BY <1>1, <1>2, <1>4, <2>2, OnceTypes DEF Covers, OnceInv, Memorised
  <2>3. QED  BY <2>1, <2>2
<1>9. Memorised'
      BY <1>1, <1>7, <1>8 DEF Memorised, OnceInv, Covers, Apart
<1>10. Ordered'
  <2>1. \A e \in Everything' : e.delta.at <= now'
        BY <1>1, <1>2, <1>4, <1>6 DEF OnceInv, Ordered
  <2>2. \A l \in journal' : l.at <= now' /\ l.id <= lines'
        BY <1>1, <1>3, <1>6, OnceTypes DEF OnceInv, Ordered
  <2>3. \A l, m \in journal' : m.id <= l.id => m.at <= l.at
        BY <1>1, <1>3, <1>6, OnceTypes DEF OnceInv, Ordered
  <2>4. \A e \in ckpt'.ledger : \A l \in Replayed' : e.delta.at <= l.at
        BY <1>1, <1>3, <1>4, <1>6, OnceTypes DEF OnceInv, Ordered
  <2>5. \A l \in journal' : \A e \in l.entries : e.delta.chunk = l.chunk /\ e.delta.at = l.at
        BY <1>1, <1>2, <1>3 DEF OnceInv, Ordered
  <2>6. QED  BY <2>1, <2>2, <2>3, <2>4, <2>5 DEF Ordered
<1>11. QED  BY <1>1, <1>9, <1>10 DEF OnceInv, Latest

LEMMA OnceCheckpoint ==
  ASSUME TypeInv, PromiseInv, OnceInv, CheckpointWrite
  PROVE  OnceInv'
<1>1. /\ UNCHANGED <<now, ledger, journal, seen, job, lines>> /\ job = None
      /\ Up /\ Up' /\ ckpt'.seq = seq /\ ckpt'.ledger = ledger /\ ckpt'.seen = seen
      BY DEF CheckpointWrite, LockFree, env, history, Up
<1>2. Replayed' = {}
      BY <1>1, NumberTypes DEF Replayed, PromiseInv, Numbered
<1>3. Everything' = ledger
      BY <1>1, <1>2 DEF Everything, Recoverable
<1>4. Memorised'
      BY <1>1, <1>3 DEF OnceInv, Memorised, Apart, Covers, Everything
<1>5. Ordered'
      BY <1>1, <1>2, <1>3 DEF OnceInv, Ordered, Everything
<1>6. QED  BY <1>1, <1>4, <1>5 DEF OnceInv, Latest

LEMMA OnceLoad ==
  ASSUME TypeInv, PromiseInv, OnceInv, Load
  PROVE  OnceInv'
<1>1. /\ UNCHANGED <<now, ckpt, journal, job, lines>> /\ ledger' = Recoverable
      /\ ~Up
      BY DEF Load, env, disk, history, Up
<1>2. Replayed' = Replayed /\ Everything' = Recoverable /\ Recoverable \subseteq Everything
      BY <1>1 DEF Everything, Recoverable, Replayed
<1>3. job = None
      BY <1>1 DEF PromiseInv, Handling
<1>4. \A e \in Recoverable : Covers(seen', e)
  <2> SUFFICES ASSUME NEW e \in Recoverable PROVE Covers(seen', e)
      OBVIOUS
  <2> DEFINE c == e.delta.chunk
             lines_of == {l \in Replayed : l.chunk = c}
  <2>1. c \in Chunk /\ HeldSince(c, seen'[c])
        BY <1>2, OnceTypes DEF Load
  <2>2. CASE lines_of = {} /\ seen'[c] = ckpt.seen[c]
    <3>1. e \in ckpt.ledger
          BY <2>2 DEF Recoverable, Replayed, OnceInv, Ordered
    <3>2. QED  BY <2>2, <3>1 DEF OnceInv, Memorised, Covers
  <2>3. CASE \E l \in lines_of : seen'[c] = l.at /\ \A m \in lines_of : m.id <= l.id
    <3>1. PICK l \in lines_of : seen'[c] = l.at /\ \A m \in lines_of : m.id <= l.id
          BY <2>3
    <3>2. l \in Replayed /\ l \in journal
          BY DEF Replayed
    <3>3. CASE e \in ckpt.ledger
          BY <3>1, <3>2, <3>3, OnceTypes DEF OnceInv, Ordered, Covers
    <3>4. CASE e \notin ckpt.ledger
      <4>1. PICK m \in Replayed : e \in m.entries
            BY <3>4 DEF Recoverable
      <4>2. m \in journal /\ m.chunk = c /\ m.at = e.delta.at
            BY <4>1 DEF Replayed, OnceInv, Ordered
      <4>3. m.at <= l.at
            BY <3>1, <3>2, <4>2 DEF OnceInv, Ordered
      <4>4. QED  BY <3>1, <3>2, <4>2, <4>3, OnceTypes DEF Covers
    <3>5. QED  BY <3>3, <3>4
  <2>4. QED  BY <2>1, <2>2, <2>3 DEF HeldSince
<1>5. Memorised'
      BY <1>1, <1>2, <1>4 DEF OnceInv, Memorised, Apart, Covers
<1>6. Ordered'
      BY <1>1, <1>2 DEF OnceInv, Ordered
<1>7. QED  BY <1>1, <1>3, <1>5, <1>6 DEF OnceInv, Latest

LEMMA OnceNext ==
  ASSUME TypeInv, PromiseInv, OnceInv, [Next]_vars
  PROVE  OnceInv'
<1> USE OnceKept
<1>1. ASSUME NEW c \in Chunk, Stamp(c)
      PROVE  OnceInv'
      BY <1>1, OnceStamp
<1>2. ASSUME NEW c \in Chunk, Ack(c) \/ AckLost(c)
      PROVE  OnceInv'
      BY <1>2 DEF Ack, AckLost, env, disk, history, Everything, Covers, Up
<1>3. CASE ReturnAccepted \/ ReturnRefused
  <2>1. job \in Job
        BY <1>3 DEF ReturnAccepted, ReturnRefused, TypeInv, Bounds
  <2>2. job' = None \/ (job # None /\ UNCHANGED <<job.chunk, job.at, job.deltas>>)
        BY <1>3, <2>1 DEF ReturnAccepted, ReturnRefused, Job
  <2>3. QED  BY <1>3, <2>2 DEF ReturnAccepted, ReturnRefused, disk, history, Everything,
                               Covers, Up
<1>4. CASE Journal
      BY <1>4, OnceJournal
<1>5. CASE JournalFails
  <2>1. /\ UNCHANGED <<now, ledger, seen, ckpt, journal, ticker>>
        /\ lines' = lines + 1 /\ job' = None
        BY <1>5 DEF JournalFails, env, disk
  <2>2. Everything' = Everything /\ Replayed' = Replayed
        BY <2>1 DEF Everything, Recoverable, Replayed
  <2>3. QED  BY <2>1, <2>2, OnceTypes
                DEF OnceInv, Memorised, Ordered, Latest, Apart, Covers, Up
<1>6. CASE PublishBegin
  <2>1. /\ UNCHANGED <<now, ckpt, journal, lines, job>> /\ ledger' \subseteq ledger
        /\ seen' = [c \in Chunk |-> IF Forgotten(c) THEN Never ELSE seen[c]] /\ Up
        BY <1>6 DEF PublishBegin, Unexpired, env, disk, history, Up
  <2>2. \A e \in Everything : Covers(seen, e) => Covers(seen', e)
        BY <2>1, OnceTypes DEF Covers, Forgotten
  <2>3. QED  BY <2>1, <2>2 DEF Everything, Covers
<1>7. CASE CheckpointWrite
      BY <1>7, OnceCheckpoint
<1>8. CASE Published \/ PublishFails \/ CheckpointTruncate \/ CheckpointSkipped \/ Close
      BY <1>8 DEF Published, PublishFails, CheckpointTruncate, CheckpointSkipped, Close,
                  env, disk, history, Everything, Covers, Up
<1>9. CASE Exit \/ Crash
      BY <1>9 DEF Exit, Crash, MemoryLost, env, disk, Up
<1>10. CASE Load
       BY <1>10, OnceLoad
<1>11. CASE Tick
  <2>1. UNCHANGED <<ledger, seen, ckpt, journal, lines, job, ticker>> /\ now' = now + 1
        BY <1>11 DEF Tick, memory, disk, history
  <2>2. \A e \in Everything : Covers(seen, e) => Covers(seen, e)' \/ now' - e.delta.at > Hold
        BY <2>1, OnceTypes DEF Covers
  <2>3. QED  BY <2>1, <2>2 DEF Everything, Up
<1>12. CASE UNCHANGED vars
       BY <1>12 DEF vars, env, memory, disk, history, Everything, Covers, Up
<1>13. QED
       BY <1>1, <1>2, <1>3, <1>4, <1>5, <1>6, <1>7, <1>8, <1>9, <1>10, <1>11, <1>12 DEF Next

\* A chunk that Fluent Bit sends again is not counted again while its identifier is
\* held, whatever acknowledgement was lost and however often the process was
\* restarted in between.
THEOREM NothingIsCountedTwice == Spec => []NeverCountedTwice
<1> DEFINE Inv == TypeInv /\ Durable /\ PromiseInv /\ OnceInv
<1>1. Inv => NeverCountedTwice
      BY DEF OnceInv, Memorised, Apart, Everything, NeverCountedTwice
<1>2. Init => Inv
      BY TypeInit, DurableInit, PromiseInit, OnceInit
<1>3. Inv /\ [Next]_vars => Inv'
      BY TypeNext, DurableNext, PromiseNext, OnceNext
<1>4. QED  BY <1>1, <1>2, <1>3, PTL DEF Spec
=============================================================================
