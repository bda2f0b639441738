----------------------- MODULE TemplateCatalogProofs -----------------------
(***************************************************************************)
(* Theorems about TemplateCatalog for every value of its constants:        *)
(* however many stampers, versions, records and failures.                  *)
(***************************************************************************)
EXTENDS TemplateCatalog, FiniteSetTheorems, WellFoundedInduction, TLAPS

-----------------------------------------------------------------------------
(***************************************************************************)
(* Hours.                                                                  *)
(***************************************************************************)
LEMMA Numbers ==
  /\ Span \in Nat /\ Span >= 1 /\ Ledger \in Nat /\ Idle \in Nat /\ Window \in Nat
  /\ Retention \in Nat /\ 2 * Span <= Ledger /\ Window + Span + Idle < Retention
  /\ Time \subseteq Nat /\ Never \in Int /\ Last \subseteq Int /\ MaxTime \in Nat
BY HorizonAssumption, BoundsAssumption DEF Time, Last, Never

LEMMA Scaled ==
  ASSUME NEW a \in Int, NEW b \in Int
  PROVE  /\ a < b <=> Span * a < Span * b
         /\ a < b => Span * a + Span <= Span * b
         /\ Span * a \in Int /\ Span * b \in Int
<1>1. Span \in Nat /\ Span >= 1
      BY Numbers
<1>2. \A c \in Nat : Span * c \in Nat
      BY <1>1
<1>3. ASSUME a < b PROVE Span * a + Span <= Span * b
  <2>1. Span * b = Span * a + Span + Span * (b - a - 1)
        BY <1>1
  <2>2. Span * (b - a - 1) \in Nat
        BY <1>2, <1>3
  <2>3. QED  BY <1>1, <2>1, <2>2
<1>4. ASSUME ~(a < b) PROVE Span * b <= Span * a
  <2>1. Span * a = Span * b + Span * (a - b)
        BY <1>1
  <2>2. Span * (a - b) \in Nat
        BY <1>2, <1>4
  <2>3. QED  BY <1>1, <2>1, <2>2
<1>5. QED  BY <1>1, <1>3, <1>4

\* The hour of a fine bucket begins with it or before, and ends after it.
LEMMA HourBounds ==
  ASSUME NEW t \in Nat
  PROVE  /\ HourOf(t) \in Nat /\ FloorOf(t) \in Nat
         /\ Span * HourOf(t) <= t /\ t < Span * HourOf(t) + Span
<1>1. Span \in Nat /\ Span >= 1
      BY Numbers
<1> DEFINE q == t \div Span
           r == t % Span
<1>2. q \in Int /\ r \in 0 .. Span - 1 /\ t = Span * q + r
      BY <1>1
<1> HIDE DEF q, r
<1>3. q >= 0
  <2>1. SUFFICES ASSUME q <= -1 PROVE FALSE
        BY <1>2
  <2>2. Span * q <= -Span
        BY <1>1, <1>2, <2>1
  <2>3. QED  BY <1>1, <1>2, <2>2
<1>4. Span * q \in Nat /\ Span * q <= t /\ t < Span * q + Span
      BY <1>1, <1>2, <1>3
<1>5. QED  BY <1>2, <1>3, <1>4 DEF q, HourOf, FloorOf

\* A fine bucket is before the start of an hour when its own hour is.
LEMMA HourBefore ==
  ASSUME NEW t \in Nat, NEW c \in Int
  PROVE  /\ t < Span * c <=> HourOf(t) < c
         /\ t < Span * c <=> HourOf(t) * Span < Span * c
<1> DEFINE q == HourOf(t)
<1>1. Span \in Nat /\ q \in Nat /\ Span * q <= t /\ t < Span * q + Span
      BY HourBounds, Numbers
<1> HIDE DEF q
<1>2. /\ q < c <=> Span * q < Span * c
      /\ q < c => Span * q + Span <= Span * c
      /\ Span * q \in Int /\ Span * c \in Int
      BY <1>1, Scaled
<1>3. q * Span = Span * q
      BY <1>1
<1>4. t < Span * c <=> q < c
      BY <1>1, <1>2
<1>5. QED  BY <1>2, <1>3, <1>4 DEF q

LEMMA HourInHour ==
  ASSUME NEW t \in Time
  PROVE  HourOf(t) \in Hour
<1>1. t \in Nat /\ MaxTime \in Nat /\ t <= MaxTime
      BY Numbers DEF Time
<1>2. HourOf(t) \in Nat /\ HourOf(MaxTime) \in Nat
      BY <1>1, HourBounds
<1>3. MaxTime < Span * HourOf(MaxTime) + Span
      BY <1>1, HourBounds
<1>4. Span * (HourOf(MaxTime) + 1) = Span * HourOf(MaxTime) + Span
      BY <1>2, Numbers
<1>5. t < Span * (HourOf(MaxTime) + 1)
      BY <1>1, <1>2, <1>3, <1>4, Numbers
<1>6. HourOf(t) < HourOf(MaxTime) + 1
      BY <1>1, <1>2, <1>5, HourBefore
<1>7. HourOf(t) \in 0 .. HourOf(MaxTime)
      BY <1>2, <1>6
<1>8. QED  BY <1>7 DEF Hour, HourOf

\* The hours a view reads are those of the fine buckets in its window.
LEMMA HoursOfWindow ==
  ASSUME NEW x \in Nat, NEW t \in Nat
  PROVE  /\ t < FloorOf(x) <=> HourOf(t) * Span < FloorOf(x)
         /\ Start(FloorOf(x)) <= t <=> Start(FloorOf(x)) <= HourOf(t) * Span
<1> DEFINE c == HourOf(x)
           w == Window \div Span
<1>1. c \in Nat /\ HourOf(t) \in Nat /\ FloorOf(x) = Span * c
      BY HourBounds DEF FloorOf
<1>2. w \in Int /\ Window = Span * w
      BY HorizonAssumption
<1> HIDE DEF c, w
<1>3. Start(FloorOf(x)) = Span * (c - w)
      BY <1>1, <1>2, Numbers DEF Start
<1>4. t < Span * c <=> HourOf(t) * Span < Span * c
      BY <1>1, HourBefore
<1>5. c - w \in Int
      BY <1>1, <1>2
<1>6. t < Span * (c - w) <=> HourOf(t) * Span < Span * (c - w)
      BY <1>5, HourBefore
<1>7. Span * (c - w) \in Int /\ HourOf(t) * Span \in Int
      BY <1>1, <1>5, Numbers
<1>8. QED  BY <1>1, <1>3, <1>4, <1>6, <1>7

-----------------------------------------------------------------------------
(***************************************************************************)
(* Types.                                                                  *)
(***************************************************************************)
Mark        == [through : Last, at : Last]
Publication == [stage : {"buckets", "definitions", "mark"}, keys : SUBSET Time,
                entries : SUBSET Entry, defs : SUBSET Entry, at : Time]
Build       == [held : [Node -> Mark], at : Time, counts : SUBSET Record, read : BOOLEAN]
View        == [cutoff : Int \cup {None}, status : {"unknown", "partial", "complete"},
                nodes : SUBSET Node, counts : SUBSET Record, rows : SUBSET Version,
                held : [Node -> Mark]]

StamperTypes ==
  /\ now \in Time /\ counted \subseteq Record /\ late \subseteq Record
  /\ when \in [Record -> Last] /\ failures \in 0 .. MaxFailures
  /\ ledger \in [Node -> SUBSET Entry] /\ dirty \in [Node -> SUBSET Time]
  /\ last \in [Node -> [Version -> Last]]
  /\ dirtyVersions \in [Node -> SUBSET Version]
  /\ pub \in [Node -> Publication \cup {None}]

StoreTypes ==
  /\ coarse \in [Node -> [Hour -> SUBSET Entry]]
  /\ definitions \in [Version -> Last]
  /\ marks \in [Node -> Mark]
  /\ failed \subseteq Node \X Hour \X BOOLEAN

ShifterTypes ==
  /\ build # None => build \in Build
  /\ view \in View
  /\ attempt \in Last

\* Requests cross the end of one fine bucket at most, and nothing is of the future.
Clock ==
  \A n \in Node :
    /\ marks[n].through = marks[n].at /\ marks[n].at <= now
    /\ pub[n] # None => /\ marks[n].at <= pub[n].at
                        /\ pub[n].at <= now /\ now <= pub[n].at + 1

\* What was counted, in its own bucket or in a late one.
Seen == counted \cup late

\* A version that is dirty has a row, and a row was observed.
Observed ==
  \A n \in Node : \A v \in Version :
    /\ last[n][v] # Never => <<n, <<v, last[n][v]>>>> \in Seen
    /\ v \in dirtyVersions[n] => last[n][v] # Never

\* A refresh has found a live node, and watermarks only move on.
Reading ==
  build # None =>
    /\ build.at <= now /\ now <= build.at + 1
    /\ \A n \in Node : /\ build.held[n].through = build.held[n].at
                       /\ build.held[n].through <= marks[n].through
    /\ LiveNodes(build.held, build.at) # {}

TypeInv == StamperTypes /\ StoreTypes /\ ShifterTypes /\ Clock /\ Observed /\ Reading

LEMMA Instants ==
  /\ \A r \in Record : /\ r[1] \in Node /\ r[2] \in Entry /\ r[2][1] \in Version
                       /\ r[2][2] \in Time /\ r[2][2] \in Nat /\ r = <<r[1], <<r[2][1], r[2][2]>>>>
  /\ \A e \in Entry : e[1] \in Version /\ e[2] \in Time /\ e[2] \in Nat /\ e = <<e[1], e[2]>>
  /\ \A m \in Mark : m.through \in Int /\ m.at \in Int
<1>1. \A t \in Time : t \in Nat
      BY Numbers
<1>2. \A t \in Last : t \in Int
      BY Numbers
<1>3. QED  BY <1>1, <1>2 DEF Record, Entry, Mark

LEMMA TypesHold == TypeInv => TypeOK
<1> SUFFICES ASSUME TypeInv PROVE TypeOK
    OBVIOUS
<1>1. StamperTypes /\ StoreTypes /\ ShifterTypes /\ Clock
      BY DEF TypeInv
<1>2. \A n \in Node : pub[n] # None =>
        /\ pub[n].keys \subseteq Time /\ pub[n].entries \subseteq Entry
        /\ pub[n].defs \subseteq Entry /\ pub[n].at \in Time
        /\ pub[n].stage \in {"buckets", "definitions", "mark"}
      BY <1>1 DEF StamperTypes, Publication
<1>3. \A n \in Node : marks[n].through <= now
      BY <1>1 DEF Clock
<1>4. build # None => build.counts \subseteq Record /\ build.at \in Time
      BY <1>1 DEF ShifterTypes, Build
<1>5. /\ view.counts \subseteq Record /\ view.rows \subseteq Version
      /\ view.nodes \subseteq Node /\ view.status \in {"unknown", "partial", "complete"}
      BY <1>1 DEF ShifterTypes, View
<1>6. /\ coarse \in [Node -> [Hour -> SUBSET Entry]]
      /\ definitions \in [Version -> Last]
      /\ marks \in [Node -> [through : Last, at : Last]]
      /\ failed \subseteq Node \X Hour \X BOOLEAN /\ attempt \in Last
      BY <1>1 DEF StoreTypes, ShifterTypes, Mark
<1>7. /\ now \in Time /\ counted \subseteq Record /\ late \subseteq Record
      /\ when \in [Record -> Last] /\ failures \in 0 .. MaxFailures
      /\ ledger \in [Node -> SUBSET Entry] /\ dirty \in [Node -> SUBSET Time]
      /\ last \in [Node -> [Version -> Last]]
      /\ dirtyVersions \in [Node -> SUBSET Version]
      BY <1>1 DEF StamperTypes
<1>8. QED  BY <1>2, <1>3, <1>4, <1>5, <1>6, <1>7 DEF TypeOK

LEMMA TypeInit == Init => TypeInv
<1> SUFFICES ASSUME Init PROVE TypeInv
    OBVIOUS
<1> USE Numbers DEF Init
<1>1. StamperTypes
      BY BoundsAssumption DEF StamperTypes, Time, Last
<1>2. StoreTypes
      BY DEF StoreTypes, NoMark, Mark, Last
<1>3. ShifterTypes
      BY DEF ShifterTypes, View, NoView, NoMark, Mark, Last
<1>4. Clock
      BY DEF Clock, NoMark, Never
<1>5. Observed
      BY DEF Observed, Seen
<1>6. Reading
      BY DEF Reading
<1>7. QED  BY <1>1, <1>2, <1>3, <1>4, <1>5, <1>6 DEF TypeInv

LEMMA Reads ==
  ASSUME Reading, ShifterTypes, StoreTypes, StoreTypes', UNCHANGED <<now, build>>,
         \A n \in Node : marks[n].through <= marks'[n].through
  PROVE  Reading'
<1> SUFFICES ASSUME build # None PROVE Reading'
    BY DEF Reading
<1>1. /\ build.at <= now /\ now <= build.at + 1 /\ LiveNodes(build.held, build.at) # {}
      /\ build' = build /\ now' = now
      BY DEF Reading
<1>2. ASSUME NEW n \in Node
      PROVE  build.held[n].through = build.held[n].at /\ build.held[n].through <= marks'[n].through
  <2>1. /\ build.held[n].through = build.held[n].at /\ build.held[n].through <= marks[n].through
        /\ marks[n].through <= marks'[n].through
        BY DEF Reading
  <2>2. marks[n].through \in Int /\ marks'[n].through \in Int /\ build.held[n].through \in Int
        BY Numbers DEF StoreTypes, ShifterTypes, Build, Mark
  <2>3. QED  BY <2>1, <2>2
<1>3. LiveNodes(build.held, build.at)' = LiveNodes(build.held, build.at)
      BY <1>1 DEF LiveNodes, IsIdle
<1>4. QED  BY <1>1, <1>2, <1>3 DEF Reading

\* No step of a stamper but the watermark touches what a refresh has read.
LEMMA ReadsStill ==
  ASSUME Reading, ShifterTypes, StoreTypes, StoreTypes', UNCHANGED <<now, build, marks>>
  PROVE  Reading'
<1>1. \A n \in Node : marks[n].through <= marks'[n].through
      BY Instants DEF StoreTypes
<1>2. QED  BY <1>1, Reads

\* What a record that is counted changes, late or not.
LEMMA Arrived ==
  ASSUME TypeInv, NEW n \in Node, NEW v \in Version, NEW t \in Time,
         Count(n, v, t) \/ CountLate(n, v, t)
  PROVE  /\ <<n, <<v, t>>>> \in Record /\ <<n, <<v, t>>>> \notin Seen
         /\ Seen' = Seen \cup {<<n, <<v, t>>>>}
         /\ counted \subseteq counted' /\ counted' \subseteq counted \cup {<<n, <<v, t>>>>}
         /\ when'[<<n, <<v, t>>>>] = now
         /\ \A r \in Record : r # <<n, <<v, t>>>> => when'[r] = when[r]
         /\ UNCHANGED <<now, pub, coarse, definitions, marks, failed, build, view, attempt,
                        failures>>
         /\ last' = [last EXCEPT ![n][v] = IF t > @ THEN t ELSE @]
         /\ \/ dirtyVersions' = [dirtyVersions EXCEPT ![n] = @ \cup {v}]
            \/ last[n][v] # Never /\ dirtyVersions' = dirtyVersions
<1>1. Arrives(n, v, t) /\ Observe(n, v, t)
      BY DEF Count, CountLate
<1>2. /\ <<n, <<v, t>>>> \in Record
      /\ when' = [when EXCEPT ![<<n, <<v, t>>>>] = now] /\ when \in [Record -> Last]
      BY <1>1 DEF Record, Entry, Arrives, TypeInv, StamperTypes
<1>3. UNCHANGED <<now, pub, coarse, definitions, marks, failed, build, view, attempt, failures>>
      BY DEF Count, CountLate, stored, shifter
<1>4. /\ Seen' = Seen \cup {<<n, <<v, t>>>>}
      /\ counted \subseteq counted' /\ counted' \subseteq counted \cup {<<n, <<v, t>>>>}
      BY DEF Count, CountLate, Seen
<1>5. QED  BY <1>1, <1>2, <1>3, <1>4 DEF Arrives, Observe, Seen

LEMMA CountType ==
  ASSUME TypeInv, NEW n \in Node, NEW v \in Version, NEW t \in Time,
         Count(n, v, t) \/ CountLate(n, v, t)
  PROVE  TypeInv'
<1>1. StamperTypes /\ StoreTypes /\ ShifterTypes /\ Clock /\ Observed /\ Reading
      BY DEF TypeInv
<1>2. /\ UNCHANGED <<now, pub, coarse, definitions, marks, failed, build, view, attempt, failures>>
      /\ <<n, <<v, t>>>> \in Record /\ Seen' = Seen \cup {<<n, <<v, t>>>>}
      /\ last' = [last EXCEPT ![n][v] = IF t > @ THEN t ELSE @]
      /\ \/ dirtyVersions' = [dirtyVersions EXCEPT ![n] = @ \cup {v}]
         \/ last[n][v] # Never /\ dirtyVersions' = dirtyVersions
      BY Arrived
<1>3. StamperTypes'
  <2>1. last' \in [Node -> [Version -> Last]] /\ dirtyVersions' \in [Node -> SUBSET Version]
        BY <1>1, <1>2 DEF StamperTypes, Last
  <2>2. counted' \subseteq Record /\ late' \subseteq Record
        BY <1>1, <1>2 DEF Count, CountLate, StamperTypes
  <2>3. when' \in [Record -> Last]
        BY <1>1 DEF Count, CountLate, Arrives, StamperTypes, Last
  <2>4. ledger' \in [Node -> SUBSET Entry] /\ dirty' \in [Node -> SUBSET Time]
    <3>1. CASE Count(n, v, t)
          BY <1>1, <3>1 DEF Count, StamperTypes, Entry
    <3>2. CASE CountLate(n, v, t)
          BY <1>1, <3>2 DEF CountLate, StamperTypes
    <3>3. QED  BY <3>1, <3>2
  <2>5. QED  BY <1>1, <1>2, <2>1, <2>2, <2>3, <2>4 DEF StamperTypes
<1>4. StoreTypes' /\ ShifterTypes' /\ Clock'
      BY <1>1, <1>2 DEF StoreTypes, ShifterTypes, Clock
<1>5. Observed'
  <2>1. ASSUME NEW m \in Node, NEW u \in Version
        PROVE  /\ last'[m][u] # Never => <<m, <<u, last'[m][u]>>>> \in Seen'
               /\ u \in dirtyVersions'[m] => last'[m][u] # Never
    <3>1. /\ last[m][u] # Never => <<m, <<u, last[m][u]>>>> \in Seen
          /\ u \in dirtyVersions[m] => last[m][u] # Never
          BY <1>1 DEF Observed
    <3>2. CASE m = n /\ u = v
      <4>1. last'[n][v] = IF t > last[n][v] THEN t ELSE last[n][v]
            BY <1>1, <1>2 DEF StamperTypes
      <4>2. t \in Nat /\ last[n][v] \in Last
            BY <1>1, Numbers DEF StamperTypes
      <4>3. last[n][v] = Never \/ last[n][v] \in Nat
            BY <4>2, Numbers DEF Last
      <4>4. last'[n][v] # Never
            BY <4>1, <4>2, <4>3 DEF Never
      <4>5. QED  BY <1>2, <3>1, <3>2, <4>1, <4>2, <4>3, <4>4 DEF Never
    <3>3. CASE m # n \/ u # v
      <4>1. last'[m][u] = last[m][u]
            BY <1>1, <1>2, <3>3 DEF StamperTypes
      <4>2. u \in dirtyVersions'[m] => u \in dirtyVersions[m]
            BY <1>1, <1>2, <3>3 DEF StamperTypes
      <4>3. QED  BY <1>2, <3>1, <4>1, <4>2
    <3>4. QED  BY <3>2, <3>3
  <2>2. QED  BY <2>1 DEF Observed
<1>6. Reading'
      BY <1>1, <1>2, <1>4, ReadsStill
<1>7. QED  BY <1>3, <1>4, <1>5, <1>6 DEF TypeInv

LEMMA PublishBeginType ==
  ASSUME TypeInv, NEW n \in Node, PublishBegin(n)
  PROVE  TypeInv'
<1> DEFINE unexpired == {e \in ledger[n] : ~Past(e[2])}
           keys      == {t \in dirty[n] : ~Past(t)}
           sent      == [stage |-> IF keys # {} THEN "buckets" ELSE After(Rows(n)),
                         keys |-> keys, entries |-> Hours(unexpired, keys),
                         defs |-> Rows(n), at |-> now]
<1>1. /\ ledger' = [ledger EXCEPT ![n] = unexpired] /\ dirty' = [dirty EXCEPT ![n] = keys]
      /\ pub' = [pub EXCEPT ![n] = sent]
      /\ UNCHANGED <<now, records, last, dirtyVersions, stored, shifter, failures>>
      BY DEF PublishBegin
<1>2. StamperTypes /\ StoreTypes /\ ShifterTypes /\ Clock /\ Observed /\ Reading
      BY DEF TypeInv
<1>3. Rows(n) \subseteq Entry
  <2>1. \A v \in dirtyVersions[n] : v \in Version /\ last[n][v] \in Last \ {Never}
        BY <1>2 DEF StamperTypes, Observed, records, Seen
  <2>2. QED  BY <2>1 DEF Rows, Entry, Last
<1>4. unexpired \subseteq Entry /\ keys \subseteq Time /\ Hours(unexpired, keys) \subseteq Entry
      BY <1>2 DEF StamperTypes, Hours, records
<1>5. sent \in Publication /\ sent.at = now
      BY <1>2, <1>3, <1>4 DEF Publication, After, StamperTypes, records
<1> HIDE DEF unexpired, keys, sent
<1>6. StamperTypes'
      BY <1>1, <1>2, <1>4, <1>5 DEF StamperTypes, records
<1>7. StoreTypes' /\ ShifterTypes' /\ Observed'
      BY <1>1, <1>2 DEF StoreTypes, ShifterTypes, Observed, Seen, stored, shifter, records
<1>8. Clock'
      BY <1>1, <1>2, <1>5, Numbers DEF Clock, stored, StamperTypes, records
<1>9. Reading'
      BY <1>1, <1>7, ReadsStill DEF TypeInv, stored, shifter
<1>10. QED  BY <1>6, <1>7, <1>8, <1>9 DEF TypeInv

LEMMA Advanced ==
  ASSUME NEW p \in Publication, NEW s \in {"buckets", "definitions", "mark"}
  PROVE  /\ [p EXCEPT !.stage = s] \in Publication
         /\ [p EXCEPT !.stage = s].stage = s /\ [p EXCEPT !.stage = s].at = p.at
         /\ [p EXCEPT !.stage = s].keys = p.keys /\ [p EXCEPT !.stage = s].defs = p.defs
         /\ [p EXCEPT !.stage = s].entries = p.entries
BY DEF Publication

LEMMA SendBucketsType ==
  ASSUME TypeInv, NEW n \in Node, SendBuckets(n)
  PROVE  TypeInv'
<1> USE DEF TypeInv, SendBuckets, Advance, Stage
<1>1. pub[n] \in Publication
      BY DEF StamperTypes, records
<1> DEFINE next == [pub[n] EXCEPT !.stage = After(pub[n].defs)]
<1>2. /\ pub' = [pub EXCEPT ![n] = next]
      /\ next \in Publication /\ next.at = pub[n].at
      BY <1>1, Advanced DEF After
<1> HIDE DEF next
<1>3. StamperTypes'
      BY <1>2 DEF StamperTypes, records
<1>4. StoreTypes'
  <2> DEFINE new == [h \in Hour |->
               LET document == {e \in pub[n].entries : HourOf(e[2]) = h}
               IN IF document = {} THEN coarse[n][h] ELSE document]
  <2>1. new \in [Hour -> SUBSET Entry]
        BY <1>1 DEF StoreTypes, Publication
  <2>2. coarse' = [coarse EXCEPT ![n] = new]
        BY DEF StoreTypes
  <2> HIDE DEF new
  <2>3. QED  BY <2>1, <2>2 DEF StoreTypes
<1>5. ShifterTypes' /\ Observed'
      BY DEF ShifterTypes, shifter, Observed, records, Seen
<1>6. \A m \in Node : pub'[m] # None => pub[m] # None /\ pub'[m].at = pub[m].at
      BY <1>2 DEF StamperTypes, records
<1>7. Clock'
      BY <1>6 DEF Clock, records
<1>8. Reading'
      BY <1>4, ReadsStill DEF shifter
<1>9. QED  BY <1>3, <1>4, <1>5, <1>7, <1>8

LEMMA SendDefinitionsType ==
  ASSUME TypeInv, NEW n \in Node, SendDefinitions(n)
  PROVE  TypeInv'
<1> USE DEF TypeInv, SendDefinitions, Advance, Stage
<1>1. pub[n] \in Publication
      BY DEF StamperTypes, records
<1> DEFINE next == [pub[n] EXCEPT !.stage = "mark"]
<1>2. /\ pub' = [pub EXCEPT ![n] = next]
      /\ next \in Publication /\ next.at = pub[n].at
      BY <1>1, Advanced
<1> HIDE DEF next
<1>3. StamperTypes'
      BY <1>2 DEF StamperTypes, records
<1>4. StoreTypes'
  <2>1. ASSUME NEW v \in Version
        PROVE (IF \E t \in Time : <<v, t>> \in pub[n].defs
               THEN Merged(definitions[v], CHOOSE t \in Time : <<v, t>> \in pub[n].defs)
               ELSE definitions[v]) \in Last
        BY DEF StoreTypes, Merged, Last
  <2>2. QED  BY <2>1 DEF StoreTypes
<1>5. ShifterTypes' /\ Observed'
      BY DEF ShifterTypes, shifter, Observed, records, Seen
<1>6. \A m \in Node : pub'[m] # None => pub[m] # None /\ pub'[m].at = pub[m].at
      BY <1>2 DEF StamperTypes, records
<1>7. Clock'
      BY <1>6 DEF Clock, records
<1>8. Reading'
      BY <1>4, ReadsStill DEF shifter
<1>9. QED  BY <1>3, <1>4, <1>5, <1>7, <1>8

LEMMA SendMarkType ==
  ASSUME TypeInv, NEW n \in Node, SendMark(n)
  PROVE  TypeInv'
<1> USE DEF TypeInv, SendMark, Stage
<1>1. pub[n] \in Publication
      BY DEF StamperTypes, records
<1>2. /\ marks' = [marks EXCEPT ![n] = [through |-> pub[n].at, at |-> pub[n].at]]
      /\ pub' = [pub EXCEPT ![n] = None]
      /\ \A v \in dirtyVersions'[n] : v \in dirtyVersions[n] /\ last'[n][v] = last[n][v]
      /\ \A v \in Version : last'[n][v] = last[n][v] \/ last'[n][v] = Never
      /\ \A m \in Node \ {n} : last'[m] = last[m] /\ dirtyVersions'[m] = dirtyVersions[m]
      BY DEF Through, StamperTypes, records
<1>3. StamperTypes'
  <2>1. dirty' \in [Node -> SUBSET Time]
        BY <1>1 DEF StamperTypes, Publication, records
  <2>2. dirtyVersions' \in [Node -> SUBSET Version]
        BY DEF StamperTypes, records
  <2>3. last' \in [Node -> [Version -> Last]]
        BY DEF StamperTypes, Last, records
  <2>4. QED  BY <1>2, <2>1, <2>2, <2>3 DEF StamperTypes, records
<1>4. StoreTypes'
      BY <1>1, <1>2 DEF StoreTypes, Mark, Last, Publication
<1>5. ShifterTypes'
      BY DEF ShifterTypes, shifter
<1>6. Observed'
      BY <1>2 DEF Observed, StamperTypes, records, Seen
<1>7. Clock'
      BY <1>1, <1>2 DEF Clock, StoreTypes, StamperTypes, Publication, records
<1>8. Reading'
  <2>1. ASSUME NEW m \in Node PROVE marks[m].through <= marks'[m].through
        BY <1>1, <1>2, Numbers DEF Clock, StoreTypes, Mark, Publication, records
  <2>2. QED  BY <1>4, <2>1, Reads DEF shifter
<1>9. QED  BY <1>3, <1>4, <1>5, <1>6, <1>7, <1>8

LEMMA PublishFailsType ==
  ASSUME TypeInv, NEW n \in Node, PublishFails(n)
  PROVE  TypeInv'
<1> USE DEF TypeInv, PublishFails
<1>1. StamperTypes'
      BY BoundsAssumption DEF StamperTypes, records
<1>2. StoreTypes' /\ ShifterTypes' /\ Observed' /\ Clock'
      BY DEF StoreTypes, ShifterTypes, Observed, Clock, stored, shifter, StamperTypes, records, Seen
<1>3. Reading'
      BY <1>2, ReadsStill DEF stored, shifter
<1>4. QED  BY <1>1, <1>2, <1>3

LEMMA RestartType ==
  ASSUME TypeInv, NEW n \in Node, Restart(n)
  PROVE  TypeInv'
<1> USE DEF TypeInv, Restart
<1>1. PICK back \in [Version -> Last] :
        /\ \A v \in Version :
             IF last[n][v] = Never THEN back[v] = Never
             ELSE back[v] <= last[n][v] /\ <<n, <<v, back[v]>>>> \in Seen
        /\ last' = [last EXCEPT ![n] = back]
      BY DEF Seen
<1>2. StamperTypes'
  <2>1. {e[2] : e \in ledger[n]} \subseteq Time
        BY DEF StamperTypes, Entry, records
  <2>2. QED  BY <1>1, <2>1 DEF StamperTypes, records
<1>3. StoreTypes' /\ ShifterTypes' /\ Clock'
      BY DEF StoreTypes, ShifterTypes, Clock, stored, shifter, StamperTypes, records
<1>4. Observed'
  <2>1. \A v \in Version : last[n][v] # Never => back[v] # Never /\ <<n, <<v, back[v]>>>> \in Seen
        BY <1>1 DEF StamperTypes, Record, Entry, Time, Never, records
  <2>2. \A v \in Version : last[n][v] = Never => back[v] = Never
        BY <1>1
  <2>3. last'[n] = back /\ \A m \in Node \ {n} : last'[m] = last[m]
        BY <1>1 DEF StamperTypes, records
  <2>4. dirtyVersions'[n] = {v \in Version : last[n][v] # Never}
        BY DEF StamperTypes, records
  <2>5. \A m \in Node \ {n} : dirtyVersions'[m] = dirtyVersions[m]
        BY DEF StamperTypes, records
  <2>6. ASSUME NEW m \in Node, NEW v \in Version
        PROVE  /\ last'[m][v] # Never => <<m, <<v, last'[m][v]>>>> \in Seen'
               /\ v \in dirtyVersions'[m] => last'[m][v] # Never
    <3>1. CASE m = n
          BY <2>1, <2>2, <2>3, <2>4, <3>1 DEF Seen, records
    <3>2. CASE m # n
          BY <2>3, <2>5, <3>2 DEF Observed, records, Seen
    <3>3. QED  BY <3>1, <3>2
  <2>7. QED  BY <2>6 DEF Observed, records, Seen
<1>5. Reading'
      BY <1>3, ReadsStill DEF stored, shifter
<1>6. QED  BY <1>2, <1>3, <1>4, <1>5

\* The cutoff of a refresh is the start of the hour of the node that is furthest
\* behind of those that are live.
LEMMA CutoffOf ==
  ASSUME NEW held \in [Node -> Mark], NEW at \in Time,
         \A n \in Node : held[n].through = held[n].at, LiveNodes(held, at) # {}
  PROVE  \E l \in LiveNodes(held, at) :
           /\ held[l].through \in Time /\ at - held[l].through <= Idle
           /\ \A n \in LiveNodes(held, at) : held[l].through <= held[n].through
           /\ Cutoff(held, at) = FloorOf(held[l].through)
           /\ Cutoff(held, at) \in Nat /\ Cutoff(held, at) <= held[l].through
           /\ held[l].through < Cutoff(held, at) + Span
<1> DEFINE live == LiveNodes(held, at)
           through == {held[n].through : n \in live}
<1>1. \A n \in live : held[n].through \in Time /\ at - held[n].through <= Idle
  <2> SUFFICES ASSUME NEW n \in live PROVE held[n].through \in Time /\ at - held[n].through <= Idle
      OBVIOUS
  <2>1. n \in Node /\ held[n] # NoMark /\ ~(at - held[n].at > Idle) /\ held[n] \in Mark
        BY DEF LiveNodes, IsIdle
  <2>2. held[n] = [through |-> held[n].at, at |-> held[n].at]
        BY <2>1 DEF Mark
  <2>3. held[n].at # Never
        BY <2>1, <2>2 DEF NoMark
  <2>4. held[n].at \in Time
        BY <2>1, <2>3 DEF Mark, Last
  <2>5. held[n].at \in Nat /\ at \in Nat /\ Idle \in Nat
        BY <2>4, Numbers
  <2>6. QED  BY <2>1, <2>4, <2>5
<1>2. through \in SUBSET Nat /\ through # {}
      BY <1>1, Numbers
<1>3. \E t \in through : \A u \in through : t <= u
  <2> HIDE DEF through
  <2>1. PICK e \in through : \A d \in through : ~(<<d, e>> \in OpToRel(<, Nat))
        BY <1>2, NatLessThanWellFounded, WFMin
  <2>2. \A d \in through : ~(d < e)
        BY <1>2, <2>1 DEF OpToRel
  <2>3. QED  BY <1>2, <2>2
<1> DEFINE low == CHOOSE t \in through : \A u \in through : t <= u
<1>4. low \in through /\ \A u \in through : low <= u
  <2> HIDE DEF through
  <2>1. QED  BY <1>3
<1>5. Cutoff(held, at) = FloorOf(low)
      BY <1>2 DEF Cutoff
<1> HIDE DEF low
<1>6. PICK l \in live : held[l].through = low
      BY <1>4
<1>7. low \in Nat
      BY <1>2, <1>4
<1>8. FloorOf(low) \in Nat /\ FloorOf(low) <= low /\ low < FloorOf(low) + Span
      BY <1>7, HourBounds DEF FloorOf
<1>9. \A n \in live : low <= held[n].through
      BY <1>4
<1>10. QED  BY <1>1, <1>5, <1>6, <1>8, <1>9

LEMMA ExpireDefinitionsType == TypeInv /\ ExpireDefinitions => TypeInv'
<1> SUFFICES ASSUME TypeInv, ExpireDefinitions PROVE TypeInv'
    OBVIOUS
<1> USE DEF TypeInv, ExpireDefinitions
<1>1. StoreTypes'
      BY DEF StoreTypes, Last
<1>2. StamperTypes' /\ ShifterTypes' /\ Clock' /\ Observed'
      BY DEF StamperTypes, ShifterTypes, Clock, Observed, stamper, shifter, records, Seen
<1>3. Reading'
      BY <1>1, ReadsStill DEF shifter
<1>4. QED  BY <1>1, <1>2, <1>3

LEMMA AuditType == TypeInv /\ Audit => TypeInv'
<1> SUFFICES ASSUME TypeInv, Audit PROVE TypeInv'
    OBVIOUS
<1> USE DEF TypeInv, Audit
<1> DEFINE h == HourOf(now) - 1
<1>1. failed' \subseteq Node \X Hour \X BOOLEAN
  <2> DEFINE audited == {n \in Node : coarse[n][h] # {}}
             hour == {r \in counted : r[1] \in audited /\ HourOf(r[2][2]) = h}
  <2>1. PICK shipped \in SUBSET hour, returned \in SUBSET (audited \X Version) :
          failed' = {<<n, h, \E v \in Version : <<n, v>> \in returned>> :
            n \in {m \in audited : \E v \in Version :
                     Over(Indexed(shipped, returned, m, v), Stamped(m, h, v))}}
        OBVIOUS
  <2>2. h \in Hour
        OBVIOUS
  <2> SUFFICES ASSUME NEW c \in failed' PROVE c \in Node \X Hour \X BOOLEAN
      OBVIOUS
  <2>3. PICK n \in audited : c = <<n, h, \E v \in Version : <<n, v>> \in returned>>
        BY <2>1
  <2>4. (\E v \in Version : <<n, v>> \in returned) \in BOOLEAN
        OBVIOUS
  <2> HIDE DEF h
  <2>5. QED  BY <2>2, <2>3, <2>4
<1>2. UNCHANGED <<now, records, stamper, coarse, definitions, marks, shifter, failures>>
      OBVIOUS
<1>3. StoreTypes'
      BY <1>1, <1>2 DEF StoreTypes
<1>4. StamperTypes' /\ ShifterTypes' /\ Clock' /\ Observed'
      BY <1>2 DEF StamperTypes, ShifterTypes, Clock, Observed, stamper, shifter, records, Seen
<1>5. Reading'
      BY <1>2, <1>3, ReadsStill DEF shifter
<1>6. QED  BY <1>3, <1>4, <1>5

LEMMA ReadMarksType == TypeInv /\ ReadMarks => TypeInv'
<1> SUFFICES ASSUME TypeInv, ReadMarks PROVE TypeInv'
    OBVIOUS
<1>1. UNCHANGED <<now, records, stamper, stored, failures>>
      BY DEF ReadMarks
<1>2. StamperTypes' /\ StoreTypes' /\ Clock' /\ Observed'
      BY <1>1 DEF TypeInv, StamperTypes, StoreTypes, Clock, Observed, stamper, stored, records, Seen
<1>3. attempt' = now /\ now \in Time
      BY DEF ReadMarks, TypeInv, StamperTypes, records
<1>4. CASE Cutoff(marks, now) = None
  <2>1. view' \in View /\ build' = None
        BY <1>4 DEF ReadMarks, TypeInv, ShifterTypes, NoView, View, NoMark, Mark, Last
  <2>2. ShifterTypes' /\ Reading'
        BY <1>3, <2>1 DEF ShifterTypes, Reading, Last
  <2>3. QED  BY <1>2, <2>2 DEF TypeInv
<1>5. CASE Cutoff(marks, now) # None
  <2>1. /\ view' = view
        /\ build' = [held |-> marks, at |-> now, counts |-> {}, read |-> FALSE]
        BY <1>5 DEF ReadMarks
  <2>2. build' \in Build
        BY <1>3, <2>1 DEF Build, TypeInv, StoreTypes
  <2>3. ShifterTypes'
        BY <1>3, <2>1, <2>2 DEF TypeInv, ShifterTypes, Last
  <2>4. LiveNodes(marks, now) # {}
        BY <1>5 DEF Cutoff
  <2>5. /\ build'.at = now /\ build'.held = marks /\ now' = now /\ marks' = marks
        /\ now \in Int
        BY <1>1, <1>3, <2>1, Numbers DEF stored
  <2>6. \A n \in Node : marks[n].through = marks[n].at /\ marks[n].through <= marks[n].through
        BY Instants DEF TypeInv, Clock, StoreTypes, records
  <2>7. LiveNodes(build.held, build.at)' # {}
        BY <2>4, <2>5 DEF LiveNodes, IsIdle
  <2>8. Reading'
        BY <2>5, <2>6, <2>7 DEF Reading
  <2>9. QED  BY <1>2, <2>3, <2>8 DEF TypeInv
<1>6. QED  BY <1>4, <1>5

\* What is read is what the nodes sent.
LEMMA VolumeType ==
  ASSUME StoreTypes, NEW hours \in SUBSET Hour
  PROVE  UNION {{<<n, e>> : e \in UNION {coarse[n][h] : h \in hours}} : n \in Node}
           \subseteq Record
BY DEF StoreTypes, Record

LEMMA ReadVolumeType == TypeInv /\ ReadVolume => TypeInv'
<1> SUFFICES ASSUME TypeInv, ReadVolume PROVE TypeInv'
    OBVIOUS
<1>1. UNCHANGED <<now, records, stamper, stored, view, attempt, failures>>
      BY DEF ReadVolume
<1>2. StamperTypes' /\ StoreTypes' /\ Clock' /\ Observed'
      BY <1>1 DEF TypeInv, StamperTypes, StoreTypes, Clock, Observed, stamper, stored, records, Seen
<1>3. build \in Build /\ build # None
      BY DEF ReadVolume, TypeInv, ShifterTypes
<1>4. PICK counts \in SUBSET Record :
        build' = [build EXCEPT !.read = TRUE, !.counts = counts]
  <2> DEFINE hours == {h \in Hour : /\ Start(Cutoff(build.held, build.at)) <= h * Span
                                   /\ h * Span < Cutoff(build.held, build.at)}
             counts == UNION {{<<n, e>> : e \in UNION {coarse[n][h] : h \in hours}} : n \in Node}
  <2>1. build' = [build EXCEPT !.read = TRUE, !.counts = counts]
        BY DEF ReadVolume
  <2>2. counts \in SUBSET Record
    <3>1. hours \in SUBSET Hour
          OBVIOUS
    <3> HIDE DEF hours
    <3>2. QED  BY <3>1, VolumeType DEF TypeInv
  <2> HIDE DEF counts
  <2>3. QED  BY <2>1, <2>2
<1>5. build' \in Build /\ build'.held = build.held /\ build'.at = build.at
      BY <1>3, <1>4 DEF Build
<1>6. ShifterTypes'
      BY <1>1, <1>5 DEF TypeInv, ShifterTypes
<1>7. Reading'
  <2>1. LiveNodes(build.held, build.at)' = LiveNodes(build.held, build.at)
        BY <1>5 DEF LiveNodes, IsIdle
  <2>2. QED  BY <1>1, <1>3, <1>5, <2>1 DEF TypeInv, Reading, stored
<1>8. QED  BY <1>2, <1>6, <1>7 DEF TypeInv

LEMMA InstallType == TypeInv /\ Install => TypeInv'
<1> SUFFICES ASSUME TypeInv, Install PROVE TypeInv'
    OBVIOUS
<1>1. UNCHANGED <<now, records, stamper, stored, attempt, failures>> /\ build' = None
      BY DEF Install
<1>2. StamperTypes' /\ StoreTypes' /\ Clock' /\ Observed' /\ Reading'
      BY <1>1 DEF TypeInv, StamperTypes, StoreTypes, Clock, Observed, Reading, stamper, stored, records, Seen
<1>3. build \in Build /\ build # None
      BY DEF Install, TypeInv, ShifterTypes
<1>4. Cutoff(build.held, build.at) \in Nat
  <2>1. /\ build.held \in [Node -> Mark] /\ build.at \in Time
        /\ \A n \in Node : build.held[n].through = build.held[n].at
        /\ LiveNodes(build.held, build.at) # {}
        BY <1>3 DEF Build, TypeInv, Reading
  <2>2. QED  BY <2>1, CutoffOf
<1>5. {r[1] : r \in build.counts} \subseteq Node /\ build.counts \subseteq Record
      BY <1>3 DEF Build, Record
<1>6. \A nodes : Coverage(build.held, build.at, nodes, Cutoff(build.held, build.at))
                    \in {"unknown", "partial", "complete"}
      BY DEF Coverage
<1>7. view' \in View
      BY <1>3, <1>4, <1>5, <1>6 DEF Install, View, Build
<1>8. ShifterTypes'
      BY <1>1, <1>7 DEF TypeInv, ShifterTypes
<1>9. QED  BY <1>2, <1>8 DEF TypeInv

LEMMA TickType == TypeInv /\ Tick => TypeInv'
<1> SUFFICES ASSUME TypeInv, Tick PROVE TypeInv'
    OBVIOUS
<1>1. /\ now < MaxTime /\ now' = now + 1 /\ failed' = {} /\ attempt' = Never
      /\ \A n \in Node : pub[n] # None => pub[n].at = now
      /\ build # None => build.at = now
      /\ UNCHANGED <<records, stamper, coarse, definitions, marks, build, view, failures>>
      BY DEF Tick
<1>2. now \in Nat /\ now' \in Time
      BY <1>1, Numbers DEF TypeInv, StamperTypes, Time, records
<1>3. StamperTypes' /\ StoreTypes' /\ ShifterTypes' /\ Observed'
      BY <1>1, <1>2
      DEF TypeInv, StamperTypes, StoreTypes, ShifterTypes, Observed, stamper, Last, records, Seen
<1>4. Clock'
  <2>1. \A r \in Seen : r[2][2] \in Int
        BY Instants DEF TypeInv, StamperTypes, Seen
  <2>2. \A n \in Node : marks[n].at \in Int
        BY Instants DEF TypeInv, StoreTypes
  <2>3. QED  BY <1>1, <1>2, <2>1, <2>2 DEF TypeInv, Clock, stamper, records
<1>5. Reading'
  <2>1. LiveNodes(build.held, build.at)' = LiveNodes(build.held, build.at)
        BY <1>1 DEF LiveNodes, IsIdle
  <2>2. QED  BY <1>1, <1>2, <2>1 DEF TypeInv, Reading
<1>6. QED  BY <1>3, <1>4, <1>5 DEF TypeInv

LEMMA TypeNext == TypeInv /\ [Next]_vars => TypeInv'
<1> SUFFICES ASSUME TypeInv, [Next]_vars PROVE TypeInv'
    OBVIOUS
<1>1. ASSUME NEW n \in Node, NEW v \in Version, NEW t \in Time, Count(n, v, t) \/ CountLate(n, v, t)
      PROVE  TypeInv'
      BY <1>1, CountType
<1>2. ASSUME NEW n \in Node, PublishBegin(n) PROVE TypeInv'
      BY <1>2, PublishBeginType
<1>3. ASSUME NEW n \in Node, SendBuckets(n) PROVE TypeInv'
      BY <1>3, SendBucketsType
<1>4. ASSUME NEW n \in Node, SendDefinitions(n) PROVE TypeInv'
      BY <1>4, SendDefinitionsType
<1>5. ASSUME NEW n \in Node, SendMark(n) PROVE TypeInv'
      BY <1>5, SendMarkType
<1>6. ASSUME NEW n \in Node, PublishFails(n) PROVE TypeInv'
      BY <1>6, PublishFailsType
<1>7. ASSUME NEW n \in Node, Restart(n) PROVE TypeInv'
      BY <1>7, RestartType
<1>8. CASE UNCHANGED vars
  <2>1. LiveNodes(build.held, build.at)' = LiveNodes(build.held, build.at)
        BY <1>8 DEF vars, shifter, LiveNodes, IsIdle
  <2>2. Reading'
        BY <1>8, <2>1 DEF vars, shifter, stored, TypeInv, Reading
  <2>3. QED  BY <1>8, <2>2
        DEF vars, stamper, stored, shifter, TypeInv, StamperTypes, StoreTypes, ShifterTypes,
            Clock, Observed, records, Seen
<1>9. QED  BY <1>1, <1>2, <1>3, <1>4, <1>5, <1>6, <1>7, <1>8, ExpireDefinitionsType,
              AuditType, ReadMarksType, ReadVolumeType, InstallType, TickType DEF Next

\* Every variable keeps its type; no watermark is of the future.
THEOREM TypeCorrect == Spec => []TypeOK
<1>1. QED  BY TypeInit, TypeNext, TypesHold, PTL DEF Spec

-----------------------------------------------------------------------------
(***************************************************************************)
(* What a node has sent of what it counted, of the buckets its ledger still *)
(* has to hold: everything in a bucket that is not dirty, and everything    *)
(* that was counted before the publication that was accepted last began.    *)
(***************************************************************************)
Exact(S, n, t) == \A v \in Version : <<v, t>> \in S <=> <<n, <<v, t>>>> \in counted

LedgerOf(n) ==
  /\ \A e \in ledger[n] : <<n, e>> \in counted
  /\ \A e \in Entry : <<n, e>> \in counted /\ ~Past(e[2]) => e \in ledger[n]
  /\ \A t \in dirty[n] : \E e \in ledger[n] : e[2] = t

InKeys(n, t) == \E k \in pub[n].keys : HourOf(k) = HourOf(t)

\* A publication on its way has the hours of the keys, and what was counted before it
\* began is in it or in a document it leaves alone.
SnapshotOf(n) ==
  pub[n] # None =>
    /\ pub[n].keys \subseteq dirty[n]
    /\ \A e \in pub[n].entries : <<n, e>> \in counted /\ InKeys(n, e[2])
    /\ \A k \in pub[n].keys : \E e \in pub[n].entries : e[2] = k
    /\ \A t \in Time : InKeys(n, t) /\ ~Past(t) /\ t \notin dirty[n] =>
         Exact(pub[n].entries, n, t)
    /\ \A e \in Entry :
         <<n, e>> \in counted /\ ~Past(e[2]) /\ when[<<n, e>>] < pub[n].at =>
           IF InKeys(n, e[2]) THEN e \in pub[n].entries ELSE e \in coarse[n][HourOf(e[2])]

SentOf(n) ==
  pub[n] # None /\ pub[n].stage # "buckets" =>
    \A e \in Entry : InKeys(n, e[2]) =>
      (e \in coarse[n][HourOf(e[2])] <=> e \in pub[n].entries)

CoarseOf(n) ==
  /\ \A h \in Hour : \A e \in coarse[n][h] : <<n, e>> \in counted /\ HourOf(e[2]) = h
  /\ \A t \in Time : ~Past(t) /\ t \notin dirty[n] => Exact(coarse[n][HourOf(t)], n, t)
  /\ \A e \in Entry :
       <<n, e>> \in counted /\ ~Past(e[2]) /\ when[<<n, e>>] < marks[n].at =>
         e \in coarse[n][HourOf(e[2])]

CountsOf(n) == LedgerOf(n) /\ SnapshotOf(n) /\ SentOf(n) /\ CoarseOf(n)
CountsInv   == \A n \in Node : CountsOf(n)

\* What is past stays past.
LEMMA PastStays ==
  ASSUME now \in Nat, now' = now \/ now' = now + 1, NEW t \in Nat, ~Past(t)'
  PROVE  ~Past(t)
BY Numbers DEF Past

\* A step that leaves the stamper of a node and its records alone, while time goes on.
LEMMA CountsStay ==
  ASSUME NEW m \in Node, CountsOf(m), TypeInv, TypeInv', now' = now \/ now' = now + 1,
         \A e \in Entry : <<m, e>> \in counted' <=> <<m, e>> \in counted,
         \A e \in Entry : <<m, e>> \in counted => when'[<<m, e>>] = when[<<m, e>>],
         ledger'[m] = ledger[m], dirty'[m] = dirty[m], coarse'[m] = coarse[m],
         pub'[m] = pub[m] \/ pub'[m] = None, marks'[m] = marks[m]
  PROVE  CountsOf(m)'
<1>1. now \in Nat /\ \A t \in Time : t \in Nat
      BY Numbers DEF TypeInv, StamperTypes
<1>2. /\ \A t \in Time : ~Past(t)' => ~Past(t)
      /\ \A e \in Entry : ~Past(e[2])' => ~Past(e[2])
      BY <1>1, PastStays, Instants
<1>3. \A S : \A t \in Time : Exact(S, m, t)' <=> \A v \in Version : <<v, t>> \in S' <=> <<m, <<v, t>>>> \in counted
      BY DEF Exact, Entry
<1>4. ledger[m] \subseteq Entry /\ (pub[m] # None => pub[m] \in Publication)
      /\ \A h \in Hour : coarse[m][h] \subseteq Entry
      BY DEF TypeInv, StamperTypes, StoreTypes
<1>5. LedgerOf(m)'
      BY <1>2, <1>4 DEF CountsOf, LedgerOf
<1>6. SnapshotOf(m)'
  <2> SUFFICES ASSUME pub'[m] # None PROVE SnapshotOf(m)'
      BY DEF SnapshotOf
  <2>1. SnapshotOf(m) /\ pub'[m] = pub[m] /\ pub[m] # None
        BY DEF CountsOf
  <2>2. pub[m].entries \subseteq Entry
        BY <1>4, <2>1 DEF Publication
  <2>3. \A t : InKeys(m, t)' <=> InKeys(m, t)
        BY <2>1 DEF InKeys
  <2>4. /\ pub[m].keys \subseteq dirty'[m]
        /\ \A e \in pub[m].entries : <<m, e>> \in counted' /\ InKeys(m, e[2])
        /\ \A k \in pub[m].keys : \E e \in pub[m].entries : e[2] = k
        BY <2>1, <2>2 DEF SnapshotOf
  <2>5. ASSUME NEW t \in Time, InKeys(m, t), ~Past(t)', t \notin dirty'[m]
        PROVE  Exact(pub[m].entries, m, t)'
    <3>1. Exact(pub[m].entries, m, t)
          BY <1>2, <2>1, <2>5 DEF SnapshotOf
    <3>2. QED  BY <2>1, <3>1 DEF Exact, Entry
  <2>6. ASSUME NEW e \in Entry, <<m, e>> \in counted', ~Past(e[2])', when'[<<m, e>>] < pub[m].at
        PROVE  IF InKeys(m, e[2]) THEN e \in pub[m].entries ELSE e \in coarse'[m][HourOf(e[2])]
        BY <1>2, <2>1, <2>6 DEF SnapshotOf
  <2>7. QED  BY <2>1, <2>3, <2>4, <2>5, <2>6 DEF SnapshotOf
<1>7. SentOf(m)'
      BY DEF CountsOf, SentOf, InKeys
<1>8. CoarseOf(m)'
  <2>1. CoarseOf(m)
        BY DEF CountsOf
  <2>2. \A h \in Hour : \A e \in coarse'[m][h] : <<m, e>> \in counted' /\ HourOf(e[2]) = h
        BY <1>4, <2>1 DEF CoarseOf
  <2>3. ASSUME NEW t \in Time, ~Past(t)', t \notin dirty'[m]
        PROVE  Exact(coarse[m][HourOf(t)], m, t)'
    <3>1. Exact(coarse[m][HourOf(t)], m, t)
          BY <1>2, <2>1, <2>3 DEF CoarseOf
    <3>2. QED  BY <3>1 DEF Exact, Entry
  <2>4. ASSUME NEW e \in Entry, <<m, e>> \in counted', ~Past(e[2])', when'[<<m, e>>] < marks'[m].at
        PROVE  e \in coarse'[m][HourOf(e[2])]
        BY <1>2, <2>1, <2>4 DEF CoarseOf
  <2>5. QED  BY <2>2, <2>3, <2>4 DEF CoarseOf, Exact
<1>9. QED  BY <1>5, <1>6, <1>7, <1>8 DEF CountsOf

\* A step of one stamper, seen from another.
LEMMA OthersStay ==
  ASSUME NEW n \in Node, CountsInv, TypeInv, TypeInv', now' = now, records' = records,
         \A m \in Node \ {n} :
           /\ ledger'[m] = ledger[m] /\ dirty'[m] = dirty[m] /\ coarse'[m] = coarse[m]
           /\ pub'[m] = pub[m] /\ marks'[m] = marks[m]
  PROVE  \A m \in Node \ {n} : CountsOf(m)'
BY CountsStay DEF CountsInv, records

LEMMA CountCounts ==
  ASSUME TypeInv, TypeInv', CountsInv, NEW n \in Node, NEW v \in Version, NEW t \in Time,
         Count(n, v, t)
  PROVE  CountsInv'
<1> DEFINE new == <<v, t>>
<1>1. /\ counted' = counted \cup {<<n, new>>} /\ now' = now
      /\ ledger' = [ledger EXCEPT ![n] = @ \cup {new}]
      /\ dirty' = [dirty EXCEPT ![n] = @ \cup {t}]
      /\ UNCHANGED <<pub, coarse, marks>>
      BY DEF Count, stored
<1>2. CountsOf(n) /\ new \in Entry /\ new[2] = t
      BY DEF CountsInv, Entry
<1>3. ledger'[n] = ledger[n] \cup {new} /\ dirty'[n] = dirty[n] \cup {t}
      BY <1>1 DEF TypeInv, StamperTypes
<1>4. /\ \A u \in Time : Past(u)' = Past(u)
      /\ \A e \in Entry : Past(e[2])' = Past(e[2])
      BY <1>1 DEF Past
<1>5. /\ when'[<<n, new>>] = now
      /\ \A m \in Node : \A e \in Entry : <<m, e>> # <<n, new>> => when'[<<m, e>>] = when[<<m, e>>]
      BY Arrived DEF Record
<1>6. /\ ~(now < marks[n].at) /\ (pub[n] # None => ~(now < pub[n].at))
  <2>1. now \in Nat /\ marks[n].at \in Int /\ (pub[n] # None => pub[n].at \in Nat)
        BY Instants, Numbers DEF TypeInv, StamperTypes, StoreTypes, Publication
  <2>2. QED  BY <2>1 DEF TypeInv, Clock
<1>7. \A m \in Node : \A e \in Entry :
        <<m, e>> \in counted' <=> <<m, e>> \in counted \/ (m = n /\ e = new)
      BY <1>1
<1>8. ASSUME NEW S, NEW u \in Time, u # t, Exact(S, n, u)
      PROVE  Exact(S, n, u)'
      BY <1>7, <1>8 DEF Exact, Entry
<1> HIDE DEF new
<1>9. LedgerOf(n)'
  <2>1. \A e \in ledger'[n] : <<n, e>> \in counted'
        BY <1>1, <1>2, <1>3 DEF CountsOf, LedgerOf
  <2>2. \A e \in Entry : <<n, e>> \in counted' /\ ~Past(e[2])' => e \in ledger'[n]
        BY <1>2, <1>3, <1>4, <1>7 DEF CountsOf, LedgerOf
  <2>3. \A u \in dirty'[n] : \E e \in ledger'[n] : e[2] = u
        BY <1>2, <1>3 DEF CountsOf, LedgerOf
  <2>4. QED  BY <2>1, <2>2, <2>3 DEF LedgerOf
<1>10. SnapshotOf(n)'
  <2> SUFFICES ASSUME pub[n] # None PROVE SnapshotOf(n)'
      BY <1>1 DEF SnapshotOf
  <2>1. SnapshotOf(n) /\ pub'[n] = pub[n] /\ coarse'[n] = coarse[n]
        BY <1>1, <1>2 DEF CountsOf
  <2>2. \A u : InKeys(n, u)' <=> InKeys(n, u)
        BY <2>1 DEF InKeys
  <2>3. /\ pub[n].keys \subseteq dirty'[n]
        /\ \A e \in pub[n].entries : <<n, e>> \in counted' /\ InKeys(n, e[2])
        /\ \A k \in pub[n].keys : \E e \in pub[n].entries : e[2] = k
        BY <1>1, <1>3, <2>1 DEF SnapshotOf
  <2>4. ASSUME NEW u \in Time, InKeys(n, u), ~Past(u), u \notin dirty'[n]
        PROVE  Exact(pub[n].entries, n, u)'
    <3>1. Exact(pub[n].entries, n, u) /\ u # t
          BY <1>3, <2>1, <2>4 DEF SnapshotOf
    <3>2. \A S : Exact(S, n, u) => \A w \in Version : <<w, u>> \in S <=> <<n, <<w, u>>>> \in counted'
          BY <1>8, <3>1 DEF Exact
    <3>3. QED  BY <2>1, <3>1, <3>2 DEF Exact
  <2>5. ASSUME NEW e \in Entry, <<n, e>> \in counted', ~Past(e[2]), when'[<<n, e>>] < pub[n].at
        PROVE  IF InKeys(n, e[2]) THEN e \in pub[n].entries ELSE e \in coarse[n][HourOf(e[2])]
    <3>1. e # new
          BY <1>5, <1>6, <2>5
    <3>2. <<n, e>> \in counted /\ when[<<n, e>>] < pub[n].at
          BY <1>5, <1>7, <2>5, <3>1
    <3>3. QED  BY <2>1, <2>5, <3>2 DEF SnapshotOf
  <2>6. QED  BY <1>4, <2>1, <2>2, <2>3, <2>4, <2>5 DEF SnapshotOf
<1>11. SentOf(n)'
      BY <1>1, <1>2 DEF CountsOf, SentOf, InKeys
<1>12. CoarseOf(n)'
  <2>1. CoarseOf(n) /\ coarse'[n] = coarse[n] /\ marks'[n] = marks[n]
        BY <1>1, <1>2 DEF CountsOf
  <2>2. \A h \in Hour : \A e \in coarse[n][h] : <<n, e>> \in counted' /\ HourOf(e[2]) = h
        BY <1>1, <2>1 DEF CoarseOf
  <2>3. ASSUME NEW u \in Time, ~Past(u), u \notin dirty'[n]
        PROVE  Exact(coarse[n][HourOf(u)], n, u)'
    <3>1. Exact(coarse[n][HourOf(u)], n, u) /\ u # t
          BY <1>3, <2>1, <2>3 DEF CoarseOf
    <3>2. \A S : Exact(S, n, u) => \A w \in Version : <<w, u>> \in S <=> <<n, <<w, u>>>> \in counted'
          BY <1>8, <3>1 DEF Exact
    <3>3. QED  BY <2>1, <3>1, <3>2 DEF Exact
  <2>4. ASSUME NEW e \in Entry, <<n, e>> \in counted', ~Past(e[2]), when'[<<n, e>>] < marks[n].at
        PROVE  e \in coarse[n][HourOf(e[2])]
    <3>1. e # new
          BY <1>5, <1>6, <2>4
    <3>2. <<n, e>> \in counted /\ when[<<n, e>>] < marks[n].at
          BY <1>5, <1>7, <2>4, <3>1
    <3>3. QED  BY <2>1, <2>4, <3>2 DEF CoarseOf
  <2>5. QED  BY <1>4, <2>1, <2>2, <2>3, <2>4 DEF CoarseOf, Exact
<1>13. ASSUME NEW m \in Node \ {n} PROVE CountsOf(m)'
  <2>1. /\ \A e \in Entry : <<m, e>> \in counted' <=> <<m, e>> \in counted
        /\ \A e \in Entry : <<m, e>> \in counted => when'[<<m, e>>] = when[<<m, e>>]
        /\ ledger'[m] = ledger[m] /\ dirty'[m] = dirty[m] /\ coarse'[m] = coarse[m]
        /\ pub'[m] = pub[m] /\ marks'[m] = marks[m]
        BY <1>1, <1>5, <1>7 DEF TypeInv, StamperTypes
  <2>2. QED  BY <1>1, <2>1, CountsStay DEF CountsInv
<1>14. QED  BY <1>9, <1>10, <1>11, <1>12, <1>13 DEF CountsInv, CountsOf

LEMMA CountLateCounts ==
  ASSUME TypeInv, TypeInv', CountsInv, NEW n \in Node, NEW v \in Version, NEW t \in Time,
         CountLate(n, v, t)
  PROVE  CountsInv'
<1>1. UNCHANGED <<now, counted, ledger, dirty, pub, coarse, marks>>
      BY DEF CountLate, stored
<1>2. ASSUME NEW m \in Node, NEW e \in Entry, <<m, e>> \in counted
      PROVE  when'[<<m, e>>] = when[<<m, e>>]
  <2>1. <<n, <<v, t>>>> \notin counted
        BY Arrived DEF Seen
  <2>2. <<m, e>> \in Record /\ <<m, e>> # <<n, <<v, t>>>>
        BY <1>2, <2>1 DEF Record
  <2>3. QED  BY <2>2, Arrived
<1>3. QED  BY <1>1, <1>2, CountsStay DEF CountsInv

LEMMA PublishBeginCounts ==
  ASSUME TypeInv, TypeInv', CountsInv, NEW n \in Node, PublishBegin(n)
  PROVE  CountsInv'
<1> DEFINE unexpired == {e \in ledger[n] : ~Past(e[2])}
           keys      == {t \in dirty[n] : ~Past(t)}
<1>1. /\ ledger' = [ledger EXCEPT ![n] = unexpired] /\ dirty' = [dirty EXCEPT ![n] = keys]
      /\ pub' = [pub EXCEPT ![n] =
           [stage |-> IF keys # {} THEN "buckets" ELSE After(Rows(n)), keys |-> keys,
            entries |-> Hours(unexpired, keys), defs |-> Rows(n), at |-> now]]
      /\ UNCHANGED <<now, records, last, dirtyVersions, stored, shifter, failures>>
      BY DEF PublishBegin
<1>2. CountsOf(n) /\ now \in Time /\ now \in Nat
      BY Numbers DEF CountsInv, TypeInv, StamperTypes
<1>3. /\ ledger'[n] = unexpired /\ dirty'[n] = keys /\ coarse' = coarse /\ marks' = marks
      /\ pub'[n].stage = IF keys # {} THEN "buckets" ELSE After(Rows(n))
      /\ pub'[n].keys = keys /\ pub'[n].at = now /\ pub'[n].entries = Hours(unexpired, keys)
      BY <1>1 DEF TypeInv, StamperTypes, stored
<1>4. /\ \A t \in Time : Past(t)' = Past(t)
      /\ \A e \in Entry : Past(e[2])' = Past(e[2])
      /\ counted' = counted /\ when' = when /\ now' = now
      BY <1>1 DEF Past, records
<1>5. ledger[n] \subseteq Entry /\ dirty[n] \subseteq Time
      BY DEF TypeInv, StamperTypes
<1>6. \A t \in keys : \E e \in unexpired : e[2] = t
      BY <1>2 DEF CountsOf, LedgerOf
<1>7. LedgerOf(n)'
  <2>1. \A e \in unexpired : <<n, e>> \in counted
        BY <1>2 DEF CountsOf, LedgerOf
  <2>2. \A e \in Entry : <<n, e>> \in counted /\ ~Past(e[2]) => e \in unexpired
        BY <1>2 DEF CountsOf, LedgerOf
  <2> HIDE DEF unexpired, keys
  <2>3. QED  BY <1>3, <1>4, <1>6, <2>1, <2>2 DEF LedgerOf
<1>8. ASSUME NEW k \in keys, NEW t \in Time, HourOf(t) = HourOf(k), ~Past(t)
      PROVE  Exact(Hours(unexpired, keys), n, t)
  <2>1. ASSUME NEW v \in Version
        PROVE  <<v, t>> \in Hours(unexpired, keys) <=> <<n, <<v, t>>>> \in counted
    <3>1. <<v, t>> \in Entry /\ <<v, t>>[2] = t
          BY DEF Entry
    <3>2. <<n, <<v, t>>>> \in counted => <<v, t>> \in ledger[n]
          BY <1>2, <1>8, <3>1 DEF CountsOf, LedgerOf
    <3>3. <<v, t>> \in ledger[n] => <<n, <<v, t>>>> \in counted
          BY <1>2 DEF CountsOf, LedgerOf
    <3>4. <<v, t>> \in Hours(unexpired, keys) <=> <<v, t>> \in ledger[n]
          BY <1>8, <3>1 DEF Hours
    <3>5. QED  BY <3>2, <3>3, <3>4
  <2>2. QED  BY <2>1 DEF Exact
<1>9. \A t \in Time : ~Past(t) /\ t \notin keys => t \notin dirty[n]
      OBVIOUS
<1>10. \A e \in Hours(unexpired, keys) :
         e \in unexpired /\ <<n, e>> \in counted /\ \E k \in keys : HourOf(k) = HourOf(e[2])
      BY <1>2 DEF Hours, CountsOf, LedgerOf
<1>11. \A k \in keys : \E e \in Hours(unexpired, keys) : e[2] = k
      BY <1>6 DEF Hours
<1> HIDE DEF unexpired, keys
<1>12. \A t : InKeys(n, t)' <=> \E k \in keys : HourOf(k) = HourOf(t)
      BY <1>3 DEF InKeys
<1>13. SnapshotOf(n)'
  <2>1. \A t \in Time : InKeys(n, t)' /\ ~Past(t) => Exact(Hours(unexpired, keys), n, t)
        BY <1>8, <1>12
  <2>2. ASSUME NEW e \in Entry, <<n, e>> \in counted, ~Past(e[2])
        PROVE  IF InKeys(n, e[2])' THEN e \in Hours(unexpired, keys)
                                   ELSE e \in coarse[n][HourOf(e[2])]
    <3>1. e[1] \in Version /\ e[2] \in Time /\ e = <<e[1], e[2]>>
          BY Instants
    <3>2. InKeys(n, e[2])' => <<e[1], e[2]>> \in Hours(unexpired, keys)
          BY <2>1, <2>2, <3>1 DEF Exact
    <3>3. ~InKeys(n, e[2])' => e[2] \notin dirty[n]
          BY <1>9, <1>12, <2>2, <3>1
    <3>4. e[2] \notin dirty[n] => Exact(coarse[n][HourOf(e[2])], n, e[2])
          BY <1>2, <2>2, <3>1 DEF CountsOf, CoarseOf
    <3>5. e[2] \notin dirty[n] => <<e[1], e[2]>> \in coarse[n][HourOf(e[2])]
          BY <2>2, <3>1, <3>4 DEF Exact
    <3>6. QED  BY <3>1, <3>2, <3>3, <3>5
  <2>3. QED  BY <1>3, <1>4, <1>10, <1>11, <1>12, <2>1, <2>2 DEF SnapshotOf, Exact
<1>14. SentOf(n)'
  <2>1. keys # {} => pub'[n].stage = "buckets"
        BY <1>3
  <2>2. QED  BY <1>3, <1>12, <2>1 DEF SentOf
<1>15. CoarseOf(n)'
      BY <1>2, <1>3, <1>4, <1>9 DEF CountsOf, CoarseOf, Exact
<1>16. \A m \in Node \ {n} : CountsOf(m)'
  <2>1. \A m \in Node \ {n} :
          /\ ledger'[m] = ledger[m] /\ dirty'[m] = dirty[m] /\ coarse'[m] = coarse[m]
          /\ pub'[m] = pub[m] /\ marks'[m] = marks[m]
        BY <1>1, <1>3 DEF TypeInv, StamperTypes
  <2>2. QED  BY <1>1, <2>1, OthersStay
<1>17. QED  BY <1>7, <1>13, <1>14, <1>15, <1>16 DEF CountsInv, CountsOf

LEMMA SendBucketsCounts ==
  ASSUME TypeInv, TypeInv', CountsInv, NEW n \in Node, SendBuckets(n)
  PROVE  CountsInv'
<1> DEFINE document(h) == {e \in pub[n].entries : HourOf(e[2]) = h}
<1>1. /\ pub[n] # None /\ pub[n].stage = "buckets"
      /\ pub' = [pub EXCEPT ![n].stage = After(pub[n].defs)]
      /\ UNCHANGED <<now, records, ledger, dirty, marks>>
      BY DEF SendBuckets, Stage, Advance
<1>2. CountsOf(n) /\ pub[n] \in Publication
      BY <1>1 DEF CountsInv, TypeInv, StamperTypes
<1>3. /\ pub'[n].at = pub[n].at /\ pub'[n].keys = pub[n].keys
      /\ pub'[n].entries = pub[n].entries
      BY <1>1, <1>2, Advanced DEF After, TypeInv, StamperTypes
<1>4. \A h \in Hour : coarse'[n][h] = IF document(h) = {} THEN coarse[n][h] ELSE document(h)
      BY DEF SendBuckets, TypeInv, StoreTypes
<1>5. /\ \A t \in Time : Past(t)' = Past(t)
      /\ \A e \in Entry : Past(e[2])' = Past(e[2])
      /\ counted' = counted /\ when' = when
      /\ \A t : InKeys(n, t)' <=> InKeys(n, t)
      BY <1>1, <1>3 DEF Past, records, InKeys
<1>6. \A e \in Entry : e[1] \in Version /\ e[2] \in Time /\ e = <<e[1], e[2]>>
                        /\ HourOf(e[2]) \in Hour
      BY Instants, HourInHour
<1>7. ASSUME NEW t \in Time
      PROVE  /\ HourOf(t) \in Hour
             /\ InKeys(n, t) => coarse'[n][HourOf(t)] = document(HourOf(t))
             /\ ~InKeys(n, t) => coarse'[n][HourOf(t)] = coarse[n][HourOf(t)]
  <2>1. HourOf(t) \in Hour
        BY HourInHour
  <2>2. ASSUME InKeys(n, t) PROVE document(HourOf(t)) # {}
    <3>1. PICK k \in pub[n].keys : HourOf(k) = HourOf(t)
          BY <2>2 DEF InKeys
    <3>2. PICK e \in pub[n].entries : e[2] = k
          BY <1>1, <1>2 DEF CountsOf, SnapshotOf
    <3>3. QED  BY <3>1, <3>2
  <2>4. ASSUME NEW e \in document(HourOf(t)) PROVE InKeys(n, t)
    <3>1. e \in pub[n].entries /\ HourOf(e[2]) = HourOf(t)
          OBVIOUS
    <3>2. InKeys(n, e[2])
          BY <1>1, <1>2, <3>1 DEF CountsOf, SnapshotOf
    <3>3. QED  BY <3>1, <3>2 DEF InKeys
  <2> HIDE DEF document
  <2>5. QED  BY <1>4, <2>1, <2>2, <2>4
<1>8. LedgerOf(n)'
      BY <1>1, <1>2, <1>5 DEF CountsOf, LedgerOf
<1>9. SnapshotOf(n)'
  <2>1. SnapshotOf(n)
        BY <1>2 DEF CountsOf
  <2>2. ASSUME NEW e \in Entry, <<n, e>> \in counted, ~Past(e[2]), when[<<n, e>>] < pub[n].at
        PROVE  IF InKeys(n, e[2]) THEN e \in pub[n].entries ELSE e \in coarse'[n][HourOf(e[2])]
        BY <1>1, <1>6, <1>7, <2>1, <2>2 DEF SnapshotOf
  <2> HIDE DEF document
  <2>3. QED  BY <1>1, <1>3, <1>5, <2>1, <2>2 DEF SnapshotOf, Exact
<1>10. SentOf(n)'
  <2>1. ASSUME NEW e \in Entry, InKeys(n, e[2])
        PROVE  e \in coarse'[n][HourOf(e[2])] <=> e \in pub[n].entries
        BY <1>6, <1>7, <2>1
  <2>2. QED  BY <1>3, <1>5, <2>1 DEF SentOf
<1>11. CoarseOf(n)'
  <2>1. ASSUME NEW h \in Hour, NEW e \in coarse'[n][h]
        PROVE  <<n, e>> \in counted /\ HourOf(e[2]) = h
    <3>1. CASE e \in document(h)
          BY <1>1, <1>2, <3>1 DEF CountsOf, SnapshotOf
    <3>2. CASE e \notin document(h)
      <4>1. e \in coarse[n][h]
            BY <1>4, <2>1, <3>2
      <4>2. QED  BY <1>2, <4>1 DEF CountsOf, CoarseOf
    <3>3. QED  BY <3>1, <3>2
  <2>2. ASSUME NEW t \in Time, ~Past(t), t \notin dirty[n]
        PROVE  Exact(coarse'[n][HourOf(t)], n, t)
    <3>1. CASE InKeys(n, t)
      <4>1. Exact(pub[n].entries, n, t)
            BY <1>1, <1>2, <2>2, <3>1 DEF CountsOf, SnapshotOf
      <4>2. \A v \in Version : <<v, t>> \in document(HourOf(t)) <=> <<v, t>> \in pub[n].entries
            OBVIOUS
      <4>3. QED  BY <1>7, <3>1, <4>1, <4>2 DEF Exact
    <3>2. CASE ~InKeys(n, t)
          BY <1>2, <1>7, <2>2, <3>2 DEF CountsOf, CoarseOf
    <3>3. QED  BY <3>1, <3>2
  <2>3. ASSUME NEW e \in Entry, <<n, e>> \in counted, ~Past(e[2]), when[<<n, e>>] < marks[n].at
        PROVE  e \in coarse'[n][HourOf(e[2])]
    <3>1. CASE InKeys(n, e[2])
      <4>1. when[<<n, e>>] \in Int /\ marks[n].at \in Int /\ pub[n].at \in Nat
        <5>1. <<n, e>> \in Record
              BY DEF Record
        <5>2. QED  BY <1>2, <5>1, Instants, Numbers DEF TypeInv, StamperTypes, StoreTypes, Publication
      <4>2. marks[n].at <= pub[n].at
            BY <1>1 DEF TypeInv, Clock
      <4>3. e \in pub[n].entries
            BY <1>1, <1>2, <2>3, <3>1, <4>1, <4>2 DEF CountsOf, SnapshotOf
      <4>4. QED  BY <1>6, <1>7, <3>1, <4>3
    <3>2. CASE ~InKeys(n, e[2])
      <4>1. e \in coarse[n][HourOf(e[2])]
            BY <1>2, <2>3 DEF CountsOf, CoarseOf
      <4>2. QED  BY <1>6, <1>7, <3>2, <4>1
    <3>3. QED  BY <3>1, <3>2
  <2> HIDE DEF document
  <2>4. QED  BY <1>1, <1>5, <2>1, <2>2, <2>3 DEF CoarseOf, Exact
<1>12. \A m \in Node \ {n} : CountsOf(m)'
  <2>1. \A m \in Node \ {n} : pub'[m] = pub[m] /\ coarse'[m] = coarse[m]
        BY <1>1 DEF SendBuckets, TypeInv, StamperTypes, StoreTypes
  <2>2. QED  BY <1>1, <2>1, OthersStay
<1>13. QED  BY <1>8, <1>9, <1>10, <1>11, <1>12 DEF CountsInv, CountsOf

LEMMA SendDefinitionsCounts ==
  ASSUME TypeInv, TypeInv', CountsInv, NEW n \in Node, SendDefinitions(n)
  PROVE  CountsInv'
<1>1. /\ pub[n] # None /\ pub[n].stage = "definitions"
      /\ pub' = [pub EXCEPT ![n].stage = "mark"]
      /\ UNCHANGED <<now, records, ledger, dirty, coarse, marks>>
      BY DEF SendDefinitions, Stage, Advance
<1>2. CountsOf(n) /\ pub[n] \in Publication
      BY <1>1 DEF CountsInv, TypeInv, StamperTypes
<1>3. /\ pub'[n].at = pub[n].at /\ pub'[n].keys = pub[n].keys
      /\ pub'[n].entries = pub[n].entries
      BY <1>1, <1>2, Advanced DEF TypeInv, StamperTypes
<1>4. /\ \A t \in Time : Past(t)' = Past(t)
      /\ \A e \in Entry : Past(e[2])' = Past(e[2])
      /\ counted' = counted /\ when' = when
      /\ \A t : InKeys(n, t)' <=> InKeys(n, t)
      BY <1>1, <1>3 DEF Past, records, InKeys
<1>5. LedgerOf(n)' /\ CoarseOf(n)'
      BY <1>1, <1>2, <1>4 DEF CountsOf, LedgerOf, CoarseOf, Exact
<1>6. SnapshotOf(n)'
      BY <1>1, <1>2, <1>3, <1>4 DEF CountsOf, SnapshotOf, Exact
<1>7. SentOf(n)'
      BY <1>1, <1>2, <1>3, <1>4 DEF CountsOf, SentOf
<1>8. \A m \in Node \ {n} : CountsOf(m)'
  <2>1. \A m \in Node \ {n} : pub'[m] = pub[m]
        BY <1>1 DEF TypeInv, StamperTypes
  <2>2. QED  BY <1>1, <2>1, OthersStay
<1>9. QED  BY <1>5, <1>6, <1>7, <1>8 DEF CountsInv, CountsOf

LEMMA SendMarkCounts ==
  ASSUME TypeInv, TypeInv', CountsInv, NEW n \in Node, SendMark(n)
  PROVE  CountsInv'
<1> DEFINE changed == {t \in pub[n].keys :
                         {e \in ledger[n] : e[2] = t} # {e \in pub[n].entries : e[2] = t}}
<1>1. /\ pub[n] # None /\ pub[n].stage = "mark"
      /\ pub' = [pub EXCEPT ![n] = None]
      /\ marks' = [marks EXCEPT ![n] = [through |-> pub[n].at, at |-> pub[n].at]]
      /\ dirty' = [dirty EXCEPT ![n] = (@ \ pub[n].keys) \cup changed]
      /\ UNCHANGED <<now, records, ledger, coarse>>
      BY DEF SendMark, Stage, Through
<1>2. CountsOf(n) /\ pub[n] \in Publication
      BY <1>1 DEF CountsInv, TypeInv, StamperTypes
<1>3. /\ dirty'[n] = (dirty[n] \ pub[n].keys) \cup changed /\ pub'[n] = None
      /\ marks'[n].at = pub[n].at
      BY <1>1 DEF TypeInv, StamperTypes, StoreTypes
<1>4. /\ \A t \in Time : Past(t)' = Past(t)
      /\ \A e \in Entry : Past(e[2])' = Past(e[2])
      /\ counted' = counted /\ when' = when
      BY <1>1 DEF Past, records
<1>5. changed \subseteq pub[n].keys /\ pub[n].keys \subseteq dirty[n]
      BY <1>1, <1>2 DEF CountsOf, SnapshotOf
<1>6. LedgerOf(n)'
  <2> HIDE DEF changed
  <2>1. QED  BY <1>1, <1>2, <1>3, <1>4, <1>5 DEF CountsOf, LedgerOf
<1>7. SnapshotOf(n)' /\ SentOf(n)'
      BY <1>3 DEF SnapshotOf, SentOf
<1>8. \A e \in Entry : InKeys(n, e[2]) =>
        (e \in coarse[n][HourOf(e[2])] <=> e \in pub[n].entries)
      BY <1>1, <1>2 DEF CountsOf, SentOf
<1>9. ASSUME NEW t \in Time, ~Past(t), t \notin dirty'[n]
      PROVE  Exact(coarse[n][HourOf(t)], n, t)
  <2>1. CASE InKeys(n, t)
    <3>1. Exact(pub[n].entries, n, t)
      <4>1. CASE t \notin dirty[n]
            BY <1>1, <1>2, <1>9, <2>1, <4>1 DEF CountsOf, SnapshotOf
      <4>2. CASE t \in dirty[n]
        <5>1. {e \in ledger[n] : e[2] = t} = {e \in pub[n].entries : e[2] = t}
              BY <1>3, <1>9, <4>2
        <5>2. ASSUME NEW v \in Version
              PROVE  <<v, t>> \in pub[n].entries <=> <<n, <<v, t>>>> \in counted
          <6>1. <<v, t>> \in Entry /\ <<v, t>>[2] = t
                BY DEF Entry
          <6>2. <<v, t>> \in ledger[n] <=> <<n, <<v, t>>>> \in counted
                BY <1>2, <1>9, <6>1 DEF CountsOf, LedgerOf
          <6>3. <<v, t>> \in ledger[n] <=> <<v, t>> \in pub[n].entries
                BY <5>1, <6>1
          <6>4. QED  BY <6>2, <6>3
        <5>3. QED  BY <5>2 DEF Exact
      <4>3. QED  BY <4>1, <4>2
    <3>2. ASSUME NEW v \in Version
          PROVE  <<v, t>> \in coarse[n][HourOf(t)] <=> <<v, t>> \in pub[n].entries
      <4>1. <<v, t>> \in Entry /\ <<v, t>>[2] = t
            BY DEF Entry
      <4>2. QED  BY <1>8, <2>1, <4>1
    <3>3. QED  BY <3>1, <3>2 DEF Exact
  <2>2. CASE ~InKeys(n, t)
    <3>1. t \notin dirty[n]
          BY <1>3, <1>9, <2>2 DEF InKeys
    <3>2. QED  BY <1>2, <1>9, <3>1 DEF CountsOf, CoarseOf
  <2>3. QED  BY <2>1, <2>2
<1> HIDE DEF changed
<1>10. ASSUME NEW e \in Entry, <<n, e>> \in counted, ~Past(e[2]), when[<<n, e>>] < pub[n].at
       PROVE  e \in coarse[n][HourOf(e[2])]
      BY <1>1, <1>2, <1>8, <1>10 DEF CountsOf, SnapshotOf
<1>11. CoarseOf(n)'
      BY <1>1, <1>2, <1>3, <1>4, <1>9, <1>10 DEF CountsOf, CoarseOf, Exact
<1>12. \A m \in Node \ {n} : CountsOf(m)'
  <2>1. \A m \in Node \ {n} : pub'[m] = pub[m] /\ dirty'[m] = dirty[m] /\ marks'[m] = marks[m]
        BY <1>1 DEF TypeInv, StamperTypes, StoreTypes
  <2>2. QED  BY <1>1, <2>1, OthersStay
<1>13. QED  BY <1>6, <1>7, <1>11, <1>12 DEF CountsInv, CountsOf

LEMMA RestartCounts ==
  ASSUME TypeInv, TypeInv', CountsInv, NEW n \in Node, Restart(n)
  PROVE  CountsInv'
<1>1. /\ pub' = [pub EXCEPT ![n] = None]
      /\ dirty' = [dirty EXCEPT ![n] = {e[2] : e \in ledger[n]}]
      /\ UNCHANGED <<now, records, ledger, coarse, marks>>
      BY DEF Restart, stored
<1>2. CountsOf(n)
      BY DEF CountsInv
<1>3. dirty'[n] = {e[2] : e \in ledger[n]} /\ pub'[n] = None
      BY <1>1 DEF TypeInv, StamperTypes
<1>4. /\ \A t \in Time : Past(t)' = Past(t)
      /\ \A e \in Entry : Past(e[2])' = Past(e[2])
      /\ counted' = counted /\ when' = when
      BY <1>1 DEF Past, records
<1>5. LedgerOf(n)'
      BY <1>1, <1>2, <1>3, <1>4 DEF CountsOf, LedgerOf
<1>6. SnapshotOf(n)' /\ SentOf(n)'
      BY <1>3 DEF SnapshotOf, SentOf
<1>7. ASSUME NEW t \in Time, ~Past(t), t \notin dirty'[n]
      PROVE  Exact(coarse[n][HourOf(t)], n, t)
  <2>1. \A v \in Version : <<n, <<v, t>>>> \notin counted
    <3> SUFFICES ASSUME NEW v \in Version, <<n, <<v, t>>>> \in counted PROVE FALSE
        OBVIOUS
    <3>1. <<v, t>> \in Entry /\ <<v, t>>[2] = t
          BY DEF Entry
    <3>2. <<v, t>> \in ledger[n]
          BY <1>2, <1>7, <3>1 DEF CountsOf, LedgerOf
    <3>3. QED  BY <1>3, <1>7, <3>1, <3>2
  <2>2. \A v \in Version : <<v, t>> \notin coarse[n][HourOf(t)]
        BY <1>2, <2>1, HourInHour DEF CountsOf, CoarseOf
  <2>3. QED  BY <2>1, <2>2 DEF Exact
<1>8. CoarseOf(n)'
      BY <1>1, <1>2, <1>4, <1>7 DEF CountsOf, CoarseOf, Exact
<1>9. \A m \in Node \ {n} : CountsOf(m)'
  <2>1. \A m \in Node \ {n} : pub'[m] = pub[m] /\ dirty'[m] = dirty[m]
        BY <1>1 DEF TypeInv, StamperTypes
  <2>2. QED  BY <1>1, <2>1, OthersStay
<1>10. QED  BY <1>5, <1>6, <1>8, <1>9 DEF CountsInv, CountsOf

LEMMA CountsInit == Init => CountsInv
<1> SUFFICES ASSUME Init, NEW n \in Node PROVE CountsOf(n)
    BY DEF CountsInv
<1>1. LedgerOf(n) /\ SnapshotOf(n) /\ SentOf(n)
      BY DEF Init, LedgerOf, SnapshotOf, SentOf
<1>2. CoarseOf(n)
      BY HourInHour DEF Init, CoarseOf, Exact
<1>3. QED  BY <1>1, <1>2 DEF CountsOf

LEMMA CountsNext == TypeInv /\ TypeInv' /\ CountsInv /\ [Next]_vars => CountsInv'
<1> SUFFICES ASSUME TypeInv, TypeInv', CountsInv, [Next]_vars PROVE CountsInv'
    OBVIOUS
<1>1. ASSUME NEW n \in Node, NEW v \in Version, NEW t \in Time, Count(n, v, t) \/ CountLate(n, v, t)
      PROVE  CountsInv'
      BY <1>1, CountCounts, CountLateCounts
<1>2. ASSUME NEW n \in Node, PublishBegin(n) PROVE CountsInv'
      BY <1>2, PublishBeginCounts
<1>3. ASSUME NEW n \in Node, SendBuckets(n) PROVE CountsInv'
      BY <1>3, SendBucketsCounts
<1>4. ASSUME NEW n \in Node, SendDefinitions(n) PROVE CountsInv'
      BY <1>4, SendDefinitionsCounts
<1>5. ASSUME NEW n \in Node, SendMark(n) PROVE CountsInv'
      BY <1>5, SendMarkCounts
<1>6. ASSUME NEW n \in Node, Restart(n) PROVE CountsInv'
      BY <1>6, RestartCounts
<1>7. ASSUME UNCHANGED <<records, ledger, dirty, coarse, marks>>,
             \A m \in Node : pub'[m] = pub[m] \/ pub'[m] = None,
             now' = now \/ now' = now + 1
      PROVE  CountsInv'
      BY <1>7, CountsStay DEF CountsInv, records
<1>8. ASSUME NEW n \in Node, PublishFails(n) PROVE CountsInv'
      BY <1>7, <1>8 DEF PublishFails, stored, TypeInv, StamperTypes
<1>9. CASE ExpireDefinitions \/ Audit \/ ReadMarks \/ ReadVolume \/ Install \/ Tick \/ UNCHANGED vars
      BY <1>7, <1>9
      DEF ExpireDefinitions, Audit, ReadMarks, ReadVolume, Install, Tick, vars, stamper, stored
<1>10. QED  BY <1>1, <1>2, <1>3, <1>4, <1>5, <1>6, <1>8, <1>9 DEF Next

-----------------------------------------------------------------------------
(***************************************************************************)
(* The audit.                                                              *)
(***************************************************************************)
\* A bucket of the last completed hour is not past.
LEMMA LastHour ==
  ASSUME now \in Nat, NEW t \in Nat, HourOf(t) = HourOf(now) - 1
  PROVE  ~Past(t)
<1> DEFINE q == HourOf(now)
           p == HourOf(t)
<1>1. /\ q \in Nat /\ p \in Nat /\ p = q - 1 /\ Span \in Nat /\ Span >= 1
      /\ now < Span * q + Span /\ Span * p <= t /\ t < Span * p + Span
      BY HourBounds, Numbers
<1> HIDE DEF q, p
<1>2. Span * q = Span * p + Span
      BY <1>1
<1>3. Span * p \in Nat /\ Span * q \in Nat
      BY <1>1
<1>4. now - 2 * Span < t
      BY <1>1, <1>2, <1>3
<1>5. QED  BY <1>1, <1>4, Numbers DEF Past

\* What is shipped of one version is no more than is stamped, when it is in the document.
LEMMA ShippedIsStamped ==
  ASSUME TypeInv, NEW n \in Node, NEW h \in Hour, NEW v \in Version,
         NEW shipped \in SUBSET counted, NEW returned, <<n, v>> \notin returned,
         \A r \in shipped : r[1] = n => r[2] \in coarse[n][h]
  PROVE  ~Over(Indexed(shipped, returned, n, v), Stamped(n, h, v))
<1> DEFINE A == {r \in shipped : r[1] = n /\ r[2][1] = v}
           B == {e \in coarse[n][h] : e[1] = v}
           f == [r \in A |-> r[2]]
<1>1. coarse[n][h] \subseteq Entry /\ shipped \subseteq Record
      BY DEF TypeInv, StoreTypes, StamperTypes
<1>2. B \in SUBSET ({v} \X Time)
      BY <1>1 DEF Entry
<1>3. IsFiniteSet({v} \X Time)
  <2>1. 0 \in Int /\ MaxTime \in Int
        BY Numbers
  <2>3. IsFiniteSet(0 .. MaxTime)
        BY <2>1, FS_Interval
  <2>4. IsFiniteSet({v}) /\ IsFiniteSet(Time)
        BY <2>3, FS_Singleton DEF Time
  <2>5. QED  BY <2>4, FS_Product
<1>4. f \in Injection(A, B)
  <2>1. f \in [A -> B]
        OBVIOUS
  <2>2. ASSUME NEW r \in A, NEW s \in A, f[r] = f[s] PROVE r = s
    <3>1. r \in Record /\ s \in Record /\ r[1] = s[1] /\ r[2] = s[2]
          BY <1>1, <2>2
    <3>2. QED  BY <3>1 DEF Record
  <2> HIDE DEF A, B, f
  <2>3. QED  BY <2>1, <2>2 DEF Injection, IsInjective
<1> HIDE DEF A, B, f
<1>5. IsFiniteSet(B)
      BY <1>2, <1>3, FS_Subset
<1>6. IsFiniteSet(A) /\ Cardinality(A) <= Cardinality(B)
      BY <1>4, <1>5, FS_Injection
<1>7. Cardinality(A) \in Nat /\ Cardinality(B) \in Nat
      BY <1>5, <1>6, FS_CardinalityType
<1>8. QED  BY <1>6, <1>7 DEF A, B, Stamped, Indexed, Over

LEMMA AuditAccuses ==
  ASSUME TypeInv, CountsInv, Audit, NEW c \in failed', ~c[3]
  PROVE  \E r \in counted : /\ r[1] = c[1] /\ HourOf(r[2][2]) = c[2]
                            /\ when[r] >= marks[c[1]].at
<1> DEFINE h == HourOf(now) - 1
           audited == {n \in Node : coarse[n][h] # {}}
           hour == {r \in counted : r[1] \in audited /\ HourOf(r[2][2]) = h}
<1>1. h \in Hour
      BY DEF Audit
<1>2. PICK shipped \in SUBSET hour, returned \in SUBSET (audited \X Version) :
        failed' = {<<n, h, \E v \in Version : <<n, v>> \in returned>> :
          n \in {m \in audited : \E v \in Version :
                   Over(Indexed(shipped, returned, m, v), Stamped(m, h, v))}}
      BY DEF Audit
<1>3. PICK n \in audited :
        /\ c = <<n, h, \E v \in Version : <<n, v>> \in returned>>
        /\ \E v \in Version : Over(Indexed(shipped, returned, n, v), Stamped(n, h, v))
      BY <1>2
<1>4. PICK v \in Version : Over(Indexed(shipped, returned, n, v), Stamped(n, h, v))
      BY <1>3
<1>5. /\ n \in Node /\ <<n, v>> \notin returned /\ shipped \subseteq counted
      /\ \A r \in shipped : HourOf(r[2][2]) = h
      BY <1>3
<1> HIDE DEF audited, hour
<1>6. ASSUME \A r \in shipped : r[1] = n => when[r] < marks[n].at
      PROVE  FALSE
  <2>1. ASSUME NEW r \in shipped, r[1] = n PROVE r[2] \in coarse[n][h]
    <3>1. r \in counted /\ r \in Record /\ r[2] \in Entry /\ r[2][2] \in Nat /\ r = <<n, r[2]>>
          BY <1>5, <2>1, Instants DEF TypeInv, StamperTypes
    <3>2. now \in Nat
          BY Numbers DEF TypeInv, StamperTypes
    <3>3. ~Past(r[2][2])
          BY <1>5, <3>1, <3>2, LastHour DEF h
    <3>4. when[<<n, r[2]>>] < marks[n].at
          BY <1>6, <2>1, <3>1
    <3>5. QED  BY <1>5, <3>1, <3>3, <3>4 DEF CountsInv, CountsOf, CoarseOf
  <2> HIDE DEF h
  <2>2. QED  BY <1>1, <1>4, <1>5, <2>1, ShippedIsStamped
<1>7. PICK r \in shipped : r[1] = n /\ ~(when[r] < marks[n].at)
      BY <1>6
<1>8. r \in Record /\ when[r] \in Int /\ marks[n].at \in Int
      BY <1>5, Instants, Numbers DEF TypeInv, StamperTypes, StoreTypes
<1>9. when[r] >= marks[n].at
      BY <1>7, <1>8
<1>10. QED  BY <1>3, <1>5, <1>7, <1>9

\* The audit accuses a node only of records it returned and did not count, or counted
\* after it began its last accepted publication: the document of the hour has every
\* other, although the hour is sent again, fails to be sent and is taken up after a
\* restart, and although the index lags.
THEOREM TheAuditIsFair == Spec => AuditIsFair
<1> DEFINE Fair(c) == \/ c[3]
                      \/ \E r \in counted : /\ r[1] = c[1] /\ HourOf(r[2][2]) = c[2]
                                            /\ when[r] >= marks[c[1]].at
<1>1. TypeInv /\ CountsInv /\ [Next]_vars => [\A c \in failed' \ failed : Fair(c)]_vars
  <2> SUFFICES ASSUME TypeInv, CountsInv, [Next]_vars, NEW c \in failed' \ failed
               PROVE  Fair(c)
      OBVIOUS
  <2>1. CASE Audit
        BY <2>1, AuditAccuses
  <2>2. CASE ~Audit
    <3>1. CASE \E n \in Node, v \in Version, t \in Time : Count(n, v, t) \/ CountLate(n, v, t)
          BY <3>1 DEF Count, CountLate, stored
    <3>2. ASSUME NEW n \in Node,
                 \/ PublishBegin(n) \/ SendBuckets(n) \/ SendDefinitions(n)
                 \/ SendMark(n) \/ PublishFails(n) \/ Restart(n)
          PROVE  failed' = failed
          BY <3>2 DEF PublishBegin, SendBuckets, SendDefinitions, SendMark, PublishFails,
                      Restart, stored
    <3>3. CASE ExpireDefinitions \/ ReadMarks \/ ReadVolume \/ Install \/ Tick
      <4>1. failed' = failed \/ failed' = {}
            BY <3>3 DEF ExpireDefinitions, ReadMarks, ReadVolume, Install, Tick, stored
      <4>2. QED  BY <4>1
    <3>4. CASE UNCHANGED vars
          BY <3>4 DEF vars, stored
    <3>5. QED  BY <2>2, <3>1, <3>2, <3>3, <3>4 DEF Next
  <2>3. QED  BY <2>1, <2>2
<1>2. QED  BY <1>1, TypeInit, TypeNext, CountsInit, CountsNext, PTL DEF Spec, AuditIsFair

-----------------------------------------------------------------------------
(***************************************************************************)
(* Definitions.  A version a node counted, unless it is too long, is known: *)
(* its definition is at least as late as one of its records, or that record *)
(* is older than any definition is kept.  Until then the version is dirty,  *)
(* and no publication begun since is accepted.                              *)
(***************************************************************************)
Known(n, v) ==
  \E u \in Time : /\ <<n, <<v, u>>>> \in Seen
                  /\ u <= definitions[v] \/ u <= now - Retention

SendsOf(n) ==
  pub[n] # None =>
    /\ \A d \in pub[n].defs : <<n, d>> \in Seen
    /\ \A d, c \in pub[n].defs : d[1] = c[1] => d = c
    /\ pub[n].stage = "mark" => \A d \in pub[n].defs : d[1] \in Overlong \/ Known(n, d[1])

KnownOf(n) ==
  \A e \in Entry : <<n, e>> \in Seen /\ e[1] \notin Overlong =>
    /\ Known(n, e[1]) \/ e[1] \in dirtyVersions[n]
    /\ when[<<n, e>>] < marks[n].at => Known(n, e[1])
    /\ pub[n] # None /\ when[<<n, e>>] < pub[n].at =>
         Known(n, e[1]) \/ \E d \in pub[n].defs : d[1] = e[1]

DefinedOf(n)   == SendsOf(n) /\ KnownOf(n)
DefinitionsInv == \A n \in Node : DefinedOf(n)

\* Definitions move on, but for those that are too old.
MovesOn(v) ==
  \E x \in Last : /\ definitions'[v] = x
                  /\ x >= definitions[v] \/ definitions[v] <= now - Retention

LEMMA KnownStays ==
  ASSUME TypeInv, TypeInv', Seen \subseteq Seen', now' = now \/ now' = now + 1,
         NEW v \in Version, MovesOn(v), NEW n \in Node, Known(n, v)
  PROVE  Known(n, v)'
<1>1. PICK u \in Time : <<n, <<v, u>>>> \in Seen /\ (u <= definitions[v] \/ u <= now - Retention)
      BY DEF Known
<1>2. PICK x \in Last : definitions'[v] = x /\ (x >= definitions[v] \/ definitions[v] <= now - Retention)
      BY DEF MovesOn
<1>3. u \in Nat /\ now \in Nat /\ Retention \in Nat /\ x \in Int /\ definitions[v] \in Int
      BY Numbers DEF TypeInv, StamperTypes, StoreTypes
<1>4. u <= x \/ u <= now - Retention
      BY <1>1, <1>2, <1>3
<1>5. u <= definitions'[v] \/ u <= now' - Retention
      BY <1>2, <1>3, <1>4
<1>6. QED  BY <1>1, <1>5 DEF Known

LEMMA SameDefinitions ==
  ASSUME TypeInv, definitions' = definitions
  PROVE  \A v \in Version : MovesOn(v)
<1>1. \A v \in Version : definitions[v] \in Last /\ definitions[v] \in Int
      BY Numbers DEF TypeInv, StoreTypes
<1>2. QED  BY <1>1 DEF MovesOn

\* A step that leaves the stamper of a node and its records alone.
LEMMA DefinedStays ==
  ASSUME TypeInv, TypeInv', NEW m \in Node, DefinedOf(m),
         Seen \subseteq Seen', now' = now \/ now' = now + 1,
         \A v \in Version : MovesOn(v),
         \A e \in Entry : <<m, e>> \in Seen' <=> <<m, e>> \in Seen,
         \A e \in Entry : <<m, e>> \in Seen => when'[<<m, e>>] = when[<<m, e>>],
         pub'[m] = pub[m] \/ pub'[m] = None,
         dirtyVersions'[m] = dirtyVersions[m], marks'[m] = marks[m]
  PROVE  DefinedOf(m)'
<1>1. \A v \in Version : Known(m, v) => Known(m, v)'
      BY KnownStays
<1>2. \A e \in Entry : Known(m, e[1]) => Known(m, e[1])'
      BY <1>1, Instants
<1>3. pub[m] # None => pub[m].defs \subseteq Entry
      BY DEF TypeInv, StamperTypes, Publication
<1>4. SendsOf(m)'
      BY <1>2, <1>3 DEF DefinedOf, SendsOf
<1>5. KnownOf(m)'
      BY <1>2 DEF DefinedOf, KnownOf
<1>6. QED  BY <1>4, <1>5 DEF DefinedOf

\* A step of one stamper, seen from another.
LEMMA OthersDefined ==
  ASSUME NEW n \in Node, TypeInv, TypeInv', DefinitionsInv, now' = now, records' = records,
         \A v \in Version : MovesOn(v),
         \A m \in Node \ {n} : /\ dirtyVersions'[m] = dirtyVersions[m]
                               /\ pub'[m] = pub[m] /\ marks'[m] = marks[m]
  PROVE  \A m \in Node \ {n} : DefinedOf(m)'
BY DefinedStays DEF DefinitionsInv, records, Seen

LEMMA CountDefined ==
  ASSUME TypeInv, TypeInv', DefinitionsInv, NEW n \in Node, NEW v \in Version, NEW t \in Time,
         Count(n, v, t) \/ CountLate(n, v, t)
  PROVE  DefinitionsInv'
<1> DEFINE new == <<v, t>>
<1>1. /\ <<n, new>> \in Record /\ <<n, new>> \notin Seen /\ Seen' = Seen \cup {<<n, new>>}
      /\ when'[<<n, new>>] = now
      /\ \A r \in Record : r # <<n, new>> => when'[r] = when[r]
      /\ UNCHANGED <<now, pub, definitions, marks>>
      /\ \/ dirtyVersions' = [dirtyVersions EXCEPT ![n] = @ \cup {v}]
         \/ last[n][v] # Never /\ dirtyVersions' = dirtyVersions
      BY Arrived
<1>2. DefinedOf(n) /\ new \in Entry /\ new[1] = v
      BY DEF DefinitionsInv, Entry
<1>3. /\ dirtyVersions[n] \subseteq dirtyVersions'[n]
      /\ v \in dirtyVersions'[n] \/ last[n][v] # Never
      /\ \A m \in Node \ {n} : dirtyVersions'[m] = dirtyVersions[m]
      BY <1>1 DEF TypeInv, StamperTypes
<1>4. \A u \in Version : MovesOn(u)
      BY <1>1, SameDefinitions
<1>5. \A m \in Node : \A u \in Version : Known(m, u) => Known(m, u)'
      BY <1>1, <1>4, KnownStays
<1>6. \A e \in Entry : e[1] \in Version
      BY Instants
<1>7. ~(now < marks[n].at) /\ (pub[n] # None => ~(now < pub[n].at) /\ pub[n].defs \subseteq Entry)
  <2>1. now \in Nat /\ marks[n].at \in Int /\ (pub[n] # None => pub[n] \in Publication)
        BY Instants, Numbers DEF TypeInv, StamperTypes, StoreTypes
  <2>2. pub[n] # None => pub[n].at \in Nat /\ pub[n].defs \subseteq Entry
        BY <2>1, Numbers DEF Publication
  <2>3. QED  BY <2>1, <2>2 DEF TypeInv, Clock
<1>8. \A m \in Node : \A e \in Entry : <<m, e>> \in Seen =>
        <<m, e>> \in Seen' /\ when'[<<m, e>>] = when[<<m, e>>]
      BY <1>1 DEF Record
<1>9. last[n][v] # Never /\ v \notin Overlong => Known(n, v) \/ v \in dirtyVersions[n]
  <2> SUFFICES ASSUME last[n][v] # Never, v \notin Overlong
               PROVE  Known(n, v) \/ v \in dirtyVersions[n]
      OBVIOUS
  <2>1. <<n, <<v, last[n][v]>>>> \in Seen
        BY DEF TypeInv, Observed
  <2>2. <<v, last[n][v]>> \in Entry /\ <<v, last[n][v]>>[1] = v
        BY <2>1 DEF TypeInv, StamperTypes, Seen, Record
  <2>3. QED  BY <1>2, <2>1, <2>2 DEF DefinedOf, KnownOf
<1> HIDE DEF new
<1>10. SendsOf(n)'
      BY <1>1, <1>2, <1>5, <1>6, <1>7 DEF DefinedOf, SendsOf
<1>11. KnownOf(n)'
  <2> SUFFICES ASSUME NEW e \in Entry, <<n, e>> \in Seen', e[1] \notin Overlong
               PROVE  /\ Known(n, e[1])' \/ e[1] \in dirtyVersions'[n]
                      /\ when'[<<n, e>>] < marks[n].at => Known(n, e[1])'
                      /\ pub[n] # None /\ when'[<<n, e>>] < pub[n].at =>
                           Known(n, e[1])' \/ \E d \in pub[n].defs : d[1] = e[1]
      BY <1>1 DEF KnownOf
  <2>1. CASE <<n, e>> \in Seen
        BY <1>2, <1>3, <1>5, <1>6, <1>8, <2>1 DEF DefinedOf, KnownOf
  <2>2. CASE e = new
    <3>1. e[1] = v /\ when'[<<n, e>>] = now
          BY <1>1, <1>2, <2>2
    <3>2. QED  BY <1>3, <1>5, <1>7, <1>9, <3>1
  <2>3. QED  BY <1>1, <2>1, <2>2
<1>12. ASSUME NEW m \in Node \ {n} PROVE DefinedOf(m)'
  <2>1. /\ \A e \in Entry : <<m, e>> \in Seen' <=> <<m, e>> \in Seen
        /\ pub'[m] = pub[m] /\ marks'[m] = marks[m] /\ Seen \subseteq Seen'
        /\ dirtyVersions'[m] = dirtyVersions[m]
        BY <1>1, <1>3
  <2>2. QED  BY <1>1, <1>4, <1>8, <2>1, DefinedStays DEF DefinitionsInv
<1>13. QED  BY <1>10, <1>11, <1>12 DEF DefinitionsInv, DefinedOf

LEMMA PublishBeginDefined ==
  ASSUME TypeInv, TypeInv', DefinitionsInv, NEW n \in Node, PublishBegin(n)
  PROVE  DefinitionsInv'
<1> DEFINE keys == {t \in dirty[n] : ~Past(t)}
           sent == Hours({e \in ledger[n] : ~Past(e[2])}, keys)
<1>1. /\ pub' = [pub EXCEPT ![n] =
           [stage |-> IF keys # {} THEN "buckets" ELSE After(Rows(n)), keys |-> keys,
            entries |-> sent, defs |-> Rows(n), at |-> now]]
      /\ UNCHANGED <<now, records, dirtyVersions, definitions, marks>>
      BY DEF PublishBegin, stored
<1> HIDE DEF sent, keys
<1>2. pub'[n].defs = Rows(n) /\ pub'[n].at = now
      /\ (pub'[n].stage = "mark" => Rows(n) = {})
      BY <1>1 DEF TypeInv, StamperTypes, After
<1>3. DefinedOf(n)
      BY DEF DefinitionsInv
<1>4. \A d \in Rows(n) : <<n, d>> \in Seen
      BY DEF Rows, TypeInv, StamperTypes, Observed
<1>5. \A d, c \in Rows(n) : d[1] = c[1] => d = c
      BY DEF Rows
<1>6. \A v \in dirtyVersions[n] : \E d \in Rows(n) : d[1] = v
  <2> SUFFICES ASSUME NEW v \in dirtyVersions[n] PROVE \E d \in Rows(n) : d[1] = v
      OBVIOUS
  <2>1. <<v, last[n][v]>> \in Rows(n) /\ <<v, last[n][v]>>[1] = v
        BY DEF Rows
  <2>2. QED  BY <2>1
<1>7. \A v : Known(n, v)' <=> Known(n, v)
      BY <1>1 DEF Known, Seen, records
<1>8. SendsOf(n)'
      BY <1>1, <1>2, <1>4, <1>5 DEF SendsOf, Seen, records
<1>9. KnownOf(n)'
      BY <1>1, <1>2, <1>3, <1>6, <1>7 DEF DefinedOf, KnownOf, Seen, records
<1>10. \A m \in Node \ {n} : DefinedOf(m)'
  <2>1. \A m \in Node \ {n} : pub'[m] = pub[m]
        BY <1>1 DEF TypeInv, StamperTypes
  <2>2. QED  BY <1>1, <2>1, SameDefinitions, OthersDefined
<1>11. QED  BY <1>8, <1>9, <1>10 DEF DefinitionsInv, DefinedOf

LEMMA SendBucketsDefined ==
  ASSUME TypeInv, TypeInv', DefinitionsInv, NEW n \in Node, SendBuckets(n)
  PROVE  DefinitionsInv'
<1>1. /\ pub[n] # None
      /\ pub' = [pub EXCEPT ![n].stage = After(pub[n].defs)]
      /\ UNCHANGED <<now, records, dirtyVersions, definitions, marks>>
      BY DEF SendBuckets, Stage, Advance
<1>2. DefinedOf(n) /\ pub[n] \in Publication
      BY <1>1 DEF DefinitionsInv, TypeInv, StamperTypes
<1>3. /\ pub'[n].at = pub[n].at /\ pub'[n].defs = pub[n].defs
      /\ pub'[n].stage = After(pub[n].defs)
      BY <1>1, <1>2, Advanced DEF After, TypeInv, StamperTypes
<1>4. \A v : Known(n, v)' <=> Known(n, v)
      BY <1>1 DEF Known, Seen, records
<1>5. SendsOf(n)'
      BY <1>1, <1>2, <1>3, <1>4 DEF DefinedOf, SendsOf, After, Seen, records
<1>6. KnownOf(n)'
      BY <1>1, <1>2, <1>3, <1>4 DEF DefinedOf, KnownOf, Seen, records
<1>7. \A m \in Node \ {n} : DefinedOf(m)'
  <2>1. \A m \in Node \ {n} : pub'[m] = pub[m]
        BY <1>1 DEF TypeInv, StamperTypes
  <2>2. QED  BY <1>1, <2>1, SameDefinitions, OthersDefined
<1>8. QED  BY <1>5, <1>6, <1>7 DEF DefinitionsInv, DefinedOf

LEMMA SendDefinitionsDefined ==
  ASSUME TypeInv, TypeInv', DefinitionsInv, NEW n \in Node, SendDefinitions(n)
  PROVE  DefinitionsInv'
<1>1. /\ pub[n] # None
      /\ pub' = [pub EXCEPT ![n].stage = "mark"]
      /\ UNCHANGED <<now, records, dirtyVersions, marks>>
      BY DEF SendDefinitions, Stage, Advance
<1>2. DefinedOf(n) /\ pub[n] \in Publication
      BY <1>1 DEF DefinitionsInv, TypeInv, StamperTypes
<1>3. pub'[n].at = pub[n].at /\ pub'[n].defs = pub[n].defs
      BY <1>1, <1>2, Advanced DEF TypeInv, StamperTypes
<1>4. ASSUME NEW v \in Version
      PROVE  /\ MovesOn(v)
             /\ \A t \in Time : <<v, t>> \in pub[n].defs /\ v \notin Overlong =>
                  definitions'[v] \in Int /\ t <= definitions'[v]
  <2>1. definitions[v] \in Last /\ definitions[v] \in Int
        BY Numbers DEF TypeInv, StoreTypes
  <2>2. CASE v \notin Overlong /\ \E t \in Time : <<v, t>> \in pub[n].defs
    <3> DEFINE chosen == CHOOSE t \in Time : <<v, t>> \in pub[n].defs
    <3>1. chosen \in Time /\ <<v, chosen>> \in pub[n].defs
          BY <2>2
    <3>2. definitions'[v] = Merged(definitions[v], chosen)
          BY <2>2 DEF SendDefinitions
    <3> HIDE DEF chosen
    <3>3. chosen \in Last /\ chosen \in Int
          BY <3>1, Numbers DEF Last
    <3>4. \E x \in Last : definitions'[v] = x /\ x >= definitions[v] /\ x >= chosen /\ x \in Int
          BY <2>1, <3>2, <3>3 DEF Merged
    <3>5. \A t \in Time : <<v, t>> \in pub[n].defs => t = chosen
      <4> SUFFICES ASSUME NEW t \in Time, <<v, t>> \in pub[n].defs PROVE t = chosen
          OBVIOUS
      <4>1. <<v, t>>[1] = <<v, chosen>>[1]
            OBVIOUS
      <4>2. <<v, t>> = <<v, chosen>>
            BY <1>1, <1>2, <3>1, <4>1 DEF DefinedOf, SendsOf, Seen, records
      <4>3. QED  BY <4>2
    <3>6. QED  BY <3>3, <3>4, <3>5 DEF MovesOn
  <2>3. CASE ~(v \notin Overlong /\ \E t \in Time : <<v, t>> \in pub[n].defs)
    <3>1. definitions'[v] = definitions[v]
          BY <2>3 DEF SendDefinitions
    <3>2. QED  BY <2>1, <2>3, <3>1 DEF MovesOn
  <2>4. QED  BY <2>2, <2>3
<1>5. \A m \in Node : \A u \in Version : Known(m, u) => Known(m, u)'
      BY <1>1, <1>4, KnownStays DEF Seen, records
<1>6. \A e \in Entry : e[1] \in Version /\ e[2] \in Time /\ e = <<e[1], e[2]>>
      BY Instants
<1>7. \A d \in pub[n].defs : d[1] \in Overlong \/ Known(n, d[1])'
  <2> SUFFICES ASSUME NEW d \in pub[n].defs, d[1] \notin Overlong PROVE Known(n, d[1])'
      OBVIOUS
  <2>1. d \in Entry /\ <<n, d>> \in Seen
        BY <1>1, <1>2 DEF Publication, DefinedOf, SendsOf
  <2>2. d[1] \in Version /\ d[2] \in Time /\ d = <<d[1], d[2]>>
        BY <1>6, <2>1
  <2>3. d[2] <= definitions'[d[1]]
        BY <1>4, <2>2
  <2>4. <<n, <<d[1], d[2]>>>> \in Seen'
        BY <1>1, <2>1, <2>2 DEF Seen, records
  <2>5. QED  BY <2>2, <2>3, <2>4 DEF Known
<1>8. SendsOf(n)'
      BY <1>1, <1>2, <1>3, <1>7 DEF DefinedOf, SendsOf, Seen, records
<1>9. KnownOf(n)'
      BY <1>1, <1>2, <1>3, <1>5, <1>6 DEF DefinedOf, KnownOf, Seen, records
<1>10. \A m \in Node \ {n} : DefinedOf(m)'
  <2>1. \A m \in Node \ {n} : pub'[m] = pub[m]
        BY <1>1 DEF TypeInv, StamperTypes
  <2>2. QED  BY <1>1, <1>4, <2>1, OthersDefined
<1>11. QED  BY <1>8, <1>9, <1>10 DEF DefinitionsInv, DefinedOf

LEMMA SendMarkDefined ==
  ASSUME TypeInv, TypeInv', DefinitionsInv, NEW n \in Node, SendMark(n)
  PROVE  DefinitionsInv'
<1>1. /\ pub[n] # None /\ pub[n].stage = "mark"
      /\ pub' = [pub EXCEPT ![n] = None]
      /\ marks' = [marks EXCEPT ![n] = [through |-> pub[n].at, at |-> pub[n].at]]
      /\ dirtyVersions' = [dirtyVersions EXCEPT ![n] = dirtyVersions[n] \ {d[1] : d \in pub[n].defs}]
      /\ UNCHANGED <<now, records, definitions>>
      BY DEF SendMark, Stage, Through
<1>2. DefinedOf(n)
      BY DEF DefinitionsInv
<1>3. /\ dirtyVersions'[n] = dirtyVersions[n] \ {d[1] : d \in pub[n].defs}
      /\ marks'[n].at = pub[n].at /\ pub'[n] = None
      BY <1>1 DEF TypeInv, StamperTypes, StoreTypes
<1>4. \A v : Known(n, v)' <=> Known(n, v)
      BY <1>1 DEF Known, Seen, records
<1>5. \A d \in pub[n].defs : d[1] \in Overlong \/ Known(n, d[1])
      BY <1>1, <1>2 DEF DefinedOf, SendsOf, Seen, records
<1>6. SendsOf(n)'
      BY <1>3 DEF SendsOf
<1>7. KnownOf(n)'
      BY <1>1, <1>2, <1>3, <1>4, <1>5 DEF DefinedOf, KnownOf, Seen, records
<1>8. \A m \in Node \ {n} : DefinedOf(m)'
  <2>1. \A m \in Node \ {n} : pub'[m] = pub[m] /\ dirtyVersions'[m] = dirtyVersions[m] /\ marks'[m] = marks[m]
        BY <1>1 DEF TypeInv, StamperTypes, StoreTypes
  <2>2. QED  BY <1>1, <2>1, SameDefinitions, OthersDefined
<1>9. QED  BY <1>6, <1>7, <1>8 DEF DefinitionsInv, DefinedOf

LEMMA RestartDefined ==
  ASSUME TypeInv, TypeInv', DefinitionsInv, NEW n \in Node, Restart(n)
  PROVE  DefinitionsInv'
<1>1. /\ pub' = [pub EXCEPT ![n] = None]
      /\ dirtyVersions' = [dirtyVersions EXCEPT ![n] = {v \in Version : last[n][v] # Never}]
      /\ UNCHANGED <<now, records, definitions, marks>>
      BY DEF Restart, stored
<1>2. DefinedOf(n)
      BY DEF DefinitionsInv
<1>3. pub'[n] = None /\ dirtyVersions[n] \subseteq dirtyVersions'[n]
      BY <1>1 DEF TypeInv, StamperTypes, Observed
<1>4. \A v : Known(n, v)' <=> Known(n, v)
      BY <1>1 DEF Known, Seen, records
<1>5. SendsOf(n)' /\ KnownOf(n)'
      BY <1>1, <1>2, <1>3, <1>4 DEF DefinedOf, SendsOf, KnownOf, Seen, records
<1>6. \A m \in Node \ {n} : DefinedOf(m)'
  <2>1. \A m \in Node \ {n} : pub'[m] = pub[m] /\ dirtyVersions'[m] = dirtyVersions[m]
        BY <1>1 DEF TypeInv, StamperTypes
  <2>2. QED  BY <1>1, <2>1, SameDefinitions, OthersDefined
<1>7. QED  BY <1>5, <1>6 DEF DefinitionsInv, DefinedOf

LEMMA ExpireDefined ==
  ASSUME TypeInv, TypeInv', DefinitionsInv, ExpireDefinitions
  PROVE  DefinitionsInv'
<1>1. PICK gone \in SUBSET {v \in Version : definitions[v] # Never /\ definitions[v] <= now - Retention} :
        /\ definitions' = [v \in Version |-> IF v \in gone THEN Never ELSE definitions[v]]
        /\ UNCHANGED <<now, records, stamper, marks>>
      BY DEF ExpireDefinitions
<1>2. ASSUME NEW v \in Version PROVE MovesOn(v)
  <2>1. definitions[v] \in Last /\ definitions[v] \in Int /\ Never \in Last
        BY Numbers DEF TypeInv, StoreTypes, Last
  <2>2. QED  BY <1>1, <2>1 DEF MovesOn
<1>3. QED  BY <1>1, <1>2, DefinedStays DEF DefinitionsInv, stamper, Seen, records

LEMMA DefinitionsInit == Init => DefinitionsInv
BY DEF Init, DefinitionsInv, DefinedOf, SendsOf, KnownOf, Seen

LEMMA DefinitionsNext == TypeInv /\ TypeInv' /\ DefinitionsInv /\ [Next]_vars => DefinitionsInv'
<1> SUFFICES ASSUME TypeInv, TypeInv', DefinitionsInv, [Next]_vars PROVE DefinitionsInv'
    OBVIOUS
<1>1. ASSUME NEW n \in Node, NEW v \in Version, NEW t \in Time, Count(n, v, t) \/ CountLate(n, v, t)
      PROVE  DefinitionsInv'
      BY <1>1, CountDefined
<1>2. ASSUME NEW n \in Node, PublishBegin(n) PROVE DefinitionsInv'
      BY <1>2, PublishBeginDefined
<1>3. ASSUME NEW n \in Node, SendBuckets(n) PROVE DefinitionsInv'
      BY <1>3, SendBucketsDefined
<1>4. ASSUME NEW n \in Node, SendDefinitions(n) PROVE DefinitionsInv'
      BY <1>4, SendDefinitionsDefined
<1>5. ASSUME NEW n \in Node, SendMark(n) PROVE DefinitionsInv'
      BY <1>5, SendMarkDefined
<1>6. ASSUME NEW n \in Node, Restart(n) PROVE DefinitionsInv'
      BY <1>6, RestartDefined
<1>7. ASSUME UNCHANGED <<records, dirtyVersions, definitions, marks>>,
             \A m \in Node : pub'[m] = pub[m] \/ pub'[m] = None,
             now' = now \/ now' = now + 1
      PROVE  DefinitionsInv'
      BY <1>7, SameDefinitions, DefinedStays DEF DefinitionsInv, Seen, records
<1>8. ASSUME NEW n \in Node, PublishFails(n) PROVE DefinitionsInv'
      BY <1>7, <1>8 DEF PublishFails, stored, TypeInv, StamperTypes
<1>9. CASE Audit \/ ReadMarks \/ ReadVolume \/ Install \/ Tick \/ UNCHANGED vars
      BY <1>7, <1>9
      DEF Audit, ReadMarks, ReadVolume, Install, Tick, vars, stamper, stored
<1>10. QED  BY <1>1, <1>2, <1>3, <1>4, <1>5, <1>6, <1>8, <1>9, ExpireDefined DEF Next

-----------------------------------------------------------------------------
(***************************************************************************)
(* The view.                                                               *)
(***************************************************************************)
Live        == LiveNodes(build.held, build.at)
BuildCutoff == Cutoff(build.held, build.at)

InWindow(r, cutoff) == Start(cutoff) <= r[2][2] /\ r[2][2] < cutoff

\* What a refresh has read of the live nodes is what they counted in the window, in time
\* for the publications it has read of.
BuildInv ==
  build # None =>
    /\ \A r \in build.counts : r \in counted /\ InWindow(r, BuildCutoff)
    /\ build.read =>
         \A r \in counted : /\ r[1] \in Live /\ InWindow(r, BuildCutoff)
                            /\ r[2][2] >= HeldSince(BuildCutoff)
                            /\ when[r] < build.held[r[1]].at
                            => r \in build.counts

ViewInv ==
  /\ view.status = "complete" =>
       /\ view.cutoff \in Int
       /\ \A n \in view.nodes : view.cutoff <= view.held[n].through /\ view.held[n].at <= now
  /\ CompleteViewIsExact /\ NewVersionIsListed

\* The cutoff is behind the watermarks of the live nodes, and less than an hour and
\* IDLE_NODE_MS behind the clock.
LEMMA CutoffBounds ==
  ASSUME TypeInv, build # None
  PROVE  /\ BuildCutoff \in Nat /\ BuildCutoff <= now /\ now <= BuildCutoff + Span + Idle
         /\ \A n \in Live : n \in Node /\ BuildCutoff <= build.held[n].through
         /\ \A n \in Node : build.held[n].at <= marks[n].at /\ build.held[n].at <= now
         /\ \E x \in Nat : BuildCutoff = FloorOf(x)
<1>1. build \in Build /\ now \in Nat
      BY Numbers DEF TypeInv, ShifterTypes, StamperTypes
<1>2. /\ build.held \in [Node -> Mark] /\ build.at \in Time
      /\ \A n \in Node : build.held[n].through = build.held[n].at
      /\ \A n \in Node : build.held[n].through <= marks[n].through
      /\ build.at <= now /\ now <= build.at + 1 /\ Live # {}
      BY <1>1 DEF Build, TypeInv, Reading, Live
<1>3. PICK l \in Live :
        /\ build.held[l].through \in Time /\ build.at - build.held[l].through <= Idle
        /\ \A n \in Live : build.held[l].through <= build.held[n].through
        /\ BuildCutoff = FloorOf(build.held[l].through)
        /\ BuildCutoff \in Nat /\ BuildCutoff <= build.held[l].through
        /\ build.held[l].through < BuildCutoff + Span
      BY <1>2, CutoffOf DEF Live, BuildCutoff
<1>4. \A n \in Live : n \in Node
      BY DEF Live, LiveNodes
<1>5. /\ build.held[l].through \in Nat /\ build.at \in Nat /\ Span \in Nat /\ Idle \in Nat
      /\ \A n \in Node : build.held[n].through \in Int /\ marks[n].through \in Int
      BY <1>2, <1>3, Instants, Numbers DEF TypeInv, StoreTypes
<1>6. \A n \in Live : BuildCutoff <= build.held[n].through
      BY <1>3, <1>4, <1>5
<1>7. \A n \in Node : /\ build.held[n].at <= marks[n].at /\ build.held[n].at <= now
                       /\ build.held[n].through <= now
      BY <1>1, <1>2, <1>5 DEF TypeInv, Clock
<1>8. BuildCutoff <= now
      BY <1>1, <1>3, <1>4, <1>5, <1>7
<1>9. now <= BuildCutoff + Span + Idle
      BY <1>1, <1>2, <1>3, <1>5
<1>10. \E x \in Nat : BuildCutoff = FloorOf(x)
      BY <1>3, <1>5
<1>11. QED  BY <1>3, <1>4, <1>6, <1>7, <1>8, <1>9, <1>10

\* What the three searches find of a window is what the nodes sent of it.
LEMMA VolumeRead ==
  ASSUME TypeInv, CountsInv, ReadVolume
  PROVE  /\ \A r \in build'.counts : r \in counted /\ InWindow(r, BuildCutoff)
         /\ \A r \in counted : /\ r[1] \in Live /\ InWindow(r, BuildCutoff)
                               /\ r[2][2] >= HeldSince(BuildCutoff)
                               /\ when[r] < build.held[r[1]].at
                               => r \in build'.counts
<1> DEFINE c == BuildCutoff
           hours == {h \in Hour : Start(c) <= h * Span /\ h * Span < c}
           counts == UNION {{<<n, e>> : e \in UNION {coarse[n][h] : h \in hours}} : n \in Node}
<1>1. build # None /\ build \in Build /\ build' = [build EXCEPT !.read = TRUE, !.counts = counts]
      BY DEF ReadVolume, BuildCutoff, TypeInv, ShifterTypes
<1>2. build'.counts = counts
      BY <1>1 DEF Build
<1>3. /\ c \in Nat /\ now <= c + Span + Idle /\ now \in Nat
      /\ \A n \in Node : build.held[n].at <= marks[n].at
      BY <1>1, CutoffBounds, Numbers DEF TypeInv, StamperTypes
<1>4. PICK x \in Nat : c = FloorOf(x)
      BY <1>1, CutoffBounds
<1>5. \A t \in Time : HourOf(t) \in hours <=> Start(c) <= t /\ t < c
  <2> SUFFICES ASSUME NEW t \in Time PROVE HourOf(t) \in hours <=> Start(c) <= t /\ t < c
      OBVIOUS
  <2>1. t \in Nat /\ HourOf(t) \in Hour
        BY HourInHour, Numbers
  <2> HIDE DEF c
  <2>2. /\ t < c <=> HourOf(t) * Span < c
        /\ Start(c) <= t <=> Start(c) <= HourOf(t) * Span
        BY <1>4, <2>1, HoursOfWindow
  <2>3. QED  BY <2>1, <2>2
<1> HIDE DEF c, hours
<1>6. ASSUME NEW r \in counts PROVE r \in counted /\ InWindow(r, c)
  <2>1. PICK n \in Node, h \in hours : \E e \in coarse[n][h] : r = <<n, e>>
        BY <1>6
  <2> PICK e \in coarse[n][h] : r = <<n, e>>
      BY <2>1
  <2>2. h \in Hour /\ coarse[n][h] \subseteq Entry
        BY DEF hours, TypeInv, StoreTypes
  <2>3. <<n, e>> \in counted /\ HourOf(e[2]) = h
        BY <2>2 DEF CountsInv, CountsOf, CoarseOf
  <2>4. e[2] \in Time
        BY <2>2, Instants
  <2>5. Start(c) <= e[2] /\ e[2] < c
        BY <1>5, <2>3, <2>4
  <2>6. QED  BY <2>3, <2>5 DEF InWindow
<1>7. ASSUME NEW r \in counted, r[1] \in Live, InWindow(r, c), r[2][2] >= HeldSince(c),
             when[r] < build.held[r[1]].at
      PROVE  r \in counts
  <2> DEFINE n == r[1]
             t == r[2][2]
  <2>1. /\ n \in Node /\ t \in Time /\ t \in Nat /\ r \in Record /\ r[2] \in Entry
        /\ r = <<n, r[2]>>
        BY <1>7, Instants DEF TypeInv, StamperTypes
  <2>2. when[r] < marks[n].at
    <3>1. when[r] \in Int /\ build.held[n].at \in Int /\ marks[n].at \in Int
          BY <1>1, <2>1, Instants, Numbers DEF TypeInv, StamperTypes, StoreTypes, Build
    <3>2. build.held[n].at <= marks[n].at /\ when[r] < build.held[n].at
          BY <1>3, <1>7, <2>1
    <3>3. QED  BY <3>1, <3>2
  <2> HIDE DEF n
  <2>3. t >= c + Span + Idle - Ledger /\ Start(c) <= t /\ t < c
        BY <1>7 DEF HeldSince, InWindow
  <2>4. ~Past(t)
        BY <1>3, <2>1, <2>3, Numbers DEF Past
  <2>5. r[2] \in coarse[n][HourOf(t)]
        BY <2>1, <2>2, <2>4 DEF CountsInv, CountsOf, CoarseOf
  <2> HIDE DEF t
  <2>6. HourOf(t) \in hours
        BY <1>5, <2>1, <2>3
  <2>7. QED  BY <2>1, <2>5, <2>6
<1> HIDE DEF counts
<1>8. QED  BY <1>2, <1>6, <1>7 DEF c

\* What a complete view of this refresh says.
LEMMA Installed ==
  ASSUME TypeInv, DefinitionsInv, BuildInv, Install
  PROVE  ViewInv'
<1> DEFINE c == BuildCutoff
           nodes == {r[1] : r \in build.counts}
<1>1. /\ build # None /\ build.read /\ build \in Build
      /\ UNCHANGED <<now, records>>
      BY DEF Install, TypeInv, ShifterTypes
<1>2. /\ view'.cutoff = c /\ view'.nodes = nodes /\ view'.counts = build.counts
      /\ view'.held = build.held
      /\ view'.status = Coverage(build.held, build.at, nodes, c)
      /\ view'.rows = {v \in Version : definitions[v] # Never /\ Start(c) <= definitions[v]}
      BY DEF Install, BuildCutoff
<1>3. /\ c \in Nat /\ c <= now /\ now <= c + Span + Idle /\ now \in Nat
      /\ \A n \in Live : n \in Node /\ c <= build.held[n].through
      /\ \A n \in Node : build.held[n].at <= marks[n].at /\ build.held[n].at <= now
      BY <1>1, CutoffBounds, Numbers DEF TypeInv, StamperTypes
<1>4. view'.status = "complete" => nodes \subseteq Live
  <2> SUFFICES ASSUME view'.status = "complete" PROVE nodes \subseteq Live
      OBVIOUS
  <2> HIDE DEF nodes
  <2>1. IdleIn(build.held, build.at, nodes) = {}
        BY <1>2 DEF Coverage
  <2>2. QED  BY <2>1 DEF IdleIn, Live
<1>5. /\ \A r \in build.counts : r \in counted /\ Start(c) <= r[2][2] /\ r[2][2] < c
      /\ \A r \in counted : /\ r[1] \in Live /\ Start(c) <= r[2][2] /\ r[2][2] < c
                            /\ r[2][2] >= HeldSince(c) /\ when[r] < build.held[r[1]].at
                            => r \in build.counts
      BY <1>1 DEF BuildInv, InWindow
\* A record of the window that is in time was counted before the publication began.
<1>6. ASSUME NEW r \in counted, r[1] \in Live, r[2][2] < c, InTime(r)'
      PROVE  when[r] < build.held[r[1]].at
  <2>1. r[2][2] \in Nat /\ r[1] \in Node /\ build.held[r[1]].through \in Int
        BY <1>1, <1>6, Instants DEF TypeInv, StamperTypes, Build
  <2>2. r[2][2] < build.held[r[1]].through
        BY <1>3, <1>6, <2>1
  <2>3. QED  BY <1>1, <1>2, <1>6, <2>2 DEF InTime, records
<1> HIDE DEF c
<1>7. CompleteViewIsExact'
  <2> SUFFICES ASSUME view'.status = "complete"
               PROVE  /\ build.counts \subseteq {r \in counted : r[1] \in nodes /\ Start(c) <= r[2][2] /\ r[2][2] < c}
                      /\ \A r \in counted : /\ r[1] \in nodes /\ Start(c) <= r[2][2] /\ r[2][2] < c
                                            /\ InTime(r)' /\ r[2][2] >= HeldSince(c)
                                            => r \in build.counts
      BY <1>1, <1>2 DEF CompleteViewIsExact, Start, HeldSince, records
  <2>1. \A r \in build.counts : r[1] \in nodes
        OBVIOUS
  <2> HIDE DEF nodes
  <2>2. QED  BY <1>4, <1>5, <1>6, <2>1
<1>8. NewVersionIsListed'
  <2> SUFFICES ASSUME view'.status = "complete", NEW r \in build.counts, InTime(r)',
                      r[2][1] \notin Overlong
               PROVE  r[2][1] \in view'.rows
                        \/ \E s \in Seen : /\ s[1] = r[1] /\ s[2][1] = r[2][1] /\ s[2][2] < Start(c)
      BY <1>1, <1>2 DEF NewVersionIsListed, Start, Seen, records
  <2> DEFINE n == r[1]
             v == r[2][1]
             t == r[2][2]
  <2>1. /\ r \in counted /\ t < c /\ n \in Live
        BY <1>4, <1>5
  <2>2. n \in Node /\ v \in Version /\ t \in Nat /\ r[2] \in Entry /\ r = <<n, r[2]>> /\ r \in Record
        BY <2>1, Instants DEF TypeInv, StamperTypes
  <2>3. when[r] < marks[n].at
    <3>1. when[r] \in Int /\ build.held[n].at \in Int /\ marks[n].at \in Int
          BY <1>1, <2>2, Instants, Numbers DEF TypeInv, StamperTypes, StoreTypes, Build
    <3>2. build.held[n].at <= marks[n].at /\ when[r] < build.held[n].at
          BY <1>3, <1>6, <2>1, <2>2
    <3>3. QED  BY <3>1, <3>2
  <2>4. Known(n, v)
        BY <2>1, <2>2, <2>3 DEF DefinitionsInv, DefinedOf, KnownOf, Seen
  <2> HIDE DEF n, v, t
  <2>5. PICK u \in Time : /\ <<n, <<v, u>>>> \in Seen
                          /\ u <= definitions[v] \/ u <= now - Retention
        BY <2>4 DEF Known
  <2>6. u \in Nat /\ definitions[v] \in Int /\ Start(c) = c - Window /\ Start(c) \in Int
    <3>1. definitions[v] \in Last
          BY <2>2 DEF TypeInv, StoreTypes
    <3>2. \A x \in Last : x \in Int
          BY Numbers
    <3>3. u \in Nat
          BY Numbers
    <3>4. Window \in Int /\ c \in Int
          BY <1>3, Numbers
    <3>5. QED  BY <3>1, <3>2, <3>3, <3>4 DEF Start
  <2>7. CASE u < Start(c)
    <3>1. <<n, <<v, u>>>>[1] = n /\ <<n, <<v, u>>>>[2][1] = v /\ <<n, <<v, u>>>>[2][2] = u
          OBVIOUS
    <3>2. QED  BY <2>5, <2>7, <3>1 DEF n, v
  <2>8. CASE ~(u < Start(c))
    <3>1. ~(u <= now - Retention)
          BY <1>3, <2>6, <2>8, Numbers
    <3>2. definitions[v] # Never /\ Start(c) <= definitions[v]
          BY <2>5, <2>6, <2>8, <3>1 DEF Never
    <3>3. QED  BY <1>2, <2>2, <3>2 DEF v
  <2>9. QED  BY <2>7, <2>8
<1>9. view'.status = "complete" =>
        /\ view'.cutoff \in Int
        /\ \A n \in view'.nodes : view'.cutoff <= view'.held[n].through /\ view'.held[n].at <= now'
      BY <1>1, <1>2, <1>3, <1>4
<1>10. QED  BY <1>7, <1>8, <1>9 DEF ViewInv

LEMMA ViewInit == Init => BuildInv /\ ViewInv
BY DEF Init, NoView, BuildInv, ViewInv, CompleteViewIsExact, NewVersionIsListed

\* A step that counts one record at most, and changes no other.
Counts ==
  /\ counted \subseteq counted' /\ Seen \subseteq Seen'
  /\ \A r \in Seen : when'[r] = when[r]
  /\ \A r \in counted' \ counted : when'[r] = now

\* What is counted now is not in time for any view: the watermarks it has read are of
\* publications that were begun before.
LEMMA ViewStays ==
  ASSUME TypeInv, TypeInv', ViewInv, view' = view, now' = now \/ now' = now + 1, Counts
  PROVE  ViewInv'
<1> SUFFICES ASSUME view.status = "complete" PROVE ViewInv'
    BY DEF ViewInv, CompleteViewIsExact, NewVersionIsListed
<1>1. /\ now \in Nat /\ view.cutoff \in Int /\ view.held \in [Node -> Mark]
      /\ view.nodes \subseteq Node
      /\ \A n \in view.nodes : view.cutoff <= view.held[n].through /\ view.held[n].at <= now
      BY Numbers DEF ViewInv, TypeInv, StamperTypes, ShifterTypes, View
<1>2. \A n \in view.nodes : /\ view.held[n].through \in Int /\ view.held[n].at \in Int
                            /\ view.held[n].at <= now'
      BY <1>1, Instants
<1>3. \A r \in Seen : InTime(r)' <=> InTime(r)
      BY DEF InTime, Counts
<1>4. ASSUME NEW r \in counted' \ counted, r[1] \in view.nodes, r[2][2] < view.cutoff
      PROVE  ~InTime(r)'
  <2>1. r[2][2] \in Int
        BY <1>4, Instants DEF TypeInv, StamperTypes
  <2>2. r[2][2] < view.held[r[1]].through /\ ~(now < view.held[r[1]].at)
        BY <1>1, <1>2, <1>4, <2>1
  <2>3. QED  BY <1>4, <2>2 DEF InTime, Counts
<1>5. CompleteViewIsExact'
  <2>1. /\ view.counts \subseteq counted
        /\ \A r \in view.counts : r[1] \in view.nodes /\ Start(view.cutoff) <= r[2][2]
                                  /\ r[2][2] < view.cutoff
        /\ \A r \in counted : /\ r[1] \in view.nodes /\ Start(view.cutoff) <= r[2][2]
                              /\ r[2][2] < view.cutoff /\ InTime(r)
                              /\ r[2][2] >= HeldSince(view.cutoff)
                              => r \in view.counts
        BY DEF ViewInv, CompleteViewIsExact
  <2>2. \A r \in counted' : /\ r[1] \in view.nodes /\ Start(view.cutoff) <= r[2][2]
                            /\ r[2][2] < view.cutoff /\ InTime(r)'
                            /\ r[2][2] >= HeldSince(view.cutoff)
                            => r \in view.counts
        BY <1>3, <1>4, <2>1 DEF Seen
  <2>3. QED  BY <2>1, <2>2 DEF CompleteViewIsExact, Start, HeldSince, Counts
<1>6. NewVersionIsListed'
  <2>1. view.counts \subseteq Seen
        BY DEF ViewInv, CompleteViewIsExact, Seen
  <2>2. QED  BY <1>3, <2>1 DEF ViewInv, NewVersionIsListed, Start, Seen, Counts
<1>7. QED  BY <1>1, <1>2, <1>5, <1>6 DEF ViewInv

LEMMA BuildStays ==
  ASSUME TypeInv, BuildInv, build' = build, Counts
  PROVE  BuildInv'
<1> SUFFICES ASSUME build # None PROVE BuildInv'
    BY DEF BuildInv
<1>1. BuildCutoff' = BuildCutoff /\ Live' = Live
      BY DEF BuildCutoff, Live, Cutoff, LiveNodes, IsIdle
<1>2. \A n \in Live : ~(now < build.held[n].at)
  <2>1. build \in Build /\ now \in Nat /\ Live \subseteq Node
        BY Numbers DEF TypeInv, ShifterTypes, StamperTypes, Live, LiveNodes
  <2>2. \A n \in Live : build.held[n].at \in Int /\ build.held[n].at <= now
        BY <2>1, CutoffBounds, Instants DEF Build
  <2>3. QED  BY <2>1, <2>2
<1>3. \A r \in counted' : r[1] \in Live /\ when'[r] < build.held[r[1]].at =>
        r \in counted /\ when'[r] = when[r]
      BY <1>2 DEF Counts, Seen
<1>4. \A r \in build.counts : r \in counted' /\ InWindow(r, BuildCutoff)
      BY DEF BuildInv, Counts
<1>5. QED  BY <1>1, <1>3, <1>4 DEF BuildInv, InWindow, HeldSince, Start

LEMMA ViewNext ==
  TypeInv /\ TypeInv' /\ CountsInv /\ DefinitionsInv /\ BuildInv /\ ViewInv /\ [Next]_vars
    => BuildInv' /\ ViewInv'
<1> SUFFICES ASSUME TypeInv, TypeInv', CountsInv, DefinitionsInv, BuildInv, ViewInv, [Next]_vars
             PROVE  BuildInv' /\ ViewInv'
    OBVIOUS
<1>1. ASSUME NEW n \in Node, NEW v \in Version, NEW t \in Time, Count(n, v, t) \/ CountLate(n, v, t)
      PROVE  BuildInv' /\ ViewInv'
  <2>1. now' = now /\ build' = build /\ view' = view
        BY <1>1, Arrived
  <2>2. Counts
    <3>1. /\ <<n, <<v, t>>>> \notin Seen /\ Seen' = Seen \cup {<<n, <<v, t>>>>}
          /\ counted \subseteq counted' /\ counted' \subseteq counted \cup {<<n, <<v, t>>>>}
          /\ when'[<<n, <<v, t>>>>] = now
          /\ \A r \in Record : r # <<n, <<v, t>>>> => when'[r] = when[r]
          BY <1>1, Arrived
    <3>2. Seen \subseteq Record
          BY DEF Seen, TypeInv, StamperTypes
    <3>3. QED  BY <3>1, <3>2 DEF Counts
  <2>3. QED  BY <2>1, <2>2, BuildStays, ViewStays
<1>2. CASE ReadMarks
  <2>1. Counts /\ now' = now
        BY <1>2 DEF ReadMarks, Counts, Seen, records
  <2>2. BuildInv'
        BY <1>2 DEF ReadMarks, BuildInv
  <2>3. CASE view' = view
        BY <2>1, <2>2, <2>3, ViewStays
  <2>4. CASE view' = NoView
        BY <2>2, <2>4 DEF NoView, ViewInv, CompleteViewIsExact, NewVersionIsListed
  <2>5. QED  BY <1>2, <2>3, <2>4 DEF ReadMarks
<1>3. CASE ReadVolume
  <2>1. Counts /\ records' = records /\ now' = now /\ view' = view
        BY <1>3 DEF ReadVolume, Counts, Seen, records
  <2>2. build # None /\ build \in Build
        BY <1>3 DEF ReadVolume, TypeInv, ShifterTypes
  <2>3. build'.held = build.held /\ build'.at = build.at
        BY <1>3, <2>2 DEF ReadVolume, Build
  <2>4. BuildCutoff' = BuildCutoff /\ Live' = Live
        BY <2>3 DEF BuildCutoff, Live, Cutoff, LiveNodes, IsIdle
  <2>5. BuildInv'
        BY <1>3, <2>1, <2>3, <2>4, VolumeRead DEF BuildInv, InWindow, Start, HeldSince, records
  <2>6. QED  BY <2>1, <2>5, ViewStays
<1>4. CASE Install
  <2>1. BuildInv'
        BY <1>4 DEF Install, BuildInv
  <2>2. QED  BY <1>4, <2>1, Installed
<1>5. CASE UNCHANGED <<records, build, view>> /\ (now' = now \/ now' = now + 1)
      BY <1>5, BuildStays, ViewStays DEF Counts, Seen, records
<1>6. CASE ~ \E n \in Node, v \in Version, t \in Time : Count(n, v, t) \/ CountLate(n, v, t)
  <2>1. \/ ReadMarks \/ ReadVolume \/ Install
        \/ UNCHANGED <<records, build, view>> /\ (now' = now \/ now' = now + 1)
        BY <1>6
        DEF Next, vars, shifter, PublishBegin, SendBuckets, SendDefinitions, SendMark,
            PublishFails, Restart, ExpireDefinitions, Audit, Tick
  <2>2. QED  BY <1>2, <1>3, <1>4, <1>5, <2>1
<1>7. QED  BY <1>1, <1>6

\* Volume that is called complete counts nothing but records of its nodes, and all
\* that they counted in time and their ledgers still held, for any number of nodes
\* whose publications fail, are repeated after restarts and fall between the searches.
THEOREM CompleteViewsAreExact == Spec => []CompleteViewIsExact
<1> DEFINE Inv == TypeInv /\ CountsInv /\ DefinitionsInv /\ BuildInv /\ ViewInv
<1>1. Init => Inv
      BY TypeInit, CountsInit, DefinitionsInit, ViewInit
<1>2. Inv /\ [Next]_vars => Inv'
      BY TypeNext, CountsNext, DefinitionsNext, ViewNext
<1>3. Inv => CompleteViewIsExact
      BY DEF ViewInv
<1>4. QED  BY <1>1, <1>2, <1>3, PTL DEF Spec

\* A complete view lists every version short enough to be published that one of its
\* nodes counted in time and first observed inside the window, although definitions
\* expire and are sent by several nodes.
THEOREM NewVersionsAreListed == Spec => []NewVersionIsListed
<1> DEFINE Inv == TypeInv /\ CountsInv /\ DefinitionsInv /\ BuildInv /\ ViewInv
<1>1. Init => Inv
      BY TypeInit, CountsInit, DefinitionsInit, ViewInit
<1>2. Inv /\ [Next]_vars => Inv'
      BY TypeNext, CountsNext, DefinitionsNext, ViewNext
<1>3. Inv => NewVersionIsListed
      BY DEF ViewInv
<1>4. QED  BY <1>1, <1>2, <1>3, PTL DEF Spec
=============================================================================
