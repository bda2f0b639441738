----------------------- MODULE SignalProjectorProofs ----------------------
(***************************************************************************)
(* Theorems about the signal projector, for every number of monitors,      *)
(* detectors, alerts and results and every place a cycle can fail.         *)
(*                                                                         *)
(* The reducers are folds over the rows of a read.  What each computes is  *)
(* shown by induction over the times (StampInduction, from the well-       *)
(* foundedness of the naturals): SplitFold and AppliedFold say that what   *)
(* holds of the start and is preserved by one row holds of the result.     *)
(*                                                                         *)
(* The invariants:                                                         *)
(*   Base         the types, and the order of alerts, results and reads    *)
(*   EvidenceInv  every episode of a detector rests on its results         *)
(*   BreachInv    a breach the watermark has passed is known for good, one *)
(*                the cycle is about to pass is about to be known          *)
(*   MonitorInv   each episode of a monitor has one alert, its row and its *)
(*                document agree, and what the watermark has passed, or is *)
(*                about to, is resolved                                    *)
(*   PushInv      what a cycle sends of a key ends with its open episode   *)
(*   DetectorInv  what is stored of a detector, or about to be, is what    *)
(*                the fold of all its results (Kan) has at some moment     *)
(***************************************************************************)
EXTENDS SignalProjector, FiniteSetTheorems, WellFoundedInduction, TLAPS

-----------------------------------------------------------------------------
(***************************************************************************)
(* Numbers.                                                                *)
(***************************************************************************)
\* A set of naturals that is not empty has a least element.
LEMMA Least ==
  ASSUME NEW T \in SUBSET Nat, T # {}
  PROVE  \E n \in T : \A m \in T : n <= m
<1>1. \E x \in T : \A y \in T : ~ (<<y, x>> \in OpToRel(<, Nat))
      BY NatLessThanWellFounded, WFMin
<1>2. \A x, y \in Nat : <<y, x>> \in OpToRel(<, Nat) <=> y < x
      BY DEF OpToRel
<1>3. PICK x \in T : \A y \in T : ~ (<<y, x>> \in OpToRel(<, Nat))
      BY <1>1
<1>4. ASSUME NEW y \in T PROVE x <= y
  <2>1. x \in Nat /\ y \in Nat /\ ~ (y < x)
        BY <1>2, <1>3
  <2>2. QED BY <2>1
<1>5. QED BY <1>4

\* What holds before time starts, and at a time when it held at the one before,
\* holds at every time.
LEMMA StampInduction ==
  ASSUME NEW G, Never \in G, \A t \in Time : t - 1 \in G => t \in G
  PROVE  Stamp \subseteq G
<1> SUFFICES ASSUME NEW s \in Stamp, s \notin G PROVE FALSE
    OBVIOUS
<1> DEFINE T == {n \in Nat : n - 1 \in Stamp /\ n - 1 \notin G}
<1>1. s + 1 \in T
      BY BoundsAssumption DEF Stamp, Time, Never
<1>2. PICK n \in T : \A m \in T : n <= m
      BY <1>1, Least
<1>3. n # 0
      BY <1>2 DEF Never
<1>4. n - 1 \in Time /\ n - 1 \in Nat /\ (n - 1) - 1 \in Stamp
      BY <1>2, <1>3, BoundsAssumption DEF Stamp, Time, Never
<1>5. (n - 1) - 1 \in G
      BY <1>2, <1>4
<1>6. QED BY <1>2, <1>4, <1>5

\* MaxOf of integers that have an upper bound.
LEMMA MaxExists ==
  ASSUME NEW S \in SUBSET Int, S # {}, NEW n \in Int, \A x \in S : x <= n
  PROVE  MaxOf(S) \in S /\ \A x \in S : x <= MaxOf(S)
<1> DEFINE T == {n - x : x \in S}
<1>1. T \in SUBSET Nat /\ T # {}
  <2>1. \A x \in S : n - x \in Nat
        OBVIOUS
  <2>2. QED BY <2>1
<1>2. PICK k \in T : \A m \in T : k <= m
      BY <1>1, Least
<1>3. PICK x \in S : k = n - x
      OBVIOUS
<1>4. \A y \in S : y <= x
  <2> TAKE y \in S
  <2>1. n - y \in T
        OBVIOUS
  <2>2. k <= n - y
        BY <1>2, <2>1
  <2> QED BY <1>3, <2>2
<1>5. QED BY <1>4 DEF MaxOf

LEMMA MaxStamp ==
  ASSUME NEW S \in SUBSET Stamp, S # {}
  PROVE  MaxOf(S) \in S /\ \A x \in S : x <= MaxOf(S)
<1>1. S \in SUBSET Int /\ MaxTime \in Int /\ \A x \in S : x <= MaxTime
      BY BoundsAssumption DEF Stamp, Time, Never
<1>2. QED BY <1>1, MaxExists

\* Lower is a floor: the overlap below a mark, or no floor at all.
LEMMA LowerFacts ==
  ASSUME NEW s \in Stamp, NEW n \in Nat
  PROVE  /\ Lower(s, n) \in Stamp /\ Lower(s, n) <= s
         /\ Lower(s, n) = Never \/ Lower(s, n) = s - n
BY BoundsAssumption DEF Lower, Stamp, Time, Never

-----------------------------------------------------------------------------
(***************************************************************************)
(* The folds: each is the value of a function over the stamps.             *)
(***************************************************************************)
SplitOf(m, carried, f) ==
  f = [t \in Stamp |->
         IF t = Never
         THEN [runs |-> <<>>, end |-> Never, healthy |-> carried.healthy,
               lastHealthy |-> carried.lastHealthy]
         ELSE SplitRows(f[t - 1], RowsAt(m, t))]

LEMMA SplitUnfolds ==
  ASSUME NEW m, NEW carried
  PROVE  \E f : SplitOf(m, carried, f) /\ Split(m, carried) = f[MaxTime].runs
<1> DEFINE Base == [runs |-> <<>>, end |-> Never, healthy |-> carried.healthy,
                    lastHealthy |-> carried.lastHealthy]
           Step(x, t) == SplitRows(x, RowsAt(m, t))
           Good(n, f) == f = [t \in Never .. n |->
                                IF t = Never THEN Base ELSE Step(f[t - 1], t)]
           G == {n \in Stamp : \E f : Good(n, f)}
<1>1. Never \in G
  <2>1. Good(Never, [t \in Never .. Never |-> Base])
        BY DEF Never
  <2>2. QED BY <2>1 DEF Stamp
<1>2. ASSUME NEW n \in Time, n - 1 \in G PROVE n \in G
  <2>1. PICK f : Good(n - 1, f)
        BY <1>2
  <2> DEFINE g == [t \in Never .. n |-> IF t = Never THEN Base ELSE Step(f[t - 1], t)]
  <2>2. n \in Int /\ n >= 0
        BY BoundsAssumption DEF Time
  <2>3. \A t \in Never .. n - 1 : g[t] = f[t]
    <3> HIDE DEF Step, Base
    <3>1. \A t \in Never .. n - 1 : t \in Never .. n
          BY <2>2 DEF Never
    <3> QED BY <2>1, <3>1
  <2>4. \A t \in Never .. n : t # Never => t - 1 \in Never .. n - 1
        BY <2>2 DEF Never
  <2>5. Good(n, g)
    <3> HIDE DEF Step, Base
    <3>1. \A t \in Never .. n : t # Never => g[t - 1] = f[t - 1]
          BY <2>3, <2>4
    <3> QED BY <3>1
  <2>6. QED BY <2>5 DEF Stamp
<1>3. MaxTime \in G /\ Never .. MaxTime = Stamp
  <2>1. MaxTime \in Stamp /\ Never .. MaxTime = Stamp
        BY BoundsAssumption DEF Stamp, Time, Never
  <2> HIDE DEF G
  <2>2. QED BY <1>1, <1>2, <2>1, StampInduction
<1>4. \E f : SplitOf(m, carried, f)
      BY <1>3 DEF SplitOf
<1>5. QED BY <1>4 DEF Split, SplitOf

AppliedOf(d, line, scanned, f) ==
  f = [t \in Stamp |->
         IF t = Never
         THEN [line |-> line, touched |-> {}, owner |-> [w \in Time |-> Never],
               docs |-> [w \in Time |-> IF w \in line THEN store[<<d, w>>] ELSE None]]
         ELSE ApplyResults(f[t - 1], ResultsAt(scanned, d, t))]

LEMMA AppliedUnfolds ==
  ASSUME NEW d, NEW line, NEW scanned
  PROVE  \E f : AppliedOf(d, line, scanned, f) /\ Applied(d, line, scanned) = f[MaxTime]
<1> DEFINE Base == [line |-> line, touched |-> {}, owner |-> [w \in Time |-> Never],
                    docs |-> [w \in Time |-> IF w \in line THEN store[<<d, w>>] ELSE None]]
           Step(x, t) == ApplyResults(x, ResultsAt(scanned, d, t))
           Good(n, f) == f = [t \in Never .. n |->
                                IF t = Never THEN Base ELSE Step(f[t - 1], t)]
           G == {n \in Stamp : \E f : Good(n, f)}
<1>1. Never \in G
  <2>1. Good(Never, [t \in Never .. Never |-> Base])
        BY DEF Never
  <2>2. QED BY <2>1 DEF Stamp
<1>2. ASSUME NEW n \in Time, n - 1 \in G PROVE n \in G
  <2>1. PICK f : Good(n - 1, f)
        BY <1>2
  <2> DEFINE g == [t \in Never .. n |-> IF t = Never THEN Base ELSE Step(f[t - 1], t)]
  <2>2. n \in Int /\ n >= 0
        BY BoundsAssumption DEF Time
  <2>3. \A t \in Never .. n - 1 : g[t] = f[t]
    <3> HIDE DEF Step, Base
    <3>1. \A t \in Never .. n - 1 : t \in Never .. n
          BY <2>2 DEF Never
    <3> QED BY <2>1, <3>1
  <2>4. \A t \in Never .. n : t # Never => t - 1 \in Never .. n - 1
        BY <2>2 DEF Never
  <2>5. Good(n, g)
    <3> HIDE DEF Step, Base
    <3>1. \A t \in Never .. n : t # Never => g[t - 1] = f[t - 1]
          BY <2>3, <2>4
    <3> QED BY <3>1
  <2>6. QED BY <2>5 DEF Stamp
<1>3. MaxTime \in G /\ Never .. MaxTime = Stamp
  <2>1. MaxTime \in Stamp /\ Never .. MaxTime = Stamp
        BY BoundsAssumption DEF Stamp, Time, Never
  <2> HIDE DEF G
  <2>2. QED BY <1>1, <1>2, <2>1, StampInduction
<1>4. \E f : AppliedOf(d, line, scanned, f)
      BY <1>3 DEF AppliedOf
<1>5. QED BY <1>4 DEF Applied, AppliedOf

\* The same, before the first stamp and at each time.
SplitBy(f, m, carried) ==
  /\ f[Never] = [runs |-> <<>>, end |-> Never, healthy |-> carried.healthy,
                 lastHealthy |-> carried.lastHealthy]
  /\ \A t \in Time : f[t] = SplitRows(f[t - 1], RowsAt(m, t))

AppliedBy(f, d, line, scanned) ==
  /\ f[Never] = [line |-> line, touched |-> {}, owner |-> [w \in Time |-> Never],
                 docs |-> [w \in Time |-> IF w \in line THEN store[<<d, w>>] ELSE None]]
  /\ \A t \in Time : f[t] = ApplyResults(f[t - 1], ResultsAt(scanned, d, t))

LEMMA SplitFold ==
  ASSUME NEW m, NEW carried
  PROVE  \E f : SplitBy(f, m, carried) /\ Split(m, carried) = f[MaxTime].runs
<1>1. Never \in Stamp /\ \A t \in Time : t \in Stamp /\ t # Never
      BY BoundsAssumption DEF Stamp, Time, Never
<1>2. PICK f : SplitOf(m, carried, f) /\ Split(m, carried) = f[MaxTime].runs
      BY SplitUnfolds
<1>3. SplitBy(f, m, carried)
      BY <1>1, <1>2 DEF SplitOf, SplitBy
<1>4. QED BY <1>2, <1>3

LEMMA AppliedFold ==
  ASSUME NEW d, NEW line, NEW scanned
  PROVE  \E f : AppliedBy(f, d, line, scanned) /\ Applied(d, line, scanned) = f[MaxTime]
<1>1. Never \in Stamp /\ \A t \in Time : t \in Stamp /\ t # Never
      BY BoundsAssumption DEF Stamp, Time, Never
<1>2. PICK f : AppliedOf(d, line, scanned, f) /\ Applied(d, line, scanned) = f[MaxTime]
      BY AppliedUnfolds
<1>3. AppliedBy(f, d, line, scanned)
      BY <1>1, <1>2 DEF AppliedOf, AppliedBy
<1>4. QED BY <1>2, <1>3

-----------------------------------------------------------------------------
(***************************************************************************)
(* Types of what the reducers return.                                      *)
(***************************************************************************)
Run    == [start : Time, members : SUBSET Alert, healthy : Nat, lastHealthy : Stamp]
SplitT == [runs : Seq(Run), end : Stamp, healthy : Nat, lastHealthy : Stamp]
AccT   == [line : SUBSET Time, docs : [Time -> Doc \cup {None}],
           touched : SUBSET Time, owner : [Time -> Stamp]]

\* What a fold over the results of a detector keeps: the line names the
\* documents it has, and what it touched is on the line.
AccOK(acc) ==
  /\ acc \in AccT /\ acc.touched \subseteq acc.line
  /\ \A t \in Time : t \in acc.line <=> acc.docs[t] # None

AlertT == [at : {"none", "current", "moving", "history"}, start : Stamp, end : Stamp]

\* One row: the runs stay typed and the row is in the last one.
LEMMA SplitRowTyped ==
  ASSUME NEW split \in SplitT, NEW a \in Alert, alert[a] \in AlertT,
         alert[a].start \in Time
  PROVE  LET new == SplitRow(split, a)
         IN /\ new \in SplitT
            /\ \E i \in DOMAIN new.runs : a \in new.runs[i].members
            /\ \A i \in DOMAIN split.runs :
                 /\ i \in DOMAIN new.runs
                 /\ split.runs[i].members \subseteq new.runs[i].members
<1> DEFINE first   == split.runs = <<>>
           beyond  == ~first /\ split.end # Never /\ alert[a].start > split.end
           was     == IF beyond THEN [split EXCEPT !.end = Never, !.healthy = 0,
                                                   !.lastHealthy = Never]
                      ELSE split
           counted == a \in past /\ alert[a].end > was.lastHealthy
           healthy == IF a \notin past THEN 0
                      ELSE IF counted THEN was.healthy + 1 ELSE was.healthy
           cleared == IF a \notin past THEN Never
                      ELSE IF counted THEN alert[a].end ELSE was.lastHealthy
           old     == IF first \/ beyond THEN [start |-> alert[a].start, members |-> {}]
                      ELSE split.runs[Len(split.runs)]
           run     == [start |-> old.start, members |-> old.members \cup {a},
                       healthy |-> healthy, lastHealthy |-> cleared]
           runs    == IF first \/ beyond THEN Append(split.runs, run)
                      ELSE [split.runs EXCEPT ![Len(split.runs)] = run]
           end     == IF a \notin past THEN Never
                      ELSE IF healthy >= MonitorRequired THEN MaxOf({was.end, alert[a].end})
                      ELSE was.end
<1>1. SplitRow(split, a) = [runs |-> runs, end |-> end, healthy |-> healthy,
                            lastHealthy |-> cleared]
      BY DEF SplitRow
<1>2. Never \in Stamp /\ alert[a].end \in Stamp
      BY DEF Stamp, AlertT
<1>3. was \in SplitT
      BY <1>2 DEF SplitT
<1>4. was.end \in Stamp /\ was.healthy \in Nat /\ was.lastHealthy \in Stamp
      BY <1>3 DEF SplitT
<1> HIDE DEF was
<1>5. healthy \in Nat /\ cleared \in Stamp
      BY <1>2, <1>4
<1> HIDE DEF healthy, cleared
<1>6. end \in Stamp
  <2>1. MaxOf({was.end, alert[a].end}) \in {was.end, alert[a].end}
        BY <1>2, <1>4, MaxStamp
  <2>2. QED BY <2>1, <1>2, <1>4
<1> HIDE DEF end
<1>7. split.runs \in Seq(Run)
      BY DEF SplitT
<1>8. first \/ beyond \/ Len(split.runs) \in DOMAIN split.runs
      BY <1>7
<1>9. old.start \in Time /\ old.members \subseteq Alert
  <2>1. CASE first \/ beyond
        BY <2>1
  <2>2. CASE ~ (first \/ beyond)
    <3>1. split.runs[Len(split.runs)] \in Run
          BY <2>2, <1>7, <1>8
    <3>2. QED BY <2>2, <3>1 DEF Run
  <2>3. QED BY <2>1, <2>2
<1> HIDE DEF old, beyond
<1>10. run \in Run
       BY <1>9, <1>5 DEF Run
<1>11. runs \in Seq(Run)
       BY <1>7, <1>8, <1>10
<1>12. \E i \in DOMAIN runs : a \in runs[i].members
  <2>1. CASE first \/ beyond
    <3>1. Len(split.runs) + 1 \in DOMAIN runs /\ runs[Len(split.runs) + 1] = run
          BY <2>1, <1>7, <1>10
    <3>2. QED BY <3>1
  <2>2. CASE ~ (first \/ beyond)
    <3>1. Len(split.runs) \in DOMAIN runs /\ runs[Len(split.runs)] = run
          BY <2>2, <1>7, <1>8
    <3>2. QED BY <3>1
  <2>3. QED BY <2>1, <2>2
<1>13. ASSUME NEW i \in DOMAIN split.runs
       PROVE  i \in DOMAIN runs /\ split.runs[i].members \subseteq runs[i].members
  <2>1. CASE first \/ beyond
        BY <2>1, <1>7, <1>10
  <2>2. CASE ~ (first \/ beyond)
    <3>1. i \in DOMAIN runs
          BY <2>2, <1>7
    <3>2. CASE i = Len(split.runs)
          BY <2>2, <3>2, <1>7, <1>8 DEF old
    <3>3. CASE i # Len(split.runs)
          BY <2>2, <3>3, <1>7, <1>8
    <3>4. QED BY <3>1, <3>2, <3>3
  <2>3. QED BY <2>1, <2>2
<1> HIDE DEF runs, run
<1>14. [runs |-> runs, end |-> end, healthy |-> healthy, lastHealthy |-> cleared] \in SplitT
       BY <1>5, <1>6, <1>11 DEF SplitT
<1>15. QED BY <1>1, <1>12, <1>13, <1>14

LEMMA BlankTyped ==
  ASSUME NEW t \in Stamp
  PROVE  Blank(t) \in Doc
BY DEF Blank, Doc, Stamp

\* One result, on one document.
LEMMA ReducersTyped ==
  ASSUME NEW doc \in Doc, NEW r \in Result
  PROVE  Evaluated(doc, r) \in Doc /\ Breached(doc, r) \in Doc /\ Recovered(doc, r) \in Doc
<1>1. r.window \in Stamp /\ Never \in Stamp
      BY DEF Result, Stamp
<1>2. Evaluated(doc, r) \in Doc
      BY <1>1 DEF Evaluated, Doc
<1>3. Breached(doc, r) \in Doc
      BY <1>1 DEF Breached, Doc
<1>4. Recovered(doc, r) \in Doc
  <2>1. doc.healthy + 1 \in Nat
        BY DEF Doc
  <2>2. QED BY <1>1, <2>1 DEF Recovered, Doc
<1>5. QED BY <1>2, <1>3, <1>4

\* The episode of a result starts at a time: one on the line, or the window of a
\* breach.
LEMMA DetectorStartTyped ==
  ASSUME NEW acc, AccOK(acc), NEW r \in Result,
         DetectorStart(acc.line, acc.docs, r) # None
  PROVE  LET start == DetectorStart(acc.line, acc.docs, r)
         IN /\ start \in Time /\ start <= r.window
            /\ start \in acc.line \/ (start = r.window /\ r.grade = "breach")
<1> DEFINE before == {t \in acc.line : t <= r.window}
<1>1. acc.line \subseteq Time /\ r.window \in Time
      BY DEF AccOK, AccT, Result
<1>2. before # {} => MaxOf(before) \in before
  <2>1. before \subseteq Stamp
        BY <1>1 DEF Stamp
  <2>2. QED BY <2>1, MaxStamp
<1> HIDE DEF before
<1>3. DetectorStart(acc.line, acc.docs, r) =
        IF before # {} /\ (IsOpen(acc.docs[MaxOf(before)])
                           \/ r.window <= acc.docs[MaxOf(before)].lastHealthy)
        THEN MaxOf(before)
        ELSE IF r.grade = "breach" /\ (before # {} \/ acc.line = {}) THEN r.window
        ELSE None
      BY DEF DetectorStart, before
<1>4. r.window <= r.window
      BY <1>1 DEF Time
<1>5. QED BY <1>1, <1>2, <1>3, <1>4 DEF before

\* What ApplyResult makes of an accumulator, in parts.
LEMMA ApplyResultIs ==
  ASSUME NEW acc, NEW r, NEW start, start = DetectorStart(acc.line, acc.docs, r),
         start # None,
         NEW doc, doc = Evaluated(IF acc.docs[start] = None THEN Blank(r.window)
                                  ELSE acc.docs[start], r)
  PROVE  ApplyResult(acc, r) =
           [line    |-> acc.line \cup {start},
            docs    |-> [acc.docs EXCEPT ![start] =
                           CASE r.grade = "breach"  -> Breached(doc, r)
                             [] r.grade = "healthy" -> Recovered(doc, r)
                             [] OTHER               -> doc],
            touched |-> acc.touched \cup {start},
            owner   |-> [acc.owner EXCEPT ![r.window] = start]]
BY DEF ApplyResult

LEMMA ApplyResultTyped ==
  ASSUME NEW acc, AccOK(acc), NEW r \in Result
  PROVE  AccOK(ApplyResult(acc, r))
<1> DEFINE start == DetectorStart(acc.line, acc.docs, r)
           doc == Evaluated(IF acc.docs[start] = None THEN Blank(r.window)
                            ELSE acc.docs[start], r)
           new == CASE r.grade = "breach"  -> Breached(doc, r)
                    [] r.grade = "healthy" -> Recovered(doc, r)
                    [] OTHER               -> doc
<1>1. CASE start = None
      BY <1>1 DEF ApplyResult
<1>2. CASE start # None
  <2>1. start \in Time
        BY <1>2, DetectorStartTyped
  <2>2. r.window \in Time /\ r.window \in Stamp
        BY DEF Result, Stamp
  <2>3. doc \in Doc
    <3>1. acc.docs[start] \in Doc \cup {None}
          BY <2>1 DEF AccOK, AccT
    <3>2. QED BY <3>1, <2>2, BlankTyped, ReducersTyped
  <2>4. new \in Doc /\ new # None
    <3> HIDE DEF doc
    <3>1. new \in Doc
          BY <2>3, ReducersTyped
    <3>2. QED BY <3>1, InputsAssumption
  <2>5. ApplyResult(acc, r) =
          [line    |-> acc.line \cup {start},
           docs    |-> [acc.docs EXCEPT ![start] = new],
           touched |-> acc.touched \cup {start},
           owner   |-> [acc.owner EXCEPT ![r.window] = start]]
        BY <1>2, ApplyResultIs
  <2> HIDE DEF start, new, doc
  <2>6. start \in Stamp
        BY <2>1 DEF Stamp
  <2>7. QED BY <2>1, <2>2, <2>4, <2>5, <2>6 DEF AccOK, AccT
<1>3. QED BY <1>1, <1>2

\* The store of one detector, seen through the part of its timeline that was read.
LEMMA AppliedTyped ==
  ASSUME NEW d, NEW line, NEW scanned, scanned \subseteq Result,
         line \subseteq Time, \A t \in line : store[<<d, t>>] \in Doc
  PROVE  AccOK(Applied(d, line, scanned))
<1>1. PICK f : AppliedBy(f, d, line, scanned) /\ Applied(d, line, scanned) = f[MaxTime]
      BY AppliedFold
<1> DEFINE G == {t \in Stamp : AccOK(f[t])}
<1>2. Never \in G
  <2>1. Never \in Stamp
        BY DEF Stamp
  <2> DEFINE docs  == [w \in Time |-> IF w \in line THEN store[<<d, w>>] ELSE None]
             owner == [w \in Time |-> Never]
  <2>2. f[Never] = [line |-> line, touched |-> {}, owner |-> owner, docs |-> docs]
        BY <1>1 DEF AppliedBy
  <2>3. /\ docs \in [Time -> Doc \cup {None}] /\ owner \in [Time -> Stamp]
        /\ \A t \in Time : t \in line <=> docs[t] # None
        BY <2>1, InputsAssumption
  <2> HIDE DEF docs, owner
  <2>4. f[Never] \in AccT /\ f[Never].line = line /\ f[Never].touched = {}
           /\ f[Never].docs = docs
        BY <2>2, <2>3 DEF AccT
  <2>5. AccOK(f[Never])
    <3> DEFINE acc == f[Never]
    <3>1. acc \in AccT
          BY <2>4
    <3>2. acc.touched \subseteq acc.line
          BY <2>4
    <3>3. \A t \in Time : t \in acc.line <=> acc.docs[t] # None
          BY <2>3, <2>4
    <3> HIDE DEF acc
    <3>4. AccOK(acc)
          BY <3>1, <3>2, <3>3 DEF AccOK
    <3>5. QED BY <3>4 DEF acc
  <2>6. QED BY <2>1, <2>5
<1>3. ASSUME NEW t \in Time, t - 1 \in G PROVE t \in G
  <2>1. t \in Stamp /\ t # Never
        BY BoundsAssumption DEF Stamp, Time, Never
  <2>2. f[t] = ApplyResults(f[t - 1], ResultsAt(scanned, d, t))
        BY <1>1 DEF AppliedBy
  <2>3. CASE ResultsAt(scanned, d, t) = {}
        BY <2>1, <2>2, <2>3, <1>3 DEF ApplyResults
  <2>4. CASE ResultsAt(scanned, d, t) # {}
    <3>1. PICK r \in Result : f[t] = ApplyResult(f[t - 1], r)
          BY <2>2, <2>4 DEF ResultsAt, ApplyResults
    <3>2. QED BY <2>1, <3>1, <1>3, ApplyResultTyped
  <2>5. QED BY <2>3, <2>4
<1>4. MaxTime \in Stamp
      BY BoundsAssumption DEF Stamp, Time
<1> HIDE DEF G
<1>5. MaxTime \in G
      BY <1>2, <1>3, <1>4, StampInduction
<1>6. QED BY <1>1, <1>5 DEF G

\* What the reads of a cycle keep of a monitor: no two of its alerts start at the
\* same time.
Group(m) == {a \in current \cup past : MonitorOf[a] = m}
GroupOK(m) ==
  /\ \A a \in Group(m) : a \in Alert /\ alert[a] \in AlertT /\ alert[a].start \in Time
  /\ \A a, b \in Group(m) : alert[a].start = alert[b].start => a = b

LEMMA RowsAtIs ==
  ASSUME NEW m, GroupOK(m), NEW t \in Time, NEW split
  PROVE  \/ /\ RowsAt(m, t) = {} /\ SplitRows(split, RowsAt(m, t)) = split
            /\ \A a \in Group(m) : alert[a].start # t
         \/ \E a \in Group(m) :
              /\ RowsAt(m, t) = {a} /\ SplitRows(split, RowsAt(m, t)) = SplitRow(split, a)
              /\ alert[a].start = t /\ \A b \in Group(m) : alert[b].start = t => b = a
<1>1. CASE RowsAt(m, t) = {}
      BY <1>1 DEF SplitRows, RowsAt, Group
<1>2. CASE RowsAt(m, t) # {}
  <2>1. PICK a \in RowsAt(m, t) : TRUE
        BY <1>2
  <2>2. a \in Group(m) /\ alert[a].start = t
        BY <2>1 DEF RowsAt, Group
  <2>3. \A b \in Group(m) : alert[b].start = t => b = a
        BY <2>2 DEF GroupOK
  <2>4. RowsAt(m, t) = {a}
        BY <2>1, <2>3 DEF RowsAt, Group
  <2>5. SplitRows(split, RowsAt(m, t)) = SplitRow(split, a)
        BY <2>4 DEF SplitRows
  <2>6. QED BY <2>2, <2>3, <2>4, <2>5
<1>3. QED BY <1>1, <1>2

\* Every row of a monitor is in one of its runs.
LEMMA SplitTyped ==
  ASSUME NEW m, GroupOK(m), NEW carried, carried.healthy \in Nat, carried.lastHealthy \in Stamp
  PROVE  /\ Split(m, carried) \in Seq(Run)
         /\ \A a \in Group(m) : \E i \in DOMAIN Split(m, carried) :
              a \in Split(m, carried)[i].members
<1>1. PICK f : SplitBy(f, m, carried) /\ Split(m, carried) = f[MaxTime].runs
      BY SplitFold
<1> DEFINE Seen(t) == \A a \in Group(m) : alert[a].start <= t =>
                        \E i \in DOMAIN f[t].runs : a \in f[t].runs[i].members
           G == {t \in Stamp : f[t] \in SplitT /\ Seen(t)}
<1>2. Never \in G
  <2>1. Never \in Stamp
        BY DEF Stamp
  <2>2. f[Never] \in SplitT
        BY <1>1, <2>1 DEF SplitT, SplitBy
  <2>3. \A a \in Group(m) : ~ (alert[a].start <= Never)
        BY BoundsAssumption DEF GroupOK, Time, Never
  <2>4. QED BY <2>1, <2>2, <2>3
<1>3. ASSUME NEW t \in Time, t - 1 \in G PROVE t \in G
  <2>1. t \in Stamp
        BY DEF Stamp
  <2>2. f[t] = SplitRows(f[t - 1], RowsAt(m, t))
        BY <1>1 DEF SplitBy
  <2>3. f[t - 1] \in SplitT /\ Seen(t - 1)
        BY <1>3
  <2>4. \A a \in Group(m) : alert[a].start <= t /\ alert[a].start # t => alert[a].start <= t - 1
        BY BoundsAssumption DEF GroupOK, Time
  <2>5. CASE f[t] = f[t - 1] /\ \A a \in Group(m) : alert[a].start # t
        BY <2>1, <2>3, <2>4, <2>5
  <2>6. ASSUME NEW a \in Group(m), f[t] = SplitRow(f[t - 1], a), 
               \A b \in Group(m) : alert[b].start = t => b = a
        PROVE  t \in G
    <3>1. a \in Alert /\ alert[a] \in AlertT /\ alert[a].start \in Time
          BY DEF GroupOK
    <3>2. /\ f[t] \in SplitT
          /\ \E i \in DOMAIN f[t].runs : a \in f[t].runs[i].members
          /\ \A i \in DOMAIN f[t - 1].runs :
               /\ i \in DOMAIN f[t].runs
               /\ f[t - 1].runs[i].members \subseteq f[t].runs[i].members
          BY <3>1, <2>3, <2>6, SplitRowTyped
    <3>3. Seen(t)
      <4> SUFFICES ASSUME NEW b \in Group(m), alert[b].start <= t
                   PROVE  \E i \in DOMAIN f[t].runs : b \in f[t].runs[i].members
          OBVIOUS
      <4>1. CASE b = a
            BY <4>1, <3>2
      <4>2. CASE b # a
            BY <4>2, <2>3, <2>4, <2>6, <3>2
      <4>3. QED BY <4>1, <4>2
    <3>4. QED BY <2>1, <3>2, <3>3
  <2> HIDE DEF G, Seen
  <2>7. QED BY <2>2, <2>5, <2>6, RowsAtIs
<1>4. MaxTime \in Stamp /\ \A a \in Group(m) : alert[a].start <= MaxTime
      BY BoundsAssumption DEF Stamp, Time, GroupOK
<1>5. MaxTime \in G
  <2> HIDE DEF G
  <2>1. QED BY <1>2, <1>3, <1>4, StampInduction
<1>6. QED BY <1>1, <1>4, <1>5 DEF SplitT

-----------------------------------------------------------------------------
(***************************************************************************)
(* Types, and what holds of alerts, results and snapshots at any time.     *)
(***************************************************************************)
\* The alerts of a monitor follow each other: the next one starts after the last
\* one ended and could be searched for in the history.
Before(a, b) == alert[a].at = "history" /\ alert[a].end < alert[b].start

AlertsInOrder ==
  /\ \A a \in Alert :
       /\ alert[a].at # "none" => alert[a].start \in Time /\ alert[a].start <= now
       /\ alert[a].at \in {"none", "current"} => alert[a].end = Never
       /\ alert[a].at \in {"moving", "history"} =>
            alert[a].end \in Time /\ alert[a].start < alert[a].end /\ alert[a].end <= now
       /\ alert[a].at = "moving" => now - alert[a].end <= Lag
  /\ \A a, b \in Alert :
       /\ a # b /\ MonitorOf[a] = MonitorOf[b]
       /\ alert[a].at # "none" /\ alert[b].at # "none"
       => Before(a, b) \/ Before(b, a)

ResultsInOrder ==
  /\ IsFiniteSet(results)
  /\ \A r \in results : r.window <= r.exec /\ r.exec <= now
  /\ \A r, s \in results : r.key = s.key /\ r.window = s.window => r = s

\* What a cycle read, and what it has not yet read or written.
Snapshots ==
  /\ pc \in {"history", "project"} => moment <= now /\ mark.history <= moment
  /\ mark.history <= now /\ mark.anomalies <= now
  /\ high.history <= now /\ high.anomalies <= now
  /\ \A a \in current :
       /\ pc \in {"history", "project"} /\ alert[a].at # "none"
       /\ alert[a].start <= moment
       /\ alert[a].end = Never \/ moment <= alert[a].end
  /\ \A a \in past :
       pc = "project" /\ alert[a].at = "history" /\ HistoryFloor <= alert[a].end
  /\ pc \in {"idle", "history", "project"} => rows = NoRows /\ incidents = NoEpisodes

Base == TypeOK /\ AlertsInOrder /\ ResultsInOrder /\ Snapshots

LEMMA GroupsAreOK ==
  ASSUME TypeOK, AlertsInOrder, Snapshots, NEW m
  PROVE  GroupOK(m)
<1>1. \A a \in Group(m) : /\ a \in Alert /\ MonitorOf[a] = m /\ alert[a] \in AlertT
                          /\ alert[a].at # "none" /\ alert[a].start \in Time
      BY DEF Group, TypeOK, Snapshots, AlertsInOrder, AlertT
<1>2. ASSUME NEW a \in Group(m), NEW b \in Group(m), alert[a].start = alert[b].start, a # b
      PROVE  FALSE
  <2>1. Before(a, b) \/ Before(b, a)
        BY <1>1, <1>2 DEF AlertsInOrder
  <2>2. Before(a, b) \/ Before(b, a) => alert[a].start # alert[b].start
    <3>1. \A c \in {a, b} : alert[c].at = "history" =>
             alert[c].start \in Time /\ alert[c].end \in Time /\ alert[c].start < alert[c].end
          BY <1>1 DEF AlertsInOrder
    <3>2. QED BY <3>1, <1>2, BoundsAssumption DEF Before, Time
  <2>3. QED BY <1>2, <2>1, <2>2
<1>3. QED BY <1>1, <1>2 DEF GroupOK

LEMMA Stored ==
  ASSUME TypeOK, NEW k \in Key
  PROVE  /\ Starts(k) \subseteq Time
         /\ \A t \in Time : <<k, t>> \in Episode
         /\ \A t \in Time : store[<<k, t>>] \in Doc \cup {None}
         /\ \A t \in Starts(k) : store[<<k, t>>] \in Doc
         /\ Starts(k) # {} => /\ Latest(k) \in Starts(k)
                              /\ \A t \in Starts(k) : t <= Latest(k)
<1>1. Starts(k) \subseteq Time /\ Starts(k) \subseteq Stamp
      BY DEF Starts, Stamp
<1>2. \A t \in Time : <<k, t>> \in Episode
      BY DEF Episode, Stamp
<1>3. \A t \in Time : store[<<k, t>>] \in Doc \cup {None}
      BY <1>2 DEF TypeOK
<1>4. \A t \in Starts(k) : store[<<k, t>>] \in Doc
      BY <1>3 DEF Starts
<1>5. Starts(k) # {} => Latest(k) \in Starts(k) /\ \A t \in Starts(k) : t <= Latest(k)
      BY <1>1, MaxStamp DEF Latest
<1>6. QED BY <1>1, <1>2, <1>3, <1>4, <1>5

LEMMA PriorIs ==
  ASSUME TypeOK, NEW k \in Key, NEW lost
  PROVE  \/ Prior(lost, k) = None
         \/ /\ Prior(lost, k) \in Starts(k) /\ IsOpen(store[<<k, Prior(lost, k)>>])
            /\ \A t \in Starts(k) : t <= Prior(lost, k)
<1>1. CASE Timeline(lost, k) # {} /\ IsOpen(store[<<k, Latest(k)>>])
  <2>1. Starts(k) # {} /\ Prior(lost, k) = Latest(k)
        BY <1>1 DEF Timeline, Prior
  <2>2. QED BY <1>1, <2>1, Stored
<1>2. CASE ~ (Timeline(lost, k) # {} /\ IsOpen(store[<<k, Latest(k)>>]))
      BY <1>2 DEF Prior
<1>3. QED BY <1>1, <1>2

LEMMA RunsTyped ==
  ASSUME TypeOK, NEW m \in Monitor, GroupOK(m), NEW lost
  PROVE  LET runs == Runs(m, Prior(lost, m))
         IN /\ runs \in Seq(Run)
            /\ \A a \in Group(m) : \E i \in DOMAIN runs : a \in runs[i].members
<1> DEFINE prior == Prior(lost, m)
           carried == IF prior = None THEN Blank(Never) ELSE store[<<m, prior>>]
           split == Split(m, carried)
<1>1. prior = None \/ prior \in Time
      BY PriorIs, Stored DEF Key
<1>2. carried \in Doc
      BY PriorIs, Stored, BlankTyped DEF Key, Stamp
<1>3. carried.healthy \in Nat /\ carried.lastHealthy \in Stamp
  <2> HIDE DEF carried
  <2>1. QED BY <1>2 DEF Doc
<1> HIDE DEF carried
<1>4. /\ split \in Seq(Run)
      /\ \A a \in Group(m) : \E i \in DOMAIN split : a \in split[i].members
      BY <1>3, SplitTyped
<1>5. Runs(m, prior) = IF Adopts(split, prior) THEN [split EXCEPT ![1].start = prior] ELSE split
      BY DEF Runs, split, carried
<1> HIDE DEF split, prior
<1>6. CASE Adopts(split, prior)
  <2>1. split # <<>> /\ prior \in Time
        BY <1>1, <1>6 DEF Adopts
  <2>2. 1 \in DOMAIN split /\ split[1] \in Run
        BY <2>1, <1>4
  <2> DEFINE head == [split[1] EXCEPT !.start = prior]
             new  == [split EXCEPT ![1] = head]
  <2>3. head \in Run /\ head.members = split[1].members
        BY <2>1, <2>2 DEF Run
  <2> HIDE DEF head
  <2>4. new \in Seq(Run)
        BY <1>4, <2>2, <2>3
  <2>5. DOMAIN new = DOMAIN split /\ \A i \in DOMAIN split : new[i].members = split[i].members
        BY <1>4, <2>2, <2>3
  <2>6. Runs(m, prior) = new
        BY <1>5, <1>6 DEF head
  <2> HIDE DEF new
  <2>7. QED BY <1>4, <2>4, <2>5, <2>6 DEF prior
<1>7. CASE ~ Adopts(split, prior)
      BY <1>4, <1>5, <1>7 DEF prior
<1>8. QED BY <1>6, <1>7

LEMMA LoadedTyped ==
  ASSUME TypeOK, NEW d \in Detector, NEW lost
  PROVE  /\ Named(lost) \subseteq results /\ Named(lost) \subseteq Result
         /\ Loaded(lost, d) \subseteq Starts(d) /\ Loaded(lost, d) \subseteq Time
         /\ \A t \in Loaded(lost, d) : store[<<d, t>>] \in Doc
         /\ AccOK(Applied(d, Loaded(lost, d), Named(lost)))
<1>1. Named(lost) \subseteq results /\ Named(lost) \subseteq Result
      BY DEF Named, Scanned, TypeOK
<1>2. Loaded(lost, d) \subseteq Starts(d)
      BY DEF Loaded
<1>3. Loaded(lost, d) \subseteq Time /\ \A t \in Loaded(lost, d) : store[<<d, t>>] \in Doc
      BY <1>2, Stored DEF Key
<1>4. AccOK(Applied(d, Loaded(lost, d), Named(lost)))
      BY <1>1, <1>3, AppliedTyped
<1>5. QED BY <1>1, <1>2, <1>3, <1>4

RunsOf(lost)   == [m \in Monitor |-> Runs(m, Prior(lost, m))]
FoldedOf(lost) == [d \in Detector |-> Applied(d, Loaded(lost, d), Named(lost))]

\* The runs of a monitor that start at t, and the document of the last of them.
Owned(lost, m, t) == {i \in DOMAIN RunsOf(lost)[m] : RunsOf(lost)[m][i].start = t}

LEMMA OwnedRun ==
  ASSUME TypeOK, NEW m \in Monitor, GroupOK(m), NEW lost, NEW t, Owned(lost, m, t) # {}
  PROVE  LET i == MaxOf(Owned(lost, m, t))
         IN i \in DOMAIN RunsOf(lost)[m] /\ RunsOf(lost)[m][i].start = t
            /\ RunsOf(lost)[m][i] \in Run
<1> DEFINE runs == RunsOf(lost)[m]
<1>1. runs \in Seq(Run)
      BY RunsTyped DEF RunsOf
<1> HIDE DEF runs
<1>2. /\ DOMAIN runs \subseteq Int /\ Len(runs) \in Int
      /\ \A i \in DOMAIN runs : i <= Len(runs) /\ runs[i] \in Run
      BY <1>1
<1>3. Owned(lost, m, t) = {i \in DOMAIN runs : runs[i].start = t}
      BY DEF Owned, runs
<1>4. MaxOf(Owned(lost, m, t)) \in Owned(lost, m, t)
      BY <1>2, <1>3, MaxExists
<1>5. QED BY <1>2, <1>3, <1>4 DEF runs

LEMMA MonitorDocTyped ==
  ASSUME NEW run \in Run, NEW doc \in Doc
  PROVE  MonitorDoc(run, doc) \in Doc
BY DEF MonitorDoc, Run, Doc

LEMMA AgedTyped ==
  ASSUME NEW doc \in Doc
  PROVE  Aged(doc) \in Doc
BY DEF Aged, Doc

LEMMA FoundTyped ==
  ASSUME TypeOK, NEW e \in Episode, NEW lost
  PROVE  Found(lost, e) \in Doc
BY BlankTyped DEF Found, TypeOK, Stamp

\* The three ways a cycle comes to write a document.
LEMMA IncidentIs ==
  ASSUME NEW lost, NEW k, NEW t, NEW inc,
         inc = IncidentOf(lost, RunsOf(lost), FoldedOf(lost), <<k, t>>)
  PROVE  \/ /\ k \in Monitor /\ Owned(lost, k, t) # {}
            /\ inc = MonitorDoc(RunsOf(lost)[k][MaxOf(Owned(lost, k, t))], Found(lost, <<k, t>>))
         \/ /\ k \in Monitor => Owned(lost, k, t) = {}
            /\ k \in Detector /\ t \in FoldedOf(lost)[k].touched
            /\ inc = Aged(FoldedOf(lost)[k].docs[t])
         \/ /\ k \in Monitor => Owned(lost, k, t) = {}
            /\ k \in Detector => t \notin FoldedOf(lost)[k].touched
            /\ t = Prior(lost, k)
            /\ inc = IF k \in Detector THEN Aged(store[<<k, t>>]) ELSE store[<<k, t>>]
         \/ /\ k \in Monitor => Owned(lost, k, t) = {}
            /\ k \in Detector => t \notin FoldedOf(lost)[k].touched
            /\ t # Prior(lost, k)
            /\ inc = None
<1>1. <<k, t>>[1] = k /\ <<k, t>>[2] = t
      OBVIOUS
<1>2. QED BY <1>1 DEF IncidentOf, Owned, Carries

LEMMA IncidentTyped ==
  ASSUME TypeOK, \A m \in Monitor : GroupOK(m), NEW lost, NEW e \in Episode
  PROVE  IncidentOf(lost, RunsOf(lost), FoldedOf(lost), e) \in Doc \cup {None}
<1>1. PICK k \in Key, t \in Stamp : e = <<k, t>>
      BY DEF Episode
<1> DEFINE inc == IncidentOf(lost, RunsOf(lost), FoldedOf(lost), <<k, t>>)
<1>2. k \in Monitor \/ k \in Detector
      BY DEF Key
<1>3. ASSUME k \in Monitor, Owned(lost, k, t) # {},
             inc = MonitorDoc(RunsOf(lost)[k][MaxOf(Owned(lost, k, t))], Found(lost, <<k, t>>))
      PROVE  inc \in Doc
      BY <1>1, <1>3, OwnedRun, FoundTyped, MonitorDocTyped
<1>4. ASSUME k \in Detector, t \in FoldedOf(lost)[k].touched,
             inc = Aged(FoldedOf(lost)[k].docs[t])
      PROVE  inc \in Doc
  <2>1. AccOK(FoldedOf(lost)[k])
        BY <1>4, LoadedTyped DEF FoldedOf
  <2>2. FoldedOf(lost)[k].docs[t] \in Doc
        BY <2>1, <1>4 DEF AccOK, AccT
  <2>3. QED BY <2>2, <1>4, AgedTyped
<1>5. ASSUME t = Prior(lost, k),
             inc = IF k \in Detector THEN Aged(store[<<k, t>>]) ELSE store[<<k, t>>]
      PROVE  inc \in Doc
  <2>1. t \in Starts(k)
        BY <1>5, PriorIs, InputsAssumption
  <2>2. store[<<k, t>>] \in Doc
        BY <2>1, Stored
  <2>3. QED BY <2>2, <1>5, AgedTyped
<1> HIDE DEF inc
<1>6. inc \in Doc \cup {None}
      BY <1>3, <1>4, <1>5, IncidentIs DEF inc
<1>7. QED BY <1>1, <1>6 DEF inc

LEMMA RowTyped ==
  ASSUME TypeOK, \A m \in Monitor : GroupOK(m), NEW lost, NEW s \in Source
  PROVE  RowOf(lost, RunsOf(lost), FoldedOf(lost), s) \in Episode \cup {None}
<1> DEFINE row == RowOf(lost, RunsOf(lost), FoldedOf(lost), s)
<1>1. CASE s \in current \cup past
  <2> DEFINE m == MonitorOf[s]
             runs == RunsOf(lost)[m]
             i == CHOOSE i \in DOMAIN runs : s \in runs[i].members
  <2>1. m \in Monitor /\ s \in Group(m)
        BY <1>1, InputsAssumption DEF TypeOK, Group
  <2>2. runs \in Seq(Run) /\ \E j \in DOMAIN runs : s \in runs[j].members
        BY <2>1, RunsTyped DEF RunsOf
  <2> HIDE DEF runs
  <2>3. i \in DOMAIN runs
        BY <2>2
  <2>4. runs[i] \in Run
        BY <2>2, <2>3
  <2>5. runs[i].start \in Time
        BY <2>4 DEF Run
  <2>6. row = <<m, runs[i].start>>
        BY <1>1 DEF RowOf, runs
  <2> HIDE DEF i, m, row
  <2>7. row \in Episode
        BY <2>1, <2>5, <2>6 DEF Episode, Key, Stamp
  <2>8. QED BY <2>7 DEF row
<1>2. CASE s \notin current \cup past /\ s \in Reading /\ s[2] \in BreachedAt(lost, s[1])
  <2>1. PICK d \in Detector, t \in Time : s = <<d, t>>
        BY <1>2 DEF Reading
  <2>2. AccOK(FoldedOf(lost)[d])
        BY LoadedTyped DEF FoldedOf
  <2>3. FoldedOf(lost)[d].owner[t] \in Stamp
        BY <2>2 DEF AccOK, AccT
  <2>4. row = <<d, FoldedOf(lost)[d].owner[t]>>
        BY <1>2, <2>1 DEF RowOf
  <2>5. QED BY <2>3, <2>4 DEF Episode, Key
<1>3. CASE ~ (s \in current \cup past) /\ ~ (s \in Reading /\ s[2] \in BreachedAt(lost, s[1]))
      BY <1>3 DEF RowOf
<1>4. QED BY <1>1, <1>2, <1>3

AllVars == <<now, alert, results, budget, store, signals, mark, am, pc, moment, current,
             past, rows, incidents, high, failures, told, unnamed>>

LEMMA InitBase == Init => Base
<1> SUFFICES ASSUME Init PROVE Base
    OBVIOUS
<1>1. Never \in Stamp /\ 0 \in Time /\ MaxFailures \in Nat /\ Never < 0
      BY BoundsAssumption DEF Stamp, Time, Never
<1>2. /\ NoEpisodes \in [Episode -> Doc \cup {None}]
      /\ NoRows \in [Source -> Episode \cup {None}]
      BY DEF NoEpisodes, NoRows
<1>3. [history |-> Never, anomalies |-> Never] \in Lanes
      BY <1>1 DEF Lanes
<1>4. TypeOK
  <2>1. /\ alert \in [Alert -> [at : {"none", "current", "moving", "history"},
                               start : Stamp, end : Stamp]]
        /\ am \in [Key -> [start : Stamp, firing : BOOLEAN, renewed : BOOLEAN]]
        BY <1>1 DEF Init
  <2>2. budget \in [alerts : Nat, results : Nat]
        BY BoundsAssumption DEF Init
  <2>3. failures \in 0 .. MaxFailures
        BY BoundsAssumption DEF Init
  <2>4. QED BY <1>1, <1>2, <1>3, <2>1, <2>2, <2>3 DEF Init, TypeOK
<1>5. AlertsInOrder
  <2>1. \A a \in Alert : alert[a].at = "none" /\ alert[a].end = Never
        BY DEF Init
  <2>2. QED BY <2>1 DEF AlertsInOrder
<1>6. ResultsInOrder
      BY FS_EmptySet DEF Init, ResultsInOrder
<1>7. Snapshots
  <2>1. mark.history <= now /\ mark.anomalies <= now
        /\ high.history <= now /\ high.anomalies <= now
        BY DEF Init, Never
  <2>2. QED BY <2>1 DEF Init, Snapshots
<1>8. QED BY <1>4, <1>5, <1>6, <1>7 DEF Base

\* The clock, the alerts and the results.
LEMMA TickBase ==
  ASSUME Base, Tick
  PROVE  Base'
<1>1. /\ now < MaxTime /\ now' = now + 1 /\ now \in Time /\ pc' = pc
      /\ \A a \in Alert : alert[a].at = "moving" => now - alert[a].end < Lag
      /\ UNCHANGED <<alert, results, budget, store, signals, mark, am, moment, current,
                     past, rows, incidents, high, failures, told, unnamed>>
      BY DEF Base, TypeOK, Tick, opened, cycle, history
<1>2. now' \in Time /\ \A t \in Stamp : t <= now => t <= now'
      BY <1>1, BoundsAssumption DEF Time, Stamp, Never
<1>3. TypeOK'
      BY <1>1, <1>2 DEF Base, TypeOK
<1>4. AlertsInOrder'
  <2>1. \A a \in Alert : alert[a].start \in Stamp /\ alert[a].end \in Stamp
        BY DEF Base, TypeOK
  <2>2. \A a \in Alert : alert[a].at = "moving" => (now - alert[a].end <= Lag)'
    <3> TAKE a \in Alert
    <3> HAVE alert[a].at = "moving"
    <3>1. now - alert[a].end < Lag
          BY <1>1
    <3>2. alert[a].end \in Int /\ now \in Int /\ Lag \in Int
          BY <2>1, <1>1, BoundsAssumption DEF Stamp, Time, Never
    <3>3. alert'[a].end = alert[a].end
          BY <1>1
    <3>4. QED BY <3>1, <3>2, <3>3, <1>1
  <2>3. QED BY <1>1, <1>2, <2>1, <2>2 DEF Base, AlertsInOrder, Before
<1>5. ResultsInOrder'
  <2>1. \A r \in results : r.exec \in Stamp
        BY DEF Base, TypeOK, Result, Stamp
  <2>2. QED BY <1>1, <1>2, <2>1 DEF Base, ResultsInOrder
<1>6. Snapshots'
  <2>1. moment \in Stamp /\ mark.history \in Stamp /\ mark.anomalies \in Stamp
        /\ high.history \in Stamp /\ high.anomalies \in Stamp
        BY DEF Base, TypeOK, Lanes, Stamp
  <2>2. QED BY <1>1, <1>2, <2>1 DEF Base, Snapshots, HistoryFloor
<1>7. QED BY <1>3, <1>4, <1>5, <1>6 DEF Base

\* Only alert a changed, and in one of the three ways an alert moves.
LEMMA AlertBase ==
  ASSUME Base, NEW a \in Alert, Start(a) \/ Complete(a) \/ Refresh(a)
  PROVE  Base'
<1>1. /\ pc' = pc /\ now' = now /\ now \in Time
      /\ UNCHANGED <<results, store, signals, mark, am, moment, current,
                     past, rows, incidents, high, failures, told, unnamed>>
      BY DEF Base, TypeOK, Start, Complete, Refresh, opened, cycle, history
<1>2. \A b \in Alert : alert[b] \in AlertT /\ alert[b].start \in Stamp /\ alert[b].end \in Stamp
      BY DEF Base, TypeOK, AlertT
<1>3. /\ \A b \in Alert \ {a} : alert'[b] = alert[b]
      /\ \/ Start(a) /\ alert[a].at = "none" /\ alert'[a] = [at |-> "current", start |-> now, end |-> Never]
         \/ Complete(a) /\ alert[a].at = "current" /\ alert[a].start < now
            /\ alert'[a] = [at |-> "moving", start |-> alert[a].start, end |-> now]
         \/ Refresh(a) /\ alert[a].at = "moving"
            /\ alert'[a] = [at |-> "history", start |-> alert[a].start, end |-> alert[a].end]
  <2>1. alert \in [Alert -> AlertT]
        BY DEF Base, TypeOK, AlertT
  <2>2. alert[a] = [at |-> alert[a].at, start |-> alert[a].start, end |-> alert[a].end]
        BY <1>2 DEF AlertT
  <2>3. CASE Start(a)
        BY <2>1, <2>3 DEF Start
  <2>4. CASE Complete(a)
        BY <2>1, <2>2, <2>4 DEF Complete, AlertT
  <2>5. CASE Refresh(a)
        BY <2>1, <2>2, <2>5 DEF Refresh, AlertT
  <2>6. QED BY <2>3, <2>4, <2>5
<1>4. TypeOK'
  <2>1. now \in Stamp /\ Never \in Stamp
        BY <1>1 DEF Stamp
  <2>2. alert'[a] \in AlertT
        BY <1>2, <1>3, <2>1 DEF AlertT
  <2>3. alert' \in [Alert -> AlertT]
    <3>1. alert' = [alert EXCEPT ![a] = alert'[a]]
      <4>1. CASE Start(a)
            BY <4>1 DEF Start, Base, TypeOK
      <4>2. CASE Complete(a)
            BY <4>2 DEF Complete, Base, TypeOK
      <4>3. CASE Refresh(a)
            BY <4>3 DEF Refresh, Base, TypeOK
      <4>4. QED BY <4>1, <4>2, <4>3
    <3>2. QED BY <3>1, <2>2 DEF Base, TypeOK, AlertT
  <2>4. budget' \in [alerts : Nat, results : Nat]
        BY DEF Base, TypeOK, Start, Complete, Refresh
  <2>5. QED BY <1>1, <2>3, <2>4 DEF Base, TypeOK, AlertT
<1>5. AlertsInOrder'
  <2>1. \A b \in Alert :
          /\ alert'[b].at # "none" => alert'[b].start \in Time /\ alert'[b].start <= now'
          /\ alert'[b].at \in {"none", "current"} => alert'[b].end = Never
          /\ alert'[b].at \in {"moving", "history"} =>
               alert'[b].end \in Time /\ alert'[b].start < alert'[b].end /\ alert'[b].end <= now'
          /\ alert'[b].at = "moving" => now' - alert'[b].end <= Lag
    <3> TAKE b \in Alert
    <3>1. CASE b # a
          BY <3>1, <1>1, <1>3 DEF Base, AlertsInOrder
    <3>2. CASE b = a
      <4>1. now <= now /\ now - now <= Lag
            BY <1>1, BoundsAssumption DEF Time
      <4>2. QED BY <3>2, <4>1, <1>1, <1>3 DEF Base, AlertsInOrder
    <3>3. QED BY <3>1, <3>2
  <2>2. \A b, c \in Alert :
          /\ b # c /\ MonitorOf[b] = MonitorOf[c]
          /\ alert'[b].at # "none" /\ alert'[c].at # "none"
          => Before(b, c)' \/ Before(c, b)'
    <3>1. \A b, c \in Alert : Before(b, c) /\ alert[c].at # "none" => Before(b, c)'
      <4> SUFFICES ASSUME NEW b \in Alert, NEW c \in Alert, Before(b, c), alert[c].at # "none"
                   PROVE  Before(b, c)'
          OBVIOUS
      <4>1. alert'[b] = alert[b]
            BY <1>3 DEF Before
      <4>2. alert'[c].start = alert[c].start
            BY <1>3
      <4>3. QED BY <4>1, <4>2 DEF Before
    <3>2. \A b \in Alert \ {a} : MonitorOf[b] = MonitorOf[a] /\ Start(a) /\ alert[b].at # "none" => Before(b, a)'
          BY <1>3 DEF Start, Before
    <3>3. QED BY <3>1, <3>2, <1>3 DEF Base, AlertsInOrder
  <2>3. QED BY <2>1, <2>2 DEF AlertsInOrder
<1>6. ResultsInOrder'
      BY <1>1 DEF Base, ResultsInOrder
<1>7. Snapshots'
  <2>1. \A b \in current :
          /\ alert'[b].at # "none" /\ alert'[b].start = alert[b].start
          /\ alert'[b].end = alert[b].end \/ alert'[b].end = now
    <3>1. \A b \in current : b \in Alert /\ alert[b].at # "none"
          BY DEF Base, TypeOK, Snapshots
    <3>2. QED BY <3>1, <1>3
  <2>2. \A b \in past : alert'[b] = alert[b]
    <3>1. \A b \in past : b \in Alert /\ alert[b].at = "history"
          BY DEF Base, TypeOK, Snapshots
    <3>2. QED BY <3>1, <1>3
  <2>3. QED BY <1>1, <2>1, <2>2 DEF Base, Snapshots, HistoryFloor
<1>8. QED BY <1>4, <1>5, <1>6, <1>7 DEF Base

LEMMA EvaluateBase ==
  ASSUME Base, NEW d \in Detector, Evaluate(d)
  PROVE  Base'
<1>1. /\ pc' = pc
      /\ UNCHANGED <<now, alert, store, signals, mark, am, moment, current,
                     past, rows, incidents, high, failures, told, unnamed>>
      BY DEF Base, TypeOK, Evaluate, opened, cycle, history
<1>2. PICK exec \in Lower(now, Lag) .. now, window \in Time,
           grade \in {"breach", "unclear", "healthy"} :
        /\ exec >= 0 /\ window <= exec
        /\ \A r \in results : r.key = d => r.window # window
        /\ results' = results \cup {[key |-> d, window |-> window,
                                     grade |-> grade, exec |-> exec]}
      BY DEF Evaluate
<1> DEFINE new == [key |-> d, window |-> window, grade |-> grade, exec |-> exec]
<1>3. exec \in Time /\ exec <= now
  <2>1. now \in Time
        BY DEF Base, TypeOK
  <2>2. exec \in Int /\ exec <= now
    <3>1. Lower(now, Lag) \in Int
          BY <2>1, LowerFacts, BoundsAssumption DEF Stamp, Time, Never
    <3>2. QED BY <3>1, <2>1 DEF Time
  <2>3. QED BY <1>2, <2>1, <2>2, BoundsAssumption DEF Time
<1>4. new \in Result
      BY <1>3 DEF Result
<1>5. TypeOK'
  <2>1. budget' \in [alerts : Nat, results : Nat]
        BY DEF Base, TypeOK, Evaluate
  <2>2. results' \subseteq Result
        BY <1>2, <1>4 DEF Base, TypeOK
  <2>3. QED BY <1>1, <2>1, <2>2 DEF Base, TypeOK
<1>6. ResultsInOrder'
  <2>1. IsFiniteSet(results')
        BY <1>2, FS_AddElement DEF Base, ResultsInOrder
  <2>2. QED BY <1>1, <1>2, <1>3, <2>1 DEF Base, ResultsInOrder
<1>7. AlertsInOrder' /\ Snapshots'
      BY <1>1 DEF Base, AlertsInOrder, Before, Snapshots, HistoryFloor
<1>8. QED BY <1>5, <1>6, <1>7 DEF Base

\* The reads of a cycle.
LEMMA ReadCurrentBase ==
  ASSUME Base, ReadCurrent
  PROVE  Base'
<1>1. /\ pc = "idle" /\ pc' = "history" /\ moment' = now /\ told' = FALSE
      /\ current' = {a \in Alert : alert[a].at = "current"}
      /\ UNCHANGED <<now, alert, results, budget, store, signals, mark, am, past, rows,
                     incidents, high, failures, unnamed>>
      BY DEF ReadCurrent, env, opened
<1>2. TypeOK'
      BY <1>1 DEF Base, TypeOK
<1>3. AlertsInOrder' /\ ResultsInOrder'
      BY <1>1 DEF Base, AlertsInOrder, Before, ResultsInOrder
<1>4. Snapshots'
  <2>1. now <= now
        BY DEF Base, TypeOK, Time
  <2>2. \A a \in current' : alert[a].at # "none" /\ alert[a].start <= now /\ alert[a].end = Never
        BY <1>1 DEF Base, AlertsInOrder
  <2>3. QED BY <1>1, <2>1, <2>2 DEF Base, Snapshots, HistoryFloor
<1>5. QED BY <1>2, <1>3, <1>4 DEF Base

\* The alerts a cycle finds in the history, and the mark it will write.
FoundAlerts == {a \in Alert : alert[a].at = "history" /\ alert[a].end >= HistoryFloor}
Ends        == {HistoryFloor} \cup {alert[a].end : a \in FoundAlerts}

LEMMA ReadHistoryIs ==
  ASSUME Base, ReadHistory
  PROVE  /\ pc = "history" /\ pc' = "project" /\ past' = FoundAlerts
         /\ high' = [high EXCEPT !.history = MaxOf(Ends)]
         /\ HistoryFloor \in Stamp /\ HistoryFloor <= mark.history
         /\ MaxOf(Ends) \in Stamp /\ MaxOf(Ends) \in Ends /\ MaxOf(Ends) <= now
         /\ \A a \in FoundAlerts : alert[a].end <= MaxOf(Ends)
         /\ UNCHANGED <<now, alert, results, budget, store, signals, mark, am, moment,
                        current, rows, incidents, failures, told, unnamed>>
<1>1. /\ pc = "history" /\ pc' = "project" /\ past' = FoundAlerts
      /\ high' = [high EXCEPT !.history = MaxOf(Ends)]
      /\ UNCHANGED <<now, alert, results, budget, store, signals, mark, am, moment,
                     current, rows, incidents, failures, told, unnamed>>
      BY DEF ReadHistory, FoundAlerts, Ends, env, opened, history
<1>2. mark.history \in Stamp /\ mark.history <= now /\ now \in Time
      BY DEF Base, TypeOK, Lanes, Snapshots
<1>3. HistoryFloor \in Stamp /\ HistoryFloor <= mark.history
      BY <1>2, LowerFacts, BoundsAssumption DEF HistoryFloor
<1>4. \A a \in FoundAlerts : alert[a].end \in Time /\ alert[a].end <= now
      BY DEF FoundAlerts, Base, AlertsInOrder
<1>5. Ends \subseteq Stamp /\ Ends # {}
      BY <1>3, <1>4 DEF Ends, Stamp
<1>6. MaxOf(Ends) \in Ends /\ \A x \in Ends : x <= MaxOf(Ends)
      BY <1>5, MaxStamp
<1>7. \A x \in Ends : x <= now
  <2>1. HistoryFloor <= now
        BY <1>2, <1>3, BoundsAssumption DEF Stamp, Time, Never
  <2>2. QED BY <2>1, <1>4 DEF Ends
<1>8. \A a \in FoundAlerts : alert[a].end \in Ends
      BY DEF Ends
<1>9. QED BY <1>1, <1>3, <1>5, <1>6, <1>7, <1>8

LEMMA ReadHistoryBase ==
  ASSUME Base, ReadHistory
  PROVE  Base'
<1>1. /\ pc = "history" /\ pc' = "project" /\ past' = FoundAlerts
      /\ high' = [high EXCEPT !.history = MaxOf(Ends)]
      /\ MaxOf(Ends) \in Stamp /\ MaxOf(Ends) <= now
      /\ UNCHANGED <<now, alert, results, budget, store, signals, mark, am, moment,
                     current, rows, incidents, failures, told, unnamed>>
      BY ReadHistoryIs
<1>2. high' \in Lanes /\ high'.history = MaxOf(Ends) /\ high'.anomalies = high.anomalies
      BY <1>1 DEF Base, TypeOK, Lanes
<1>3. TypeOK'
      BY <1>1, <1>2 DEF Base, TypeOK, FoundAlerts
<1>4. AlertsInOrder' /\ ResultsInOrder'
      BY <1>1 DEF Base, AlertsInOrder, Before, ResultsInOrder
<1>5. Snapshots'
  <2>1. \A a \in past' : a \in Alert /\ alert[a].at = "history" /\ HistoryFloor <= alert[a].end
    <3>1. \A a \in FoundAlerts : alert[a].end \in Time /\ alert[a].end >= HistoryFloor
          BY DEF FoundAlerts, Base, AlertsInOrder
    <3>2. HistoryFloor \in Stamp
          BY ReadHistoryIs
    <3>3. \A x \in Stamp, y \in Time : y >= x => x <= y
          BY DEF Stamp, Time
    <3>4. QED BY <1>1, <3>1, <3>2, <3>3 DEF FoundAlerts
  <2>2. QED BY <1>1, <1>2, <2>1 DEF Base, Snapshots, HistoryFloor
<1>6. QED BY <1>3, <1>4, <1>5 DEF Base

\* What a cycle works out, from the reads that failed.
LEMMA ProjectIs ==
  ASSUME Base, Project
  PROVE  /\ pc = "project" /\ pc' = "signals" /\ moment' = 0 /\ current' = {} /\ past' = {}
         /\ UNCHANGED <<now, alert, results, budget, store, signals, mark, am, told>>
         /\ \E lost \in SUBSET Faults :
              /\ failures + Cardinality(lost) <= MaxFailures
              /\ failures' = failures + Cardinality(lost)
              /\ incidents' = [e \in Episode |->
                                 IncidentOf(lost, RunsOf(lost), FoldedOf(lost), e)]
              /\ rows' = [s \in Source |-> RowOf(lost, RunsOf(lost), FoldedOf(lost), s)]
              /\ unnamed' = unnamed \cup {<<r.key, r.window>> : r \in Scanned \ Named(lost)}
         /\ high'.history = high.history /\ high' \in Lanes
         /\ EvidenceFloor \in Stamp /\ EvidenceFloor <= mark.anomalies
         /\ high'.anomalies <= now
         /\ high'.anomalies = EvidenceFloor \/ \E r \in Scanned : high'.anomalies = r.exec
         /\ \A r \in Scanned : r.exec <= high'.anomalies
<1> DEFINE Execs == {EvidenceFloor} \cup {r.exec : r \in Scanned}
<1>1. /\ pc = "project" /\ pc' = "signals" /\ moment' = 0 /\ current' = {} /\ past' = {}
      /\ UNCHANGED <<now, alert, results, budget, store, signals, mark, am, told>>
      /\ high' = [high EXCEPT !.anomalies = MaxOf(Execs)]
      BY DEF Project, env, opened
<1>2. \E lost \in SUBSET Faults :
        /\ failures + Cardinality(lost) <= MaxFailures
        /\ failures' = failures + Cardinality(lost)
        /\ incidents' = [e \in Episode |-> IncidentOf(lost, RunsOf(lost), FoldedOf(lost), e)]
        /\ rows' = [s \in Source |-> RowOf(lost, RunsOf(lost), FoldedOf(lost), s)]
        /\ unnamed' = unnamed \cup {<<r.key, r.window>> : r \in Scanned \ Named(lost)}
      BY DEF Project, RunsOf, FoldedOf
<1>3. mark.anomalies \in Stamp /\ mark.anomalies <= now /\ now \in Time
      BY DEF Base, TypeOK, Lanes, Snapshots
<1>4. EvidenceFloor \in Stamp /\ EvidenceFloor <= mark.anomalies
      BY <1>3, LowerFacts, BoundsAssumption DEF EvidenceFloor
<1>5. \A r \in Scanned : r.exec \in Time /\ r.exec <= now
      BY DEF Scanned, Base, TypeOK, Result, ResultsInOrder
<1>6. Execs \subseteq Stamp /\ Execs # {}
      BY <1>4, <1>5 DEF Stamp
<1>7. \A x \in Execs : x <= now
  <2>1. EvidenceFloor <= now
        BY <1>3, <1>4, BoundsAssumption DEF Stamp, Time, Never
  <2>2. QED BY <2>1, <1>5
<1>8. MaxOf(Execs) \in Execs /\ \A x \in Execs : x <= MaxOf(Execs)
      BY <1>6, MaxStamp
<1>9. high' \in Lanes /\ high'.history = high.history /\ high'.anomalies = MaxOf(Execs)
      BY <1>1, <1>6, <1>8 DEF Base, TypeOK, Lanes
<1>10. \A r \in Scanned : r.exec \in Execs
      OBVIOUS
<1>11. MaxOf(Execs) = EvidenceFloor \/ \E r \in Scanned : MaxOf(Execs) = r.exec
      BY <1>8
<1> HIDE DEF Execs
<1>12. QED BY <1>1, <1>2, <1>4, <1>7, <1>8, <1>9, <1>10, <1>11

LEMMA ProjectBase ==
  ASSUME Base, Project
  PROVE  Base'
<1>1. /\ pc = "project" /\ pc' = "signals" /\ moment' = 0 /\ current' = {} /\ past' = {}
      /\ UNCHANGED <<now, alert, results, budget, store, signals, mark, am, told>>
      /\ high'.history = high.history /\ high' \in Lanes /\ high'.anomalies <= now
      BY ProjectIs
<1>2. PICK lost \in SUBSET Faults :
        /\ failures + Cardinality(lost) <= MaxFailures
        /\ failures' = failures + Cardinality(lost)
        /\ incidents' = [e \in Episode |-> IncidentOf(lost, RunsOf(lost), FoldedOf(lost), e)]
        /\ rows' = [s \in Source |-> RowOf(lost, RunsOf(lost), FoldedOf(lost), s)]
        /\ unnamed' = unnamed \cup {<<r.key, r.window>> : r \in Scanned \ Named(lost)}
      BY ProjectIs
<1>3. TypeOK /\ \A m \in Monitor : GroupOK(m)
      BY GroupsAreOK DEF Base
<1>4. incidents' \in [Episode -> Doc \cup {None}]
      BY <1>2, <1>3, IncidentTyped
<1>5. rows' \in [Source -> Episode \cup {None}]
      BY <1>2, <1>3, RowTyped
<1>6. unnamed' \subseteq Reading
  <2>1. \A r \in Scanned : <<r.key, r.window>> \in Reading
        BY <1>3 DEF Scanned, TypeOK, Result, Reading
  <2>2. QED BY <1>2, <1>3, <2>1 DEF TypeOK
<1>7. failures' \in 0 .. MaxFailures
  <2>1. IsFiniteSet({"names", "timelines", "mget"})
    <3>1. IsFiniteSet({"names"})
          BY FS_Singleton
    <3>2. IsFiniteSet({"names"} \cup {"timelines"})
          BY <3>1, FS_AddElement
    <3>3. IsFiniteSet(({"names"} \cup {"timelines"}) \cup {"mget"})
          BY <3>2, FS_AddElement
    <3>4. ({"names"} \cup {"timelines"}) \cup {"mget"} = {"names", "timelines", "mget"}
          OBVIOUS
    <3>5. QED BY <3>3, <3>4
  <2>2. lost \subseteq {"names", "timelines", "mget"}
        BY InputsAssumption DEF SilentReads
  <2>3. Cardinality(lost) \in Nat
        BY <2>1, <2>2, FS_Subset, FS_CardinalityType
  <2>4. failures \in Nat /\ MaxFailures \in Nat
        BY <1>3, BoundsAssumption DEF TypeOK
  <2>5. QED BY <1>2, <2>3, <2>4
<1>8. TypeOK'
  <2>1. 0 \in Time
        BY BoundsAssumption DEF Time
  <2>2. QED BY <1>1, <1>3, <1>4, <1>5, <1>6, <1>7, <2>1 DEF TypeOK
<1>9. AlertsInOrder' /\ ResultsInOrder'
      BY <1>1 DEF Base, AlertsInOrder, Before, ResultsInOrder
<1>10. Snapshots'
      BY <1>1 DEF Base, Snapshots, HistoryFloor
<1>11. QED BY <1>8, <1>9, <1>10 DEF Base

\* The writes of a cycle, and the ways it ends.
LEMMA EndCycleBase ==
  ASSUME Base, EndCycle, pc \notin {"history", "project"},
         UNCHANGED <<now, alert, results, budget, mark>>,
         store' \in [Episode -> Doc \cup {None}], signals' \in [Source -> Episode \cup {None}],
         am' \in [Key -> [start : Stamp, firing : BOOLEAN, renewed : BOOLEAN]],
         failures' \in 0 .. MaxFailures, told' \in BOOLEAN, unnamed' = unnamed
  PROVE  Base'
<1>1. /\ Never \in Stamp /\ 0 \in Time
      /\ NoEpisodes \in [Episode -> Doc \cup {None}] /\ NoRows \in [Source -> Episode \cup {None}]
      BY BoundsAssumption DEF Stamp, Time, NoEpisodes, NoRows
<1>2. [history |-> Never, anomalies |-> Never] \in Lanes
      BY <1>1 DEF Lanes
<1>3. TypeOK'
      BY <1>1, <1>2 DEF Base, TypeOK, EndCycle
<1>4. AlertsInOrder' /\ ResultsInOrder'
      BY DEF Base, AlertsInOrder, Before, ResultsInOrder
<1>5. Snapshots'
  <2>1. Never <= now
        BY DEF Base, TypeOK, Time, Never
  <2>2. high'.history = Never /\ high'.anomalies = Never
        BY DEF EndCycle
  <2>3. current' = {} /\ past' = {} /\ pc' = "idle" /\ rows' = NoRows /\ incidents' = NoEpisodes
        BY DEF EndCycle
  <2>4. mark'.history <= now' /\ mark'.anomalies <= now'
        BY DEF Base, Snapshots
  <2>5. QED BY <2>1, <2>2, <2>3, <2>4 DEF Snapshots
<1>6. QED BY <1>3, <1>4, <1>5 DEF Base

LEMMA WritesTyped ==
  ASSUME TypeOK
  PROVE  /\ \A S \in SUBSET Rows : SignalsWith(S) \in [Source -> Episode \cup {None}]
         /\ \A E \in SUBSET Touched : IncidentsWith(E) \in [Episode -> Doc \cup {None}]
BY DEF TypeOK, SignalsWith, IncidentsWith

LEMMA WriteBase ==
  ASSUME Base, WriteSignals \/ WriteIncidents \/ WriteHistoryMark \/ WriteAnomalyMark
  PROVE  Base'
<1>1. /\ UNCHANGED <<now, alert, results, budget, am, cycle, failures, told, unnamed>>
      /\ pc \in {"signals", "incidents", "historyMark", "anomalyMark"}
      /\ pc' \in {"incidents", "historyMark", "anomalyMark", "push"}
      BY DEF WriteSignals, WriteIncidents, WriteHistoryMark, WriteAnomalyMark, env, history
<1>2. UNCHANGED <<moment, current, past, rows, incidents, high>>
      BY <1>1 DEF cycle
<1>3. TypeOK /\ current = {} /\ past = {}
      BY <1>1 DEF Base, Snapshots
<1>4. store' \in [Episode -> Doc \cup {None}] /\ signals' \in [Source -> Episode \cup {None}]
      BY <1>3, WritesTyped DEF WriteSignals, WriteIncidents, WriteHistoryMark,
         WriteAnomalyMark, TypeOK
<1>5. /\ mark' \in Lanes
      /\ mark'.history <= now /\ mark'.anomalies <= now
  <2>1. mark \in Lanes /\ high \in Lanes
        BY <1>3 DEF TypeOK
  <2>2. CASE WriteHistoryMark
        BY <2>1, <2>2 DEF WriteHistoryMark, Lanes, Base, Snapshots
  <2>3. CASE WriteAnomalyMark
        BY <2>1, <2>3 DEF WriteAnomalyMark, Lanes, Base, Snapshots
  <2>4. CASE WriteSignals \/ WriteIncidents
        BY <2>1, <2>4 DEF WriteSignals, WriteIncidents, Base, Snapshots
  <2>5. QED BY <2>2, <2>3, <2>4
<1>6. TypeOK'
      BY <1>1, <1>2, <1>3, <1>4, <1>5 DEF TypeOK
<1>7. AlertsInOrder' /\ ResultsInOrder'
      BY <1>1 DEF Base, AlertsInOrder, Before, ResultsInOrder
<1>8. Snapshots'
      BY <1>1, <1>2, <1>3, <1>5 DEF Base, Snapshots
<1>9. QED BY <1>6, <1>7, <1>8 DEF Base

LEMMA EndBase ==
  ASSUME Base, Abort \/ SomeSignals \/ SomeIncidents \/ Push
  PROVE  Base'
<1>1. /\ EndCycle /\ pc \notin {"history", "project"}
      /\ UNCHANGED <<now, alert, results, budget, mark>> /\ unnamed' = unnamed
      BY DEF Abort, SomeSignals, SomeIncidents, Push, env, opened
<1>2. TypeOK
      BY DEF Base
<1>3. failures' \in 0 .. MaxFailures
      BY <1>2, BoundsAssumption DEF TypeOK, Abort, SomeSignals, SomeIncidents, Push
<1>4. told' \in BOOLEAN
      BY <1>2 DEF TypeOK, Abort, SomeSignals, SomeIncidents, Push
<1>5. store' \in [Episode -> Doc \cup {None}] /\ signals' \in [Source -> Episode \cup {None}]
      BY <1>2, WritesTyped DEF Abort, SomeSignals, SomeIncidents, Push, opened, TypeOK
<1>6. am' \in [Key -> [start : Stamp, firing : BOOLEAN, renewed : BOOLEAN]]
  <2>1. CASE ~ Push
        BY <2>1, <1>2 DEF Abort, SomeSignals, SomeIncidents, opened, TypeOK
  <2>2. CASE Push
    <3> DEFINE sent(k) == {t \in Time : <<k, t>> \in Touched}
               told1(k) == IF sent(k) = {} THEN [am[k] EXCEPT !.renewed = FALSE]
                           ELSE [start |-> MaxOf(sent(k)), renewed |-> TRUE,
                                 firing |-> IsOpen(incidents[<<k, MaxOf(sent(k))>>])]
    <3>1. am' = [k \in Key |-> told1(k)]
          BY <2>2 DEF Push
    <3>2. ASSUME NEW k \in Key
          PROVE  told1(k) \in [start : Stamp, firing : BOOLEAN, renewed : BOOLEAN]
      <4>1. CASE sent(k) = {}
            BY <4>1, <1>2 DEF TypeOK
      <4>2. CASE sent(k) # {}
        <5>1. sent(k) \subseteq Stamp
              BY DEF Stamp
        <5>2. MaxOf(sent(k)) \in Stamp
              BY <4>2, <5>1, MaxStamp
        <5> HIDE DEF sent
        <5>3. IsOpen(incidents[<<k, MaxOf(sent(k))>>]) \in BOOLEAN
              BY DEF IsOpen
        <5>4. QED BY <4>2, <5>2, <5>3
      <4>3. QED BY <4>1, <4>2
    <3> HIDE DEF told1
    <3>3. QED BY <3>1, <3>2
  <2>3. QED BY <2>1, <2>2
<1>7. QED BY <1>1, <1>3, <1>4, <1>5, <1>6, EndCycleBase

LEMMA StepBase ==
  ASSUME Base, [Next]_vars
  PROVE  Base'
<1>1. CASE Tick
      BY <1>1, TickBase
<1>2. ASSUME NEW a \in Alert, Start(a) \/ Complete(a) \/ Refresh(a) PROVE Base'
      BY <1>2, AlertBase
<1>3. ASSUME NEW d \in Detector, Evaluate(d) PROVE Base'
      BY <1>3, EvaluateBase
<1>4. CASE ReadCurrent
      BY <1>4, ReadCurrentBase
<1>5. CASE ReadHistory
      BY <1>5, ReadHistoryBase
<1>6. CASE Project
      BY <1>6, ProjectBase
<1>7. CASE WriteSignals \/ WriteIncidents \/ WriteHistoryMark \/ WriteAnomalyMark
      BY <1>7, WriteBase
<1>8. CASE Push \/ Failure
      BY <1>8, EndBase DEF Failure
<1>9. CASE UNCHANGED vars
      BY <1>9 DEF Base, TypeOK, AlertsInOrder, Before, ResultsInOrder, Snapshots,
         HistoryFloor, vars, env, opened, cycle, history
<1>10. QED BY <1>1, <1>2, <1>3, <1>4, <1>5, <1>6, <1>7, <1>8, <1>9
       DEF Next, Environment, Cycle

\* Every variable keeps its type, through every reducer of a cycle.
THEOREM TypeCorrect == Spec => []TypeOK
<1>1. Spec => []Base
      BY InitBase, StepBase, PTL DEF Spec
<1>2. Base => TypeOK
      BY DEF Base
<1>3. QED BY <1>1, <1>2, PTL

-----------------------------------------------------------------------------
(***************************************************************************)
(* Detectors: the evidence of a recovery.                                  *)
(***************************************************************************)
\* The healthy results a document may have counted, and that it counted no more.
Evidence(d, doc) == {r \in results : /\ r.key = d /\ r.grade = "healthy"
                                     /\ r.window > doc.lastBreach
                                     /\ r.window <= doc.lastHealthy}
Evidenced(d, doc) ==
  /\ doc.healthy <= Cardinality(Evidence(d, doc))
  /\ doc.state = "RESOLVED" => doc.healthy >= DetectorRequired

LEMMA EvidenceFinite ==
  ASSUME Base, NEW d, NEW doc
  PROVE  IsFiniteSet(Evidence(d, doc)) /\ Cardinality(Evidence(d, doc)) \in Nat
<1>1. IsFiniteSet(results) /\ Evidence(d, doc) \subseteq results
      BY DEF Base, ResultsInOrder, Evidence
<1>2. QED BY <1>1, FS_Subset, FS_CardinalityType

LEMMA BlankEvidenced ==
  ASSUME Base, NEW d, NEW t \in Stamp
  PROVE  Evidenced(d, Blank(t))
BY EvidenceFinite DEF Evidenced, Blank

LEMMA EvaluatedEvidenced ==
  ASSUME Base, NEW d, NEW doc \in Doc, Evidenced(d, doc), NEW r \in Result
  PROVE  Evidenced(d, Evaluated(doc, r))
<1> DEFINE new == Evaluated(doc, r)
<1>1. /\ new.healthy = doc.healthy /\ new.lastBreach = doc.lastBreach
      /\ new.lastHealthy = doc.lastHealthy
      /\ new.state = "RESOLVED" => doc.state = "RESOLVED"
      BY DEF Evaluated, Doc
<1> HIDE DEF new
<1>2. Evidence(d, new) = Evidence(d, doc)
      BY <1>1 DEF Evidence
<1>3. Evidenced(d, new)
      BY <1>1, <1>2 DEF Evidenced
<1>4. QED BY <1>3 DEF new

LEMMA BreachedEvidenced ==
  ASSUME Base, NEW d, NEW doc \in Doc, Evidenced(d, doc), NEW r \in Result
  PROVE  Evidenced(d, Breached(doc, r))
<1> DEFINE new == Breached(doc, r)
<1>1. CASE r.window > doc.lastBreach
  <2>1. new.healthy = 0 /\ new.state = "OPEN"
        BY <1>1 DEF Breached, Doc
  <2> HIDE DEF new
  <2>2. Cardinality(Evidence(d, new)) \in Nat
        BY EvidenceFinite
  <2>3. Evidenced(d, new)
        BY <2>1, <2>2 DEF Evidenced
  <2>4. QED BY <2>3 DEF new
<1>2. CASE ~ (r.window > doc.lastBreach)
      BY <1>2 DEF Breached
<1>3. QED BY <1>1, <1>2

LEMMA RecoveredEvidenced ==
  ASSUME Base, NEW d, NEW doc \in Doc, Evidenced(d, doc),
         NEW r \in results, r.key = d, r.grade = "healthy"
  PROVE  Evidenced(d, Recovered(doc, r))
<1> DEFINE new == Recovered(doc, r)
           counts == IsOpen(doc) /\ r.window > doc.lastHealthy /\ r.window > doc.lastBreach
<1>1. CASE counts
  <2>1. /\ new.healthy = doc.healthy + 1 /\ new.lastBreach = doc.lastBreach
        /\ new.lastHealthy = r.window
        /\ new.state = "RESOLVED" => doc.healthy + 1 >= DetectorRequired
        BY <1>1 DEF Recovered, Doc
  <2>2. r.window > doc.lastBreach /\ r.window > doc.lastHealthy
        /\ r.window \in Time /\ doc.lastHealthy \in Stamp
        BY <1>1 DEF Base, TypeOK, Result, Doc
  <2> HIDE DEF new
  <2>3. r \notin Evidence(d, doc)
        BY <2>2, BoundsAssumption DEF Evidence, Stamp, Time, Never
  <2>4. Evidence(d, doc) \cup {r} \subseteq Evidence(d, new)
    <3>1. \A s \in results : s.window \in Time
          BY DEF Base, TypeOK, Result
    <3>2. \A s \in results : s.window <= doc.lastHealthy => s.window <= r.window
          BY <2>2, <3>1, BoundsAssumption DEF Stamp, Time, Never
    <3>3. r.window <= r.window
          BY <2>2 DEF Time
    <3>4. QED BY <2>1, <2>2, <3>2, <3>3 DEF Evidence
  <2>5. Cardinality(Evidence(d, doc) \cup {r}) = Cardinality(Evidence(d, doc)) + 1
        BY <2>3, EvidenceFinite, FS_AddElement
  <2>6. Cardinality(Evidence(d, doc) \cup {r}) <= Cardinality(Evidence(d, new))
        BY <2>4, EvidenceFinite, FS_Subset
  <2>7. Evidenced(d, new)
    <3>1. /\ Cardinality(Evidence(d, doc)) \in Nat /\ Cardinality(Evidence(d, new)) \in Nat
          /\ doc.healthy \in Nat
          BY EvidenceFinite DEF Doc
    <3>2. doc.healthy <= Cardinality(Evidence(d, doc))
          BY DEF Evidenced
    <3>3. new.healthy <= Cardinality(Evidence(d, new))
          BY <2>1, <2>5, <2>6, <3>1, <3>2
    <3>4. QED BY <2>1, <3>3 DEF Evidenced
  <2>8. QED BY <2>7 DEF new
<1>2. CASE ~ counts
      BY <1>2 DEF Recovered
<1>3. QED BY <1>1, <1>2

\* What one result does to the accumulator: only the document of its episode
\* changes, from `old' to `new'.
Reduced(old, r) ==
  CASE r.grade = "breach"  -> Breached(Evaluated(old, r), r)
    [] r.grade = "healthy" -> Recovered(Evaluated(old, r), r)
    [] OTHER               -> Evaluated(old, r)

Changes(acc, r, start, old, new) ==
  /\ start = DetectorStart(acc.line, acc.docs, r)
  /\ start \in acc.line \/ (start = r.window /\ r.grade = "breach")
  /\ start <= r.window
  /\ old = IF start \in acc.line THEN acc.docs[start] ELSE Blank(r.window)
  /\ new = Reduced(old, r)
  /\ ApplyResult(acc, r).line = acc.line \cup {start}
  /\ ApplyResult(acc, r).touched = acc.touched \cup {start}
  /\ ApplyResult(acc, r).docs = [acc.docs EXCEPT ![start] = new]
  /\ ApplyResult(acc, r).docs[start] = new
  /\ \A t \in Time \ {start} : ApplyResult(acc, r).docs[t] = acc.docs[t]
  /\ ApplyResult(acc, r).owner = [acc.owner EXCEPT ![r.window] = start]

LEMMA ApplyResultChanges ==
  ASSUME NEW acc, AccOK(acc), NEW r \in Result
  PROVE  \/ DetectorStart(acc.line, acc.docs, r) = None /\ ApplyResult(acc, r) = acc
         \/ \E start \in Time, old \in Doc, new \in Doc : Changes(acc, r, start, old, new)
<1>0. CASE DetectorStart(acc.line, acc.docs, r) = None
      BY <1>0 DEF ApplyResult
<1> SUFFICES ASSUME DetectorStart(acc.line, acc.docs, r) # None
             PROVE  \E start \in Time, old \in Doc, new \in Doc :
                      Changes(acc, r, start, old, new)
    BY <1>0
<1> DEFINE start == DetectorStart(acc.line, acc.docs, r)
           old == IF start \in acc.line THEN acc.docs[start] ELSE Blank(r.window)
           doc == Evaluated(IF acc.docs[start] = None THEN Blank(r.window)
                            ELSE acc.docs[start], r)
           new == CASE r.grade = "breach"  -> Breached(doc, r)
                    [] r.grade = "healthy" -> Recovered(doc, r)
                    [] OTHER               -> doc
<1>1. /\ start \in Time /\ start <= r.window
      /\ start \in acc.line \/ (start = r.window /\ r.grade = "breach")
      BY DetectorStartTyped
<1>2. r.window \in Stamp
      BY DEF Result, Stamp
<1>3. old \in Doc
      BY <1>1, <1>2, BlankTyped DEF AccOK, AccT
<1>4. doc = Evaluated(old, r)
      BY <1>1 DEF AccOK
<1>5. doc \in Doc
      BY <1>3, <1>4, ReducersTyped
<1>6. new \in Doc
  <2> HIDE DEF doc
  <2>1. QED BY <1>5, ReducersTyped
<1>7. ApplyResult(acc, r) =
        [line    |-> acc.line \cup {start},
         docs    |-> [acc.docs EXCEPT ![start] = new],
         touched |-> acc.touched \cup {start},
         owner   |-> [acc.owner EXCEPT ![r.window] = start]]
      BY ApplyResultIs
<1>8. new = Reduced(old, r)
  <2> HIDE DEF old, doc
  <2>1. QED BY <1>4 DEF Reduced
<1> HIDE DEF start, old, doc, new
<1>9. acc.docs \in [Time -> Doc \cup {None}]
      BY DEF AccOK, AccT
<1>10. /\ ApplyResult(acc, r).line = acc.line \cup {start}
       /\ ApplyResult(acc, r).touched = acc.touched \cup {start}
       /\ ApplyResult(acc, r).docs = [acc.docs EXCEPT ![start] = new]
       /\ ApplyResult(acc, r).docs[start] = new
       /\ \A t \in Time \ {start} : ApplyResult(acc, r).docs[t] = acc.docs[t]
       /\ ApplyResult(acc, r).owner = [acc.owner EXCEPT ![r.window] = start]
       BY <1>1, <1>7, <1>9
<1>11. start = DetectorStart(acc.line, acc.docs, r)
       BY DEF start
<1>12. old = IF start \in acc.line THEN acc.docs[start] ELSE Blank(r.window)
       BY DEF old, start
<1>13. Changes(acc, r, start, old, new)
       BY <1>1, <1>8, <1>10, <1>11, <1>12 DEF Changes
<1>14. QED BY <1>1, <1>3, <1>6, <1>13

LEMMA ReducedEvidenced ==
  ASSUME Base, NEW d, NEW doc \in Doc, Evidenced(d, doc), NEW r \in results, r.key = d
  PROVE  Evidenced(d, Reduced(doc, r))
<1>1. r \in Result /\ r.grade \in {"breach", "unclear", "healthy"}
      BY DEF Base, TypeOK, Result
<1>2. Evaluated(doc, r) \in Doc /\ Evidenced(d, Evaluated(doc, r))
      BY <1>1, ReducersTyped, EvaluatedEvidenced
<1>3. Evidenced(d, Breached(Evaluated(doc, r), r))
      BY <1>1, <1>2, BreachedEvidenced
<1>4. r.grade = "healthy" => Evidenced(d, Recovered(Evaluated(doc, r), r))
      BY <1>2, RecoveredEvidenced
<1>5. QED BY <1>2, <1>3, <1>4 DEF Reduced

\* One window of the fold: no result of the detector is in it, or just one.
LEMMA ResultsAtIs ==
  ASSUME Base, NEW d, NEW scanned, scanned \subseteq results, NEW t \in Time, NEW acc
  PROVE  \/ /\ ApplyResults(acc, ResultsAt(scanned, d, t)) = acc
            /\ \A r \in scanned : r.key = d => r.window # t
         \/ \E r \in scanned :
              /\ r \in Result /\ r.key = d /\ r.window = t
              /\ ApplyResults(acc, ResultsAt(scanned, d, t)) = ApplyResult(acc, r)
              /\ \A s \in scanned : s.key = d /\ s.window = t => s = r
<1>1. CASE ResultsAt(scanned, d, t) = {}
      BY <1>1 DEF ApplyResults, ResultsAt
<1>2. CASE ResultsAt(scanned, d, t) # {}
  <2>1. PICK r \in ResultsAt(scanned, d, t) : TRUE
        BY <1>2
  <2>2. r \in scanned /\ r.key = d /\ r.window = t /\ r \in Result
        BY <2>1 DEF ResultsAt, Base, TypeOK
  <2>3. \A s \in scanned : s.key = d /\ s.window = t => s = r
        BY <2>2 DEF Base, ResultsInOrder
  <2>4. ResultsAt(scanned, d, t) = {r}
        BY <2>1, <2>3 DEF ResultsAt
  <2>5. ApplyResults(acc, ResultsAt(scanned, d, t)) = ApplyResult(acc, r)
        BY <2>4 DEF ApplyResults
  <2>6. QED BY <2>2, <2>3, <2>5
<1>3. QED BY <1>1, <1>2

\* The accumulator a fold begins with.
Begins(acc, d, line) ==
  /\ AccOK(acc) /\ acc.line = line /\ acc.touched = {}
  /\ \A t \in line : acc.docs[t] = store[<<d, t>>]
  /\ \A t \in Time : acc.owner[t] = Never

LEMMA AppliedBegins ==
  ASSUME TypeOK, NEW d \in Detector, NEW line, line \subseteq Starts(d), NEW scanned, NEW f,
         AppliedBy(f, d, line, scanned)
  PROVE  Begins(f[Never], d, line)
<1> DEFINE docs  == [w \in Time |-> IF w \in line THEN store[<<d, w>>] ELSE None]
           owner == [w \in Time |-> Never]
<1>1. f[Never] = [line |-> line, touched |-> {}, owner |-> owner, docs |-> docs]
      BY DEF AppliedBy
<1>2. line \subseteq Time /\ \A t \in line : store[<<d, t>>] \in Doc
      BY Stored DEF Key
<1>3. /\ docs \in [Time -> Doc \cup {None}] /\ owner \in [Time -> Stamp]
      /\ \A t \in Time : t \in line <=> docs[t] # None
      /\ \A t \in line : docs[t] = store[<<d, t>>]
      /\ \A t \in Time : owner[t] = Never
      BY <1>2, InputsAssumption DEF Stamp
<1> HIDE DEF docs, owner
<1>4. f[Never] \in AccT /\ f[Never].line = line /\ f[Never].touched = {}
      /\ f[Never].docs = docs /\ f[Never].owner = owner
      BY <1>1, <1>2, <1>3 DEF AccT
<1>5. AccOK(f[Never])
  <2> DEFINE acc == f[Never]
  <2>1. acc \in AccT /\ acc.touched \subseteq acc.line
        /\ \A t \in Time : t \in acc.line <=> acc.docs[t] # None
        BY <1>3, <1>4
  <2> HIDE DEF acc
  <2>2. AccOK(acc)
        BY <2>1 DEF AccOK
  <2>3. QED BY <2>2 DEF acc
<1>6. QED BY <1>3, <1>4, <1>5 DEF Begins

LEMMA AppliedEvidenced ==
  ASSUME Base, NEW d \in Detector, NEW line, line \subseteq Starts(d),
         NEW scanned, scanned \subseteq results,
         \A t \in line : Evidenced(d, store[<<d, t>>])
  PROVE  LET acc == Applied(d, line, scanned)
         IN \A t \in acc.line : Evidenced(d, acc.docs[t])
<1>1. PICK f : AppliedBy(f, d, line, scanned) /\ Applied(d, line, scanned) = f[MaxTime]
      BY AppliedFold
<1>2. Begins(f[Never], d, line)
  <2>1. TypeOK /\ AppliedBy(f, d, line, scanned)
        BY <1>1 DEF Base
  <2>2. QED BY <2>1, AppliedBegins
<1>3. \A t \in Time : f[t] = ApplyResults(f[t - 1], ResultsAt(scanned, d, t))
      BY <1>1 DEF AppliedBy
<1> DEFINE Good(acc) == AccOK(acc) /\ \A t \in acc.line : Evidenced(d, acc.docs[t])
           G == {t \in Stamp : Good(f[t])}
<1>4. Never \in G
      BY <1>2 DEF Stamp, Begins
<1>5. ASSUME NEW acc, Good(acc), NEW r \in results, r.key = d PROVE Good(ApplyResult(acc, r))
  <2>1. r \in Result
        BY DEF Base, TypeOK
  <2>2. AccOK(ApplyResult(acc, r))
        BY <1>5, <2>1, ApplyResultTyped
  <2>3. ASSUME NEW start \in Time, NEW old \in Doc, NEW new \in Doc,
               Changes(acc, r, start, old, new)
        PROVE  Good(ApplyResult(acc, r))
    <3>1. Evidenced(d, old)
      <4>1. r.window \in Stamp
            BY <2>1 DEF Result, Stamp
      <4>2. QED BY <4>1, <1>5, <2>3, BlankEvidenced DEF Changes
    <3>2. Evidenced(d, new)
          BY <3>1, <1>5, <2>3, ReducedEvidenced DEF Changes
    <3>3. acc.line \subseteq Time
          BY <1>5 DEF AccOK, AccT
    <3>4. QED BY <3>2, <3>3, <1>5, <2>2, <2>3 DEF Changes
  <2> HIDE DEF Good
  <2>4. QED BY <1>5, <2>1, <2>3, ApplyResultChanges DEF Good
<1>6. ASSUME NEW t \in Time, t - 1 \in G PROVE t \in G
  <2>1. t \in Stamp /\ Good(f[t - 1])
        BY <1>6 DEF Stamp
  <2> HIDE DEF Good
  <2>2. f[t] = ApplyResults(f[t - 1], ResultsAt(scanned, d, t))
        BY <1>3
  <2>3. \/ f[t] = f[t - 1]
        \/ \E r \in scanned : r.key = d /\ f[t] = ApplyResult(f[t - 1], r)
        BY <2>2, ResultsAtIs
  <2>4. Good(f[t])
        BY <1>5, <2>1, <2>3
  <2>5. QED BY <2>1, <2>4
<1>7. MaxTime \in Stamp
      BY BoundsAssumption DEF Stamp, Time
<1>8. MaxTime \in G
  <2> HIDE DEF G
  <2>1. QED BY <1>4, <1>6, <1>7, StampInduction
<1>9. QED BY <1>1, <1>8

-----------------------------------------------------------------------------
(***************************************************************************)
(* Detectors: no breach is forgotten.                                      *)
(***************************************************************************)
\* Integers and stamps compare as one expects.
LEMMA StampOrder ==
  /\ \A x, y, z \in Stamp : x <= y /\ y <= z => x <= z
  /\ \A x, y \in Stamp : x <= y \/ y <= x
  /\ \A x, y \in Stamp : x < y <=> ~ (y <= x)
  /\ \A x, y \in Stamp : x > y <=> ~ (x <= y)
  /\ \A x, y \in Stamp : x >= y <=> y <= x
  /\ \A x, y \in Stamp : x <= y /\ y <= x => x = y
  /\ \A x \in Stamp : Never <= x /\ x <= x
  /\ \A x \in Time : x \in Stamp /\ Never < x
BY BoundsAssumption DEF Stamp, Time, Never

\* A document knows ever later breaches.
LEMMA ReducedBreach ==
  ASSUME NEW doc \in Doc, NEW r \in Result
  PROVE  /\ doc.lastBreach <= Reduced(doc, r).lastBreach
         /\ r.grade = "breach" => r.window <= Reduced(doc, r).lastBreach
<1> DEFINE seen == Evaluated(doc, r)
<1>1. seen.lastBreach = doc.lastBreach
      BY DEF Evaluated, Doc
<1>2. seen \in Doc /\ doc.lastBreach \in Stamp /\ r.window \in Stamp
      BY ReducersTyped, StampOrder DEF Doc, Result
<1> HIDE DEF seen
<1>3. CASE r.grade = "breach"
  <2>1. Reduced(doc, r) = Breached(seen, r)
        BY <1>3 DEF Reduced, seen
  <2>2. Breached(seen, r).lastBreach = IF r.window > seen.lastBreach THEN r.window
                                       ELSE seen.lastBreach
        BY <1>2 DEF Breached, Doc
  <2>3. QED BY <1>1, <1>2, <2>1, <2>2, StampOrder
<1>4. CASE r.grade # "breach"
  <2>1. Reduced(doc, r) = Recovered(seen, r) \/ Reduced(doc, r) = seen
        BY <1>4 DEF Reduced, seen
  <2>2. Recovered(seen, r).lastBreach = seen.lastBreach
        BY <1>2 DEF Recovered, Doc
  <2>3. QED BY <1>1, <1>2, <1>4, <2>1, <2>2, StampOrder
<1>5. QED BY <1>3, <1>4

\* What a fold up to the windows in S makes of the breaches of a detector.
KnowsBreaches(acc, d, line, S) ==
  /\ line \subseteq acc.line
  /\ \A t \in acc.line : t <= acc.docs[t].lastBreach
  /\ \A t \in acc.line : t \in Starts(d) =>
       t \in line /\ store[<<d, t>>].lastBreach <= acc.docs[t].lastBreach
  /\ \A r \in S : r.key = d /\ r.grade = "breach" =>
       \E t \in acc.line : r.window <= acc.docs[t].lastBreach

\* The episodes of the detector that were read, and all that a result may begin anew.
Readable(d, line, scanned) ==
  /\ line \subseteq Starts(d)
  /\ \A t \in Starts(d) : t <= store[<<d, t>>].lastBreach
  /\ \A r \in scanned : r.key = d /\ r.grade = "breach" /\ r.window \in Starts(d) =>
       r.window \in line

LEMMA ApplyResultKnows ==
  ASSUME Base, NEW d \in Detector, NEW line, NEW scanned, scanned \subseteq results,
         Readable(d, line, scanned),
         NEW acc, AccOK(acc), NEW S, S \subseteq scanned, KnowsBreaches(acc, d, line, S),
         NEW r \in scanned, r.key = d
  PROVE  KnowsBreaches(ApplyResult(acc, r), d, line, S \cup {r})
<1>1. r \in Result /\ r.window \in Time /\ r.window \in Stamp
      BY StampOrder DEF Base, TypeOK, Result
<1>2. /\ acc.line \subseteq Time /\ acc.line \subseteq Stamp
      /\ \A t \in acc.line : acc.docs[t] \in Doc /\ acc.docs[t].lastBreach \in Stamp
      BY StampOrder DEF AccOK, AccT, Doc
<1>3. CASE DetectorStart(acc.line, acc.docs, r) = None /\ ApplyResult(acc, r) = acc
  <2>1. ASSUME r.grade = "breach"
        PROVE  \E t \in acc.line : r.window <= acc.docs[t].lastBreach
    <3> DEFINE before == {t \in acc.line : t <= r.window}
    <3>1. before # {} \/ acc.line = {} => FALSE
      <4>1. MaxOf(before) # None \/ before = {}
        <5>1. before \subseteq Stamp
              BY <1>2
        <5>2. before # {} => MaxOf(before) \in before
              BY <5>1, MaxStamp
        <5>3. QED BY <5>1, <5>2, InputsAssumption
      <4>2. r.window # None
            BY <1>1, InputsAssumption
      <4>3. QED BY <1>3, <2>1, <4>1, <4>2 DEF DetectorStart
    <3>2. PICK t \in acc.line : ~ (t <= r.window)
          BY <3>1
    <3>3. t <= acc.docs[t].lastBreach
          BY DEF KnowsBreaches
    <3>4. QED BY <1>1, <1>2, <3>2, <3>3, StampOrder
  <2>2. QED BY <1>3, <2>1 DEF KnowsBreaches
<1>4. ASSUME NEW start \in Time, NEW old \in Doc, NEW new \in Doc,
             Changes(acc, r, start, old, new)
      PROVE  KnowsBreaches(ApplyResult(acc, r), d, line, S \cup {r})
  <2> DEFINE got == ApplyResult(acc, r)
  <2>1. /\ got.line = acc.line \cup {start} /\ got.docs[start] = new
        /\ \A t \in Time \ {start} : got.docs[t] = acc.docs[t]
        BY <1>4 DEF Changes
  <2>2. /\ old.lastBreach <= new.lastBreach
        /\ r.grade = "breach" => r.window <= new.lastBreach
        BY <1>1, <1>4, ReducedBreach DEF Changes
  <2>3. old.lastBreach \in Stamp /\ new.lastBreach \in Stamp /\ start \in Stamp
        BY StampOrder DEF Doc
  <2>4. CASE start \in acc.line
    <3>1. old = acc.docs[start]
          BY <1>4, <2>4 DEF Changes
    <3>2. start <= new.lastBreach
          BY <2>2, <2>3, <2>4, <3>1, StampOrder DEF KnowsBreaches
    <3>3. start \in Starts(d) => start \in line /\ store[<<d, start>>].lastBreach <= new.lastBreach
      <4>1. start \in Starts(d) => store[<<d, start>>].lastBreach \in Stamp
            BY Stored DEF Base, Key, Doc
      <4>2. QED BY <2>2, <2>3, <2>4, <3>1, <4>1, StampOrder DEF KnowsBreaches
    <3>4. \A q \in S : q.key = d /\ q.grade = "breach" =>
            \E t \in got.line : q.window <= got.docs[t].lastBreach
      <4> SUFFICES ASSUME NEW q \in S, q.key = d, q.grade = "breach"
                   PROVE  \E t \in got.line : q.window <= got.docs[t].lastBreach
          OBVIOUS
      <4>1. PICK t \in acc.line : q.window <= acc.docs[t].lastBreach
            BY DEF KnowsBreaches
      <4>2. q.window \in Stamp
            BY StampOrder DEF Base, TypeOK, Result
      <4>3. CASE t = start
            BY <2>1, <2>2, <2>3, <3>1, <4>1, <4>2, <4>3, StampOrder
      <4>4. CASE t # start
            BY <1>2, <2>1, <4>1, <4>4
      <4>5. QED BY <4>3, <4>4
    <3> HIDE DEF got
    <3>5. QED BY <1>2, <2>1, <2>2, <2>4, <3>2, <3>3, <3>4 DEF KnowsBreaches, got
  <2>5. CASE start \notin acc.line
    <3>1. start = r.window /\ r.grade = "breach"
          BY <1>4, <2>5 DEF Changes
    <3>2. start \notin Starts(d)
          BY <2>5, <3>1 DEF Readable, KnowsBreaches
    <3>3. \A t \in acc.line : got.docs[t] = acc.docs[t]
          BY <1>2, <2>1, <2>5
    <3> HIDE DEF got
    <3>4. QED BY <2>1, <2>2, <3>1, <3>2, <3>3 DEF KnowsBreaches, got
  <2>6. QED BY <2>4, <2>5
<1>5. QED BY <1>1, <1>3, <1>4, ApplyResultChanges

LEMMA AppliedKnows ==
  ASSUME Base, NEW d \in Detector, NEW line, NEW scanned, scanned \subseteq results,
         Readable(d, line, scanned)
  PROVE  KnowsBreaches(Applied(d, line, scanned), d, line, scanned)
<1>1. PICK f : AppliedBy(f, d, line, scanned) /\ Applied(d, line, scanned) = f[MaxTime]
      BY AppliedFold
<1>2. Begins(f[Never], d, line)
      BY <1>1, AppliedBegins DEF Base, Readable
<1>3. \A t \in Time : f[t] = ApplyResults(f[t - 1], ResultsAt(scanned, d, t))
      BY <1>1 DEF AppliedBy
<1> DEFINE Upto(t) == {r \in scanned : r.window <= t}
           Good(acc, t) == AccOK(acc) /\ KnowsBreaches(acc, d, line, Upto(t))
           G == {t \in Stamp : Good(f[t], t)}
<1>4. Never \in G
  <2>1. \A r \in scanned : ~ (r.window <= Never)
        BY StampOrder DEF Base, TypeOK, Result, Never, Time
  <2>2. \A t \in line : store[<<d, t>>].lastBreach \in Stamp
        BY Stored DEF Base, Key, Doc, Readable
  <2>3. Good(f[Never], Never)
    <3> DEFINE acc == f[Never]
    <3> HIDE DEF acc, Upto
    <3>1. AccOK(acc) /\ acc.line = line /\ \A t \in line : acc.docs[t] = store[<<d, t>>]
          BY <1>2 DEF Begins, acc
    <3>2. KnowsBreaches(acc, d, line, {})
          BY <2>2, <3>1, StampOrder DEF KnowsBreaches, Readable
    <3>3. Upto(Never) = {}
          BY <2>1 DEF Upto
    <3>4. QED BY <3>1, <3>2, <3>3 DEF acc
  <2>4. QED BY <2>3 DEF Stamp
<1>5. ASSUME NEW t \in Time, t - 1 \in G PROVE t \in G
  <2>1. t \in Stamp /\ Good(f[t - 1], t - 1)
        BY <1>5 DEF Stamp
  <2>2. f[t] = ApplyResults(f[t - 1], ResultsAt(scanned, d, t))
        BY <1>3
  <2>3. \A r \in scanned : r.window <= t <=> r.window = t \/ r.window <= t - 1
    <3> TAKE r \in scanned
    <3>1. r.window \in Int /\ t \in Int
          BY BoundsAssumption DEF Base, TypeOK, Result, Time
    <3>2. QED BY <3>1
  <2>4. CASE f[t] = f[t - 1] /\ \A r \in scanned : r.key = d => r.window # t
        BY <2>1, <2>3, <2>4 DEF KnowsBreaches
  <2>5. ASSUME NEW r \in scanned, r \in Result, r.key = d, r.window = t,
               f[t] = ApplyResult(f[t - 1], r),
               \A s \in scanned : s.key = d /\ s.window = t => s = r
        PROVE  t \in G
    <3>1. AccOK(f[t])
          BY <2>1, <2>5, ApplyResultTyped
    <3>2. Upto(t - 1) \subseteq scanned
          OBVIOUS
    <3>3. KnowsBreaches(f[t], d, line, Upto(t - 1) \cup {r})
      <4> HIDE DEF Upto
      <4>1. AccOK(f[t - 1]) /\ KnowsBreaches(f[t - 1], d, line, Upto(t - 1))
            BY <2>1
      <4>2. QED BY <4>1, <2>5, <3>2, ApplyResultKnows
    <3>4. KnowsBreaches(f[t], d, line, Upto(t))
          BY <2>3, <2>5, <3>3 DEF KnowsBreaches
    <3>5. QED BY <2>1, <3>1, <3>4
  <2> HIDE DEF G, Good
  <2>6. QED BY <2>2, <2>4, <2>5, ResultsAtIs
<1>6. MaxTime \in Stamp /\ \A r \in scanned : r.window <= MaxTime
      BY BoundsAssumption DEF Stamp, Time, Base, TypeOK, Result
<1>7. MaxTime \in G
  <2> HIDE DEF G
  <2>1. QED BY <1>4, <1>5, <1>6, StampInduction
<1>8. Upto(MaxTime) = scanned
      BY <1>6
<1>9. QED BY <1>1, <1>7, <1>8

\* A document the fold did not touch is the one that was read.
Untouched(acc, d, line) ==
  \A t \in acc.line \ acc.touched : t \in line /\ acc.docs[t] = store[<<d, t>>]

LEMMA UntouchedIsRead ==
  ASSUME Base, NEW d \in Detector, NEW line, NEW scanned, scanned \subseteq results,
         line \subseteq Starts(d)
  PROVE  Untouched(Applied(d, line, scanned), d, line)
<1>1. PICK f : AppliedBy(f, d, line, scanned) /\ Applied(d, line, scanned) = f[MaxTime]
      BY AppliedFold
<1>2. Begins(f[Never], d, line)
      BY <1>1, AppliedBegins DEF Base
<1>3. \A t \in Time : f[t] = ApplyResults(f[t - 1], ResultsAt(scanned, d, t))
      BY <1>1 DEF AppliedBy
<1> DEFINE Good(acc) == AccOK(acc) /\ Untouched(acc, d, line)
           G == {t \in Stamp : Good(f[t])}
<1>4. Never \in G
      BY <1>2 DEF Stamp, Begins, Untouched
<1>5. ASSUME NEW acc, Good(acc), NEW r \in Result PROVE Good(ApplyResult(acc, r))
  <2>1. AccOK(ApplyResult(acc, r)) /\ acc.line \subseteq Time
        BY <1>5, ApplyResultTyped DEF AccOK, AccT
  <2>2. ASSUME NEW start \in Time, NEW old \in Doc, NEW new \in Doc,
               Changes(acc, r, start, old, new)
        PROVE  Untouched(ApplyResult(acc, r), d, line)
        BY <1>5, <2>1, <2>2 DEF Changes, Untouched
  <2>3. QED BY <1>5, <2>1, <2>2, ApplyResultChanges
<1>6. ASSUME NEW t \in Time, t - 1 \in G PROVE t \in G
  <2>1. t \in Stamp /\ Good(f[t - 1])
        BY <1>6 DEF Stamp
  <2> HIDE DEF Good
  <2>2. f[t] = ApplyResults(f[t - 1], ResultsAt(scanned, d, t))
        BY <1>3
  <2>3. f[t] = f[t - 1] \/ \E r \in Result : f[t] = ApplyResult(f[t - 1], r)
        BY <2>2, ResultsAtIs
  <2>4. Good(f[t])
        BY <1>5, <2>1, <2>3
  <2>5. QED BY <2>1, <2>4
<1>7. MaxTime \in Stamp
      BY BoundsAssumption DEF Stamp, Time
<1>8. MaxTime \in G
  <2> HIDE DEF G
  <2>1. QED BY <1>4, <1>6, <1>7, StampInduction
<1>9. QED BY <1>1, <1>8

-----------------------------------------------------------------------------
(***************************************************************************)
(* What the detectors' part of the indexes keeps through a step.           *)
(***************************************************************************)
LEMMA AgedKeeps ==
  ASSUME NEW doc \in Doc
  PROVE  /\ Aged(doc) \in Doc /\ Aged(doc).healthy = doc.healthy
         /\ Aged(doc).lastBreach = doc.lastBreach
         /\ Aged(doc).lastHealthy = doc.lastHealthy /\ Aged(doc).lastEval = doc.lastEval
         /\ Aged(doc).members = doc.members
         /\ Aged(doc).state = "RESOLVED" <=> doc.state = "RESOLVED"
BY DEF Aged, Doc, Terminal

\* The document of a detector that a cycle writes is one its fold touched, or the
\* open episode it found.
LEMMA DetectorIncident ==
  ASSUME Base, NEW lost, NEW d \in Detector, NEW t \in Time, NEW inc,
         inc = IncidentOf(lost, RunsOf(lost), FoldedOf(lost), <<d, t>>), inc # None
  PROVE  \/ /\ t \in FoldedOf(lost)[d].touched /\ FoldedOf(lost)[d].docs[t] \in Doc
            /\ t \in FoldedOf(lost)[d].line
            /\ inc = Aged(FoldedOf(lost)[d].docs[t])
         \/ /\ t \notin FoldedOf(lost)[d].touched
            /\ t = Prior(lost, d) /\ t \in Starts(d) /\ store[<<d, t>>] \in Doc
            /\ inc = Aged(store[<<d, t>>])
<1>1. d \notin Monitor /\ d \in Key /\ t # None
      BY InputsAssumption, StampOrder DEF Key
<1>2. AccOK(FoldedOf(lost)[d])
      BY LoadedTyped DEF FoldedOf, Base
<1>3. FoldedOf(lost)[d].touched \subseteq FoldedOf(lost)[d].line
      /\ \A u \in FoldedOf(lost)[d].touched : FoldedOf(lost)[d].docs[u] \in Doc
      BY <1>2 DEF AccOK, AccT
<1>4. t = Prior(lost, d) => t \in Starts(d) /\ store[<<d, t>>] \in Doc
      BY <1>1, PriorIs, Stored DEF Base
<1>5. QED BY <1>1, <1>3, <1>4, IncidentIs

EvidenceInv ==
  /\ \A d \in Detector : \A t \in Starts(d) : Evidenced(d, store[<<d, t>>])
  /\ \A d \in Detector, t \in Time :
       incidents[<<d, t>>] # None => Evidenced(d, incidents[<<d, t>>])

LEMMA EvidenceGrows ==
  ASSUME Base, Base', results \subseteq results', NEW d, NEW doc, Evidenced(d, doc),
         doc.healthy \in Nat
  PROVE  Evidenced(d, doc)'
<1>1. Evidence(d, doc) \subseteq Evidence(d, doc)'
      BY DEF Evidence
<1>2. IsFiniteSet(Evidence(d, doc)')
  <2>1. IsFiniteSet(results') /\ Evidence(d, doc)' \subseteq results'
        BY DEF Base, ResultsInOrder, Evidence
  <2>2. QED BY <2>1, FS_Subset
<1>3. Cardinality(Evidence(d, doc)) <= Cardinality(Evidence(d, doc)')
      BY <1>1, <1>2, FS_Subset
<1>4. Cardinality(Evidence(d, doc)) \in Nat /\ Cardinality(Evidence(d, doc)') \in Nat
      BY <1>2, EvidenceFinite, FS_CardinalityType
<1>5. doc.healthy <= Cardinality(Evidence(d, doc)')
      BY <1>3, <1>4 DEF Evidenced
<1>6. QED BY <1>5 DEF Evidenced

\* The store after a step: a cycle writes all, or some, of its documents.
LEMMA StoreWrites ==
  ASSUME Base, [Next]_vars
  PROVE  \/ store' = store
         \/ \E E \in SUBSET Touched :
              /\ pc = "incidents" /\ store' = [e \in Episode |-> IF e \in E THEN incidents[e] ELSE store[e]]
              /\ WriteIncidents => E = Touched
              /\ WriteIncidents \/ SomeIncidents
<1>1. CASE WriteIncidents
      BY <1>1 DEF WriteIncidents, IncidentsWith
<1>2. CASE SomeIncidents
  <2>1. PICK E \in SUBSET Touched : store' = IncidentsWith(E)
        BY <1>2 DEF SomeIncidents
  <2>2. CASE WriteIncidents
        BY <2>2, <1>1
  <2>3. QED BY <1>2, <2>1, <2>2, <1>1 DEF SomeIncidents, IncidentsWith
<1>3. CASE ~ WriteIncidents /\ ~ SomeIncidents
      BY <1>3 DEF Next, Environment, Cycle, Failure, Tick, Start, Complete, Refresh, Evaluate,
         ReadCurrent, ReadHistory, Project, WriteSignals, WriteHistoryMark, WriteAnomalyMark,
         Push, Abort, SomeSignals, opened, vars
<1>4. QED BY <1>1, <1>2, <1>3

\* The documents to write change when they are worked out and when a cycle ends.
LEMMA IncidentsWritten ==
  ASSUME Base, [Next]_vars
  PROVE  incidents' = incidents \/ Project \/ incidents' = NoEpisodes
BY DEF Next, Environment, Cycle, Failure, Tick, Start, Complete, Refresh, Evaluate,
   ReadCurrent, ReadHistory, WriteSignals, WriteIncidents, WriteHistoryMark,
   WriteAnomalyMark, Push, Abort, SomeSignals, SomeIncidents, EndCycle, cycle, vars

LEMMA ResultsGrow ==
  ASSUME Base, [Next]_vars
  PROVE  results \subseteq results'
BY DEF Next, Environment, Cycle, Failure, Tick, Start, Complete, Refresh, Evaluate,
   ReadCurrent, ReadHistory, Project, WriteSignals, WriteIncidents, WriteHistoryMark,
   WriteAnomalyMark, Push, Abort, SomeSignals, SomeIncidents, env, vars

LEMMA StepEvidence ==
  ASSUME Base, Base', EvidenceInv, [Next]_vars
  PROVE  EvidenceInv'
<1>1. results \subseteq results'
      BY ResultsGrow
<1>2. \A d \in Detector : d \in Key
      BY DEF Key
<1>3. ASSUME NEW d \in Detector, NEW t \in Time, incidents'[<<d, t>>] # None
      PROVE  Evidenced(d, incidents[<<d, t>>])'
  <2>1. <<d, t>> \in Episode
        BY <1>2, StampOrder DEF Episode
  <2>2. incidents'[<<d, t>>] \in Doc
        BY <1>3, <2>1 DEF Base, TypeOK
  <2>3. PICK doc \in Doc : doc = incidents'[<<d, t>>]
        BY <2>2
  <2>4. Evidenced(d, doc)
    <3>1. CASE incidents' = incidents
          BY <1>3, <2>3, <3>1 DEF EvidenceInv
    <3>2. CASE incidents' = NoEpisodes
          BY <1>3, <2>1, <3>2 DEF NoEpisodes
    <3>3. CASE Project
      <4>1. PICK lost \in SUBSET Faults :
              incidents' = [e \in Episode |->
                              IncidentOf(lost, RunsOf(lost), FoldedOf(lost), e)]
            BY <3>3, ProjectIs
      <4>2. doc = IncidentOf(lost, RunsOf(lost), FoldedOf(lost), <<d, t>>) /\ doc # None
            BY <1>3, <2>1, <2>3, <4>1
      <4>3. \A u \in FoldedOf(lost)[d].line : Evidenced(d, FoldedOf(lost)[d].docs[u])
        <5>1. /\ Loaded(lost, d) \subseteq Starts(d) /\ Named(lost) \subseteq results
              BY LoadedTyped DEF Base
        <5>2. \A u \in Loaded(lost, d) : Evidenced(d, store[<<d, u>>])
              BY <5>1 DEF EvidenceInv
        <5>3. FoldedOf(lost)[d] = Applied(d, Loaded(lost, d), Named(lost))
              BY DEF FoldedOf
        <5>4. QED BY <5>1, <5>2, <5>3, AppliedEvidenced
      <4>4. \A old \in Doc : Evidenced(d, old) => Evidenced(d, Aged(old))
        <5> SUFFICES ASSUME NEW old \in Doc, Evidenced(d, old) PROVE Evidenced(d, Aged(old))
            OBVIOUS
        <5>1. Evidence(d, Aged(old)) = Evidence(d, old)
              BY AgedKeeps DEF Evidence
        <5>2. QED BY <5>1, AgedKeeps DEF Evidenced
      <4>5. QED BY <4>2, <4>3, <4>4, DetectorIncident DEF EvidenceInv
    <3>4. QED BY <3>1, <3>2, <3>3, IncidentsWritten
  <2>5. Evidenced(d, doc)'
        BY <1>1, <2>4, EvidenceGrows DEF Doc
  <2>6. QED BY <2>3, <2>5
<1>4. ASSUME NEW d \in Detector, NEW t \in Starts(d)'
      PROVE  Evidenced(d, store[<<d, t>>])'
  <2>1. t \in Time /\ store'[<<d, t>>] # None
        BY <1>4 DEF Starts
  <2>2. <<d, t>> \in Episode
        BY <1>2, <2>1, StampOrder DEF Episode
  <2>3. PICK doc \in Doc : doc = store'[<<d, t>>]
        BY <2>1, <2>2 DEF Base, TypeOK
  <2>4. Evidenced(d, doc)
    <3>1. CASE store'[<<d, t>>] = store[<<d, t>>]
          BY <2>1, <2>3, <3>1 DEF EvidenceInv, Starts
    <3>2. CASE store'[<<d, t>>] = incidents[<<d, t>>]
          BY <2>1, <2>3, <3>2 DEF EvidenceInv
    <3>3. QED BY <2>2, <3>1, <3>2, StoreWrites
  <2>5. Evidenced(d, doc)'
        BY <1>1, <2>4, EvidenceGrows DEF Doc
  <2>6. QED BY <2>3, <2>5
<1>5. QED BY <1>3, <1>4 DEF EvidenceInv

LEMMA InitEvidence ==
  ASSUME Init
  PROVE  EvidenceInv
<1>1. \A d \in Detector, t \in Time : <<d, t>> \in Episode
      BY StampOrder DEF Episode, Key
<1>2. QED BY <1>1 DEF Init, EvidenceInv, Starts, NoEpisodes

\* What the anomaly lane has still to read again, whichever cycle fails.
Pending == {r \in results : /\ r.grade = "breach" /\ EvidenceFloor <= r.exec
                            /\ <<r.key, r.window>> \notin unnamed}
Known(d, w) == \E t \in Starts(d) : w <= store[<<d, t>>].lastBreach
ToBeKnown(d, w) ==
  \E t \in Time : /\ IncidentsWith(Touched)[<<d, t>>] # None
                  /\ w <= IncidentsWith(Touched)[<<d, t>>].lastBreach

BreachInv ==
  /\ \A d \in Detector : \A t \in Starts(d) : t <= store[<<d, t>>].lastBreach
  /\ \A d \in Detector, t \in Time : incidents[<<d, t>>] # None =>
       /\ t <= incidents[<<d, t>>].lastBreach
       /\ store[<<d, t>>] # None => store[<<d, t>>].lastBreach <= incidents[<<d, t>>].lastBreach
  /\ \A r \in results :
       /\ r.grade = "breach" /\ r.exec < EvidenceFloor /\ <<r.key, r.window>> \notin unnamed
       => signals[<<r.key, r.window>>] # None /\ Known(r.key, r.window)
  /\ pc = "signals" => \A r \in Pending : rows[<<r.key, r.window>>] # None
  /\ pc \in {"incidents", "historyMark", "anomalyMark"} =>
       \A r \in Pending : signals[<<r.key, r.window>>] # None
  /\ pc \in {"signals", "incidents"} => \A r \in Pending : ToBeKnown(r.key, r.window)
  /\ pc \in {"historyMark", "anomalyMark"} => \A r \in Pending : Known(r.key, r.window)

\* The reads of the projector that find the episode of a breach do not both fail,
\* and a result can be searched for before the overlap passes it.
EvidenceIsRead == Lag <= EvidenceOverlap /\ ~ ({"timelines", "mget"} \subseteq Faults)

LEMMA KnownGrows ==
  ASSUME Base, Base', BreachInv, [Next]_vars, NEW d \in Detector, NEW w \in Time, Known(d, w)
  PROVE  Known(d, w)'
<1>1. PICK t \in Starts(d) : w <= store[<<d, t>>].lastBreach
      BY DEF Known
<1>2. t \in Time /\ <<d, t>> \in Episode /\ store[<<d, t>>] \in Doc
      BY Stored DEF Base, Key
<1>3. w \in Stamp /\ store[<<d, t>>].lastBreach \in Stamp
      BY <1>2, StampOrder DEF Doc
<1>4. CASE store'[<<d, t>>] = store[<<d, t>>]
      BY <1>1, <1>2, <1>4 DEF Known, Starts
<1>5. ASSUME NEW E \in SUBSET Touched, <<d, t>> \in E, store'[<<d, t>>] = incidents[<<d, t>>]
      PROVE  Known(d, w)'
  <2>1. incidents[<<d, t>>] # None /\ incidents[<<d, t>>] \in Doc
        BY <1>2, <1>5 DEF Touched, Base, TypeOK
  <2>2. store[<<d, t>>].lastBreach <= incidents[<<d, t>>].lastBreach
        BY <1>1, <1>2, <2>1 DEF BreachInv, Starts
  <2>3. incidents[<<d, t>>].lastBreach \in Stamp
        BY <2>1 DEF Doc
  <2>4. w <= incidents[<<d, t>>].lastBreach
        BY <1>1, <1>3, <2>2, <2>3, StampOrder
  <2>5. QED BY <1>2, <1>5, <2>1, <2>4 DEF Known, Starts
<1>6. QED BY <1>2, <1>4, <1>5, StoreWrites

LEMMA SignalsGrow ==
  ASSUME Base, [Next]_vars, NEW s \in Source, signals[s] # None
  PROVE  signals'[s] # None
<1>1. CASE signals' = signals
      BY <1>1
<1>2. CASE signals' # signals
  <2>1. WriteSignals \/ SomeSignals
        BY <1>2 DEF Next, Environment, Cycle, Failure, Tick, Start, Complete, Refresh, Evaluate,
           ReadCurrent, ReadHistory, Project, WriteIncidents, WriteHistoryMark,
           WriteAnomalyMark, Push, Abort, SomeIncidents, opened, vars
  <2>2. PICK S \in SUBSET Rows : signals' = SignalsWith(S)
        BY <2>1 DEF WriteSignals, SomeSignals
  <2>3. QED BY <2>2 DEF SignalsWith, Rows
<1>3. QED BY <1>1, <1>2

\* What Project makes of the breaches it scanned.
LEMMA ProjectKnows ==
  ASSUME Base, BreachInv, EvidenceIsRead, NEW lost \in SUBSET Faults, NEW d \in Detector
  PROVE  /\ Readable(d, Loaded(lost, d), Named(lost))
         /\ KnowsBreaches(FoldedOf(lost)[d], d, Loaded(lost, d), Named(lost))
         /\ AccOK(FoldedOf(lost)[d])
<1>1. /\ Loaded(lost, d) \subseteq Starts(d) /\ Named(lost) \subseteq results
      /\ AccOK(FoldedOf(lost)[d])
      BY LoadedTyped DEF Base, FoldedOf
<1>2. \A r \in Named(lost) : r.key = d /\ r.grade = "breach" /\ r.window \in Starts(d) =>
        r.window \in Loaded(lost, d)
      BY DEF Loaded, BreachedAt, EvidenceIsRead
<1>3. Readable(d, Loaded(lost, d), Named(lost))
      BY <1>1, <1>2 DEF Readable, BreachInv
<1>4. FoldedOf(lost)[d] = Applied(d, Loaded(lost, d), Named(lost))
      BY DEF FoldedOf
<1>5. QED BY <1>1, <1>3, <1>4, AppliedKnows

LEMMA ProjectBreach ==
  ASSUME Base, Base', BreachInv, EvidenceIsRead, Project
  PROVE  BreachInv'
<1>1. PICK lost \in SUBSET Faults :
        /\ incidents' = [e \in Episode |-> IncidentOf(lost, RunsOf(lost), FoldedOf(lost), e)]
        /\ rows' = [s \in Source |-> RowOf(lost, RunsOf(lost), FoldedOf(lost), s)]
        /\ unnamed' = unnamed \cup {<<r.key, r.window>> : r \in Scanned \ Named(lost)}
      BY ProjectIs
<1>2. /\ pc' = "signals" /\ UNCHANGED <<results, store, signals, mark>>
      BY ProjectIs
<1>3. \A d \in Detector : d \in Key
      BY DEF Key
<1>4. ASSUME NEW d \in Detector, NEW t \in Time
      PROVE  /\ incidents'[<<d, t>>] = IncidentOf(lost, RunsOf(lost), FoldedOf(lost), <<d, t>>)
             /\ <<d, t>> \in Episode
      BY <1>1, <1>3, StampOrder DEF Episode
<1>5. ASSUME NEW d \in Detector, NEW t \in Time, incidents'[<<d, t>>] # None
      PROVE  /\ t <= incidents'[<<d, t>>].lastBreach
             /\ store[<<d, t>>] # None =>
                  store[<<d, t>>].lastBreach <= incidents'[<<d, t>>].lastBreach
  <2>1. store[<<d, t>>] # None => t \in Starts(d)
        BY DEF Starts
  <2>2. ASSUME t \in FoldedOf(lost)[d].line, FoldedOf(lost)[d].docs[t] \in Doc,
               incidents'[<<d, t>>] = Aged(FoldedOf(lost)[d].docs[t])
        PROVE  /\ t <= incidents'[<<d, t>>].lastBreach
               /\ store[<<d, t>>] # None =>
                    store[<<d, t>>].lastBreach <= incidents'[<<d, t>>].lastBreach
        BY <2>1, <2>2, ProjectKnows, AgedKeeps DEF KnowsBreaches
  <2>3. ASSUME t \in Starts(d), store[<<d, t>>] \in Doc, incidents'[<<d, t>>] = Aged(store[<<d, t>>])
        PROVE  /\ t <= incidents'[<<d, t>>].lastBreach
               /\ store[<<d, t>>].lastBreach <= incidents'[<<d, t>>].lastBreach
    <3>1. store[<<d, t>>].lastBreach \in Stamp
          BY <2>3 DEF Doc
    <3>2. QED BY <2>3, <3>1, AgedKeeps, StampOrder DEF BreachInv
  <2>4. QED BY <1>4, <1>5, <2>2, <2>3, DetectorIncident
<1>6. \A r \in Pending' : /\ r \in Named(lost) /\ r.key \in Detector /\ r.window \in Time
                          /\ r.grade = "breach"
  <2> TAKE r \in Pending'
  <2>1. r \in results /\ r.grade = "breach" /\ EvidenceFloor <= r.exec
        /\ <<r.key, r.window>> \notin unnamed'
        BY <1>2 DEF Pending, EvidenceFloor
  <2>2. r.key \in Detector /\ r.window \in Time /\ r.exec \in Stamp /\ EvidenceFloor \in Stamp
        BY <2>1, ProjectIs, StampOrder DEF Base, TypeOK, Result
  <2>3. r \in Scanned
        BY <2>1, <2>2, StampOrder DEF Scanned
  <2>4. QED BY <1>1, <2>1, <2>2, <2>3
<1>7. ASSUME NEW r \in Pending'
      PROVE  rows'[<<r.key, r.window>>] # None
  <2> DEFINE s == <<r.key, r.window>>
  <2>1. s \in Reading /\ s \in Source /\ s[1] = r.key /\ s[2] = r.window
        BY <1>6 DEF Reading, Source
  <2>2. s[2] \in BreachedAt(lost, s[1])
        BY <1>6, <2>1 DEF BreachedAt
  <2>3. rows'[s] = RowOf(lost, RunsOf(lost), FoldedOf(lost), s)
        BY <1>1, <2>1
  <2> HIDE DEF s
  <2>4. CASE s \in current \cup past
    <3>1. \E m, t : rows'[s] = <<m, t>> /\ rows'[s] \in Episode \cup {None}
      <4>1. rows'[s] \in Episode \cup {None}
            BY <2>1 DEF Base, TypeOK
      <4>2. QED BY <2>3, <2>4, <4>1 DEF RowOf
    <3>2. s \in Alert
          BY <2>4 DEF Base, TypeOK
    <3>3. PICK i \in Nat : rows'[s] = <<MonitorOf[s], RunsOf(lost)[MonitorOf[s]][i].start>>
                           /\ RunsOf(lost)[MonitorOf[s]][i].start \in Stamp
      <4>1. MonitorOf[s] \in Monitor /\ s \in Group(MonitorOf[s])
            BY <2>4, <3>2, InputsAssumption DEF Group
      <4>2. GroupOK(MonitorOf[s])
            BY GroupsAreOK DEF Base
      <4> DEFINE runs == RunsOf(lost)[MonitorOf[s]]
      <4>3. runs \in Seq(Run) /\ \E i \in DOMAIN runs : s \in runs[i].members
            BY <4>1, <4>2, RunsTyped DEF Base, RunsOf
      <4>4. rows'[s] = <<MonitorOf[s], runs[CHOOSE i \in DOMAIN runs : s \in runs[i].members].start>>
            BY <2>3, <2>4 DEF RowOf
      <4> HIDE DEF runs
      <4>5. PICK i \in DOMAIN runs : rows'[s] = <<MonitorOf[s], runs[i].start>>
            BY <4>3, <4>4
      <4>6. runs[i] \in Run /\ i \in Nat
            BY <4>3
      <4>7. QED BY <4>5, <4>6, StampOrder DEF Run, runs
    <3>4. MonitorOf[s] \in Key
          BY <3>2, InputsAssumption DEF Key
    <3>5. QED BY <3>3, <3>4, InputsAssumption DEF Episode, s
  <2>5. CASE s \notin current \cup past
    <3>1. rows'[s] = <<s[1], FoldedOf(lost)[s[1]].owner[s[2]]>>
          BY <2>1, <2>2, <2>3, <2>5 DEF RowOf
    <3>2. FoldedOf(lost)[s[1]].owner[s[2]] \in Stamp
          BY <1>6, <2>1, ProjectKnows DEF AccOK, AccT
    <3>3. rows'[s] \in Episode
          BY <1>3, <1>6, <2>1, <3>1, <3>2 DEF Episode
    <3>4. QED BY <3>3, InputsAssumption DEF s
  <2>6. QED BY <2>4, <2>5
<1>8. ASSUME NEW r \in Pending'
      PROVE  ToBeKnown(r.key, r.window)'
  <2> DEFINE d == r.key
             acc == FoldedOf(lost)[d]
  <2>1. d \in Detector /\ r.window \in Time /\ r \in Named(lost) /\ r.grade = "breach"
        BY <1>6
  <2>2. PICK t \in acc.line : r.window <= acc.docs[t].lastBreach
        BY <2>1, ProjectKnows DEF KnowsBreaches
  <2>3. t \in Time /\ acc.docs[t] \in Doc
        BY <2>1, <2>2, ProjectKnows DEF AccOK, AccT
  <2> HIDE DEF acc, d
  <2>4. \E u \in Time : IncidentsWith(Touched)'[<<d, u>>] # None
                        /\ r.window <= IncidentsWith(Touched)'[<<d, u>>].lastBreach
    <3>1. <<d, t>> \in Episode /\ incidents'[<<d, t>>] = IncidentOf(lost, RunsOf(lost), FoldedOf(lost), <<d, t>>)
          BY <1>4, <2>1, <2>3
    <3>2. IncidentsWith(Touched)'[<<d, t>>] = IF incidents'[<<d, t>>] # None THEN incidents'[<<d, t>>]
                                              ELSE store[<<d, t>>]
          BY <1>2, <3>1 DEF IncidentsWith, Touched
    <3>3. CASE t \in acc.touched
      <4>1. incidents'[<<d, t>>] = Aged(acc.docs[t])
            BY <2>1, <2>3, <3>1, <3>3, IncidentIs, InputsAssumption DEF acc
      <4>2. Aged(acc.docs[t]) # None /\ r.window <= Aged(acc.docs[t]).lastBreach
            BY <2>2, <2>3, AgedKeeps, InputsAssumption
      <4>3. QED BY <2>3, <3>2, <4>1, <4>2
    <3>4. CASE t \notin acc.touched
      <4>1. t \in Starts(d) /\ acc.docs[t] = store[<<d, t>>]
        <5>1. /\ Loaded(lost, d) \subseteq Starts(d) /\ Named(lost) \subseteq results
              /\ acc = Applied(d, Loaded(lost, d), Named(lost))
              BY <2>1, LoadedTyped DEF Base, acc, FoldedOf
        <5>2. Untouched(acc, d, Loaded(lost, d))
              BY <2>1, <5>1, UntouchedIsRead
        <5>3. QED BY <2>2, <3>4, <5>1, <5>2 DEF Untouched
      <4>2. CASE incidents'[<<d, t>>] # None
        <5>1. store[<<d, t>>] # None
              BY <4>1 DEF Starts
        <5>2. store[<<d, t>>].lastBreach <= incidents'[<<d, t>>].lastBreach
              BY <1>5, <2>1, <2>3, <4>2, <5>1
        <5>3. store[<<d, t>>] \in Doc /\ incidents'[<<d, t>>] \in Doc
              BY <2>3, <3>1, <4>1, <4>2 DEF Base, TypeOK
        <5>4. r.window \in Stamp /\ store[<<d, t>>].lastBreach \in Stamp
              /\ incidents'[<<d, t>>].lastBreach \in Stamp
              BY <2>1, <5>3, StampOrder DEF Doc
        <5>5. r.window <= incidents'[<<d, t>>].lastBreach
              BY <2>2, <4>1, <5>2, <5>4, StampOrder
        <5>6. QED BY <2>3, <3>2, <4>2, <5>5
      <4>3. CASE incidents'[<<d, t>>] = None
            BY <2>2, <2>3, <3>2, <4>1, <4>3 DEF Starts
      <4>4. QED BY <4>2, <4>3
    <3>5. QED BY <3>3, <3>4
  <2>5. QED BY <2>4 DEF ToBeKnown, d
<1>9. ASSUME NEW r \in results', r.grade = "breach", (r.exec < EvidenceFloor)',
             <<r.key, r.window>> \notin unnamed'
      PROVE  signals'[<<r.key, r.window>>] # None /\ Known(r.key, r.window)'
  <2>1. r \in results /\ r.exec < EvidenceFloor /\ <<r.key, r.window>> \notin unnamed
        BY <1>1, <1>2, <1>9 DEF EvidenceFloor
  <2>2. signals[<<r.key, r.window>>] # None /\ Known(r.key, r.window)
        BY <1>9, <2>1 DEF BreachInv
  <2>3. QED BY <1>2, <2>2 DEF Known, Starts
<1>10. \A d \in Detector : \A t \in Starts(d)' : (t <= store[<<d, t>>].lastBreach)'
       BY <1>2 DEF BreachInv, Starts
<1>11. QED BY <1>2, <1>5, <1>7, <1>8, <1>9, <1>10 DEF BreachInv

\* Nothing of the anomaly lane moves but the results, which get later ones.
LEMMA QuietBreach ==
  ASSUME Base, Base', BreachInv, EvidenceIsRead, Environment \/ ReadCurrent \/ ReadHistory
  PROVE  BreachInv'
<1>1. /\ UNCHANGED <<store, signals, mark, rows, incidents, unnamed>>
      /\ pc \in {"idle", "history", "project"} /\ pc' \in {"idle", "history", "project"}
      BY DEF Environment, Tick, Start, Complete, Refresh, Evaluate, ReadCurrent, ReadHistory,
         opened, cycle, history, Quiet
<1>2. ASSUME NEW r \in results', (r.exec < EvidenceFloor)' PROVE r \in results
  <2>1. CASE results' = results
        BY <2>1
  <2>2. ASSUME NEW d \in Detector, Evaluate(d) PROVE r \in results
    <3>1. PICK exec \in Lower(now, Lag) .. now, window \in Time,
               grade \in {"breach", "unclear", "healthy"} :
            /\ exec >= 0
            /\ results' = results \cup {[key |-> d, window |-> window,
                                         grade |-> grade, exec |-> exec]}
          BY <2>2 DEF Evaluate
    <3>2. ASSUME r.exec = exec PROVE FALSE
      <4>1. now \in Stamp /\ mark.anomalies \in Stamp /\ mark.anomalies <= now
            BY StampOrder DEF Base, TypeOK, Lanes, Snapshots
      <4>2. exec < Lower(mark.anomalies, EvidenceOverlap)
            BY <1>1, <1>2, <3>2 DEF EvidenceFloor
      <4>3. Lower(now, Lag) \in Stamp /\ Lower(mark.anomalies, EvidenceOverlap) \in Stamp
            /\ Lower(mark.anomalies, EvidenceOverlap) <= Lower(now, Lag)
        <5>1. Lag \in Nat /\ EvidenceOverlap \in Nat /\ Lag <= EvidenceOverlap
              BY BoundsAssumption DEF EvidenceIsRead
        <5>2. mark.anomalies \in Int /\ now \in Int
              BY <4>1, BoundsAssumption DEF Stamp, Time, Never
        <5>3. Lower(mark.anomalies, EvidenceOverlap) <= Lower(now, Lag)
              BY <4>1, <5>1, <5>2 DEF Lower, Never
        <5>4. QED BY <4>1, <5>1, <5>3, LowerFacts
      <4>4. QED BY <3>1, <4>2, <4>3, BoundsAssumption DEF Stamp, Time, Never
    <3>3. QED BY <3>1, <3>2
  <2>3. CASE ReadCurrent \/ ReadHistory \/ Tick \/ \E a \in Alert : Start(a) \/ Complete(a) \/ Refresh(a)
        BY <1>2, <2>3 DEF ReadCurrent, ReadHistory, Tick, Start, Complete, Refresh, env
  <2>4. QED BY <2>2, <2>3 DEF Environment
<1>3. EvidenceFloor' = EvidenceFloor
      BY <1>1 DEF EvidenceFloor
<1>4. QED BY <1>1, <1>2, <1>3 DEF BreachInv, Known, Starts

\* A cycle writes its signals, its documents and the mark of the anomaly lane.
LEMMA WriteBreach ==
  ASSUME Base, Base', BreachInv, EvidenceIsRead,
         WriteSignals \/ WriteIncidents \/ WriteHistoryMark \/ WriteAnomalyMark
  PROVE  BreachInv'
<1>1. UNCHANGED <<results, rows, incidents, unnamed>> /\ [Next]_vars
      BY DEF WriteSignals, WriteIncidents, WriteHistoryMark, WriteAnomalyMark, env, cycle,
         history, Next, Cycle
<1>2. \A d \in Detector : d \in Key /\ \A t \in Time : <<d, t>> \in Episode
      BY StampOrder DEF Key, Episode
<1>3. \A r \in results : /\ r.key \in Detector /\ r.window \in Time
                         /\ <<r.key, r.window>> \in Source
      BY DEF Base, TypeOK, Result, Source, Reading
<1>4. \A d \in Detector, t \in Time : store'[<<d, t>>] # None =>
        \/ store'[<<d, t>>] = store[<<d, t>>]
        \/ store'[<<d, t>>] = incidents[<<d, t>>] /\ incidents[<<d, t>>] # None
  <2>1. CASE store' = store
        BY <2>1
  <2>2. ASSUME NEW E \in SUBSET Touched,
               store' = [e \in Episode |-> IF e \in E THEN incidents[e] ELSE store[e]]
        PROVE  \A d \in Detector, t \in Time : store'[<<d, t>>] # None =>
                 \/ store'[<<d, t>>] = store[<<d, t>>]
                 \/ store'[<<d, t>>] = incidents[<<d, t>>] /\ incidents[<<d, t>>] # None
        BY <1>2, <2>2
  <2>3. QED BY <1>1, <2>1, <2>2, StoreWrites
<1>5. \A d \in Detector : \A t \in Starts(d)' : (t <= store[<<d, t>>].lastBreach)'
      BY <1>4 DEF BreachInv, Starts
<1>6. ASSUME NEW d \in Detector, NEW t \in Time, incidents'[<<d, t>>] # None
      PROVE  /\ t <= incidents'[<<d, t>>].lastBreach
             /\ store'[<<d, t>>] # None =>
                  store'[<<d, t>>].lastBreach <= incidents'[<<d, t>>].lastBreach
  <2>1. incidents'[<<d, t>>].lastBreach \in Stamp
        BY <1>2, <1>6 DEF Base, TypeOK, Doc
  <2>2. QED BY <1>1, <1>4, <1>6, <2>1, StampOrder DEF BreachInv
<1>7. ASSUME NEW r \in results, r.grade = "breach", <<r.key, r.window>> \notin unnamed,
             signals[<<r.key, r.window>>] # None, Known(r.key, r.window)
      PROVE  (signals[<<r.key, r.window>>] # None /\ Known(r.key, r.window))'
      BY <1>1, <1>3, <1>7, SignalsGrow, KnownGrows
<1>8. CASE WriteSignals
  <2>1. /\ pc = "signals" /\ pc' = "incidents" /\ signals' = SignalsWith(Rows)
        /\ UNCHANGED <<store, mark>>
        BY <1>8 DEF WriteSignals
  <2>2. Pending' = Pending /\ EvidenceFloor' = EvidenceFloor
        BY <1>1, <2>1 DEF Pending, EvidenceFloor
  <2>3. \A r \in Pending : signals'[<<r.key, r.window>>] # None
        BY <1>3, <2>1 DEF BreachInv, Pending, SignalsWith, Rows
  <2>4. \A r \in Pending : ToBeKnown(r.key, r.window)'
        BY <1>1, <2>1 DEF BreachInv, ToBeKnown, IncidentsWith, Touched
  <2>5. QED BY <1>1, <1>5, <1>6, <1>7, <2>1, <2>2, <2>3, <2>4 DEF BreachInv
<1>9. CASE WriteIncidents
  <2>1. /\ pc = "incidents" /\ pc' = "historyMark" /\ store' = IncidentsWith(Touched)
        /\ UNCHANGED <<signals, mark>>
        BY <1>9 DEF WriteIncidents
  <2>2. Pending' = Pending /\ EvidenceFloor' = EvidenceFloor
        BY <1>1, <2>1 DEF Pending, EvidenceFloor
  <2>3. \A r \in Pending : Known(r.key, r.window)'
        BY <2>1 DEF BreachInv, ToBeKnown, Known, Starts
  <2>4. QED BY <1>1, <1>5, <1>6, <1>7, <2>1, <2>2, <2>3 DEF BreachInv
<1>10. CASE WriteHistoryMark
  <2>1. /\ pc = "historyMark" /\ pc' = "anomalyMark" /\ UNCHANGED <<store, signals>>
        /\ mark'.anomalies = mark.anomalies
        BY <1>10 DEF WriteHistoryMark, Base, TypeOK, Lanes
  <2>2. Pending' = Pending /\ EvidenceFloor' = EvidenceFloor
        BY <1>1, <2>1 DEF Pending, EvidenceFloor
  <2>3. \A r \in Pending : Known(r.key, r.window)'
        BY <2>1 DEF BreachInv, Known, Starts
  <2>4. QED BY <1>1, <1>5, <1>6, <1>7, <2>1, <2>2, <2>3 DEF BreachInv
<1>11. CASE WriteAnomalyMark
  <2>1. pc = "anomalyMark" /\ pc' = "push" /\ UNCHANGED <<store, signals>>
        BY <1>11 DEF WriteAnomalyMark
  <2>2. \A r \in results : r.grade = "breach" /\ <<r.key, r.window>> \notin unnamed =>
          signals[<<r.key, r.window>>] # None /\ Known(r.key, r.window)
    <3> SUFFICES ASSUME NEW r \in results, r.grade = "breach",
                        <<r.key, r.window>> \notin unnamed
                 PROVE  signals[<<r.key, r.window>>] # None /\ Known(r.key, r.window)
        OBVIOUS
    <3>1. r.exec < EvidenceFloor \/ EvidenceFloor <= r.exec
      <4>1. r.exec \in Stamp /\ mark.anomalies \in Stamp
            BY StampOrder DEF Base, TypeOK, Result, Lanes
      <4>2. EvidenceFloor \in Stamp
            BY <4>1, LowerFacts, BoundsAssumption DEF EvidenceFloor
      <4>3. QED BY <4>1, <4>2, StampOrder
    <3>2. EvidenceFloor <= r.exec => r \in Pending
          BY DEF Pending
    <3>3. QED BY <2>1, <3>1, <3>2 DEF BreachInv
  <2>3. QED BY <1>1, <1>5, <1>6, <1>7, <2>1, <2>2 DEF BreachInv
<1>12. QED BY <1>8, <1>9, <1>10, <1>11

\* A cycle ends, and what it has not written is forgotten.
LEMMA EndBreach ==
  ASSUME Base, Base', BreachInv, Failure \/ Push
  PROVE  BreachInv'
<1>1. /\ EndCycle /\ UNCHANGED <<results, mark, unnamed>> /\ [Next]_vars
      BY DEF Failure, Abort, SomeSignals, SomeIncidents, Push, env, opened, Next, Cycle
<1>2. \A d \in Detector : d \in Key /\ \A t \in Time : <<d, t>> \in Episode
      BY StampOrder DEF Key, Episode
<1>3. \A r \in results : /\ r.key \in Detector /\ r.window \in Time
                         /\ <<r.key, r.window>> \in Source
      BY DEF Base, TypeOK, Result, Source, Reading
<1>4. pc' = "idle" /\ \A d \in Detector, t \in Time : incidents'[<<d, t>>] = None
      BY <1>1, <1>2 DEF EndCycle, NoEpisodes
<1>5. \A d \in Detector, t \in Time : store'[<<d, t>>] # None =>
        \/ store'[<<d, t>>] = store[<<d, t>>]
        \/ store'[<<d, t>>] = incidents[<<d, t>>] /\ incidents[<<d, t>>] # None
  <2>1. CASE store' = store
        BY <2>1
  <2>2. ASSUME NEW E \in SUBSET Touched,
               store' = [e \in Episode |-> IF e \in E THEN incidents[e] ELSE store[e]]
        PROVE  \A d \in Detector, t \in Time : store'[<<d, t>>] # None =>
                 \/ store'[<<d, t>>] = store[<<d, t>>]
                 \/ store'[<<d, t>>] = incidents[<<d, t>>] /\ incidents[<<d, t>>] # None
        BY <1>2, <2>2
  <2>3. QED BY <1>1, <2>1, <2>2, StoreWrites
<1>6. \A d \in Detector : \A t \in Starts(d)' : (t <= store[<<d, t>>].lastBreach)'
      BY <1>5 DEF BreachInv, Starts
<1>7. ASSUME NEW r \in results, r.grade = "breach", <<r.key, r.window>> \notin unnamed,
             signals[<<r.key, r.window>>] # None, Known(r.key, r.window)
      PROVE  (signals[<<r.key, r.window>>] # None /\ Known(r.key, r.window))'
      BY <1>1, <1>3, <1>7, SignalsGrow, KnownGrows
<1>8. EvidenceFloor' = EvidenceFloor
      BY <1>1 DEF EvidenceFloor
<1>9. QED BY <1>1, <1>4, <1>6, <1>7, <1>8 DEF BreachInv

LEMMA StepBreach ==
  ASSUME Base, Base', BreachInv, EvidenceIsRead, [Next]_vars
  PROVE  BreachInv'
<1>1. CASE Environment \/ ReadCurrent \/ ReadHistory
      BY <1>1, QuietBreach
<1>2. CASE Project
      BY <1>2, ProjectBreach
<1>3. CASE WriteSignals \/ WriteIncidents \/ WriteHistoryMark \/ WriteAnomalyMark
      BY <1>3, WriteBreach
<1>4. CASE Failure \/ Push
      BY <1>4, EndBreach
<1>5. CASE UNCHANGED vars
  <2>1. UNCHANGED <<results, store, signals, mark, pc, rows, incidents, unnamed>>
        BY <1>5 DEF vars, env, opened, cycle, history
  <2>2. EvidenceFloor' = EvidenceFloor
        BY <2>1 DEF EvidenceFloor
  <2>3. Pending' = Pending
        BY <2>1, <2>2 DEF Pending
  <2>4. \A d \in Detector : Starts(d)' = Starts(d)
        BY <2>1 DEF Starts
  <2>5. \A d, w : (Known(d, w) => Known(d, w)') /\ (ToBeKnown(d, w) => ToBeKnown(d, w)')
        BY <2>1 DEF Known, ToBeKnown, Starts, IncidentsWith, Touched
  <2>6. QED BY <2>1, <2>2, <2>3, <2>4, <2>5 DEF BreachInv
<1>6. QED BY <1>1, <1>2, <1>3, <1>4, <1>5 DEF Next, Cycle

LEMMA InitBreach ==
  ASSUME Init
  PROVE  BreachInv
<1>1. \A d \in Detector, t \in Time : <<d, t>> \in Episode
      BY StampOrder DEF Episode, Key
<1>2. \A d \in Detector, t \in Time : store[<<d, t>>] = None /\ incidents[<<d, t>>] = None
      BY <1>1 DEF Init, NoEpisodes
<1>3. QED BY <1>2 DEF Init, BreachInv, Starts, Pending

\* The anomaly lane loses no breach: its watermark passes a breach only when the
\* breach has its signal and an episode that knows of it, whatever was rejected,
\* raised or came late.
THEOREM BreachesStayCovered ==
  ASSUME EvidenceIsRead
  PROVE  Spec => []BreachesAreCovered
<1>1. Init => Base /\ BreachInv
      BY InitBase, InitBreach
<1>2. Base /\ BreachInv /\ [Next]_vars => (Base /\ BreachInv)'
      BY EvidenceIsRead, StepBase, StepBreach
<1>3. Base /\ BreachInv => BreachesAreCovered
  <2> SUFFICES ASSUME Base, BreachInv PROVE BreachesAreCovered
      OBVIOUS
  <2>1. ASSUME NEW r \in results, r.grade = "breach",
               r.exec < Lower(mark.anomalies, EvidenceOverlap), <<r.key, r.window>> \notin unnamed
        PROVE  /\ signals[<<r.key, r.window>>] # None
               /\ \E t \in Starts(r.key) : store[<<r.key, t>>].lastBreach >= r.window
    <3>1. signals[<<r.key, r.window>>] # None /\ Known(r.key, r.window)
          BY <2>1 DEF BreachInv, EvidenceFloor
    <3>2. PICK t \in Starts(r.key) : r.window <= store[<<r.key, t>>].lastBreach
          BY <3>1 DEF Known
    <3>3. r.key \in Key /\ r.window \in Stamp
          BY StampOrder DEF Base, TypeOK, Result, Key
    <3>4. store[<<r.key, t>>].lastBreach \in Stamp
          BY <3>3, Stored DEF Base, Doc
    <3>5. QED BY <3>1, <3>2, <3>3, <3>4, StampOrder
  <2>2. QED BY <2>1 DEF BreachesAreCovered
<1>4. QED BY <1>1, <1>2, <1>3, PTL DEF Spec

-----------------------------------------------------------------------------
(***************************************************************************)
(* Monitors: one alert per episode.                                        *)
(***************************************************************************)
\* A monitor asks one clear, MONITOR_HEALTHY_REQUIRED (of one that asks for more,
\* one alert that has cleared leaves its episode recovering, and what is read
\* together decides where an episode ends); a row is searchable within the
\* overlap, which is what the overlap is for.
OneClear == MonitorRequired = 1 /\ Lag <= Overlap

\* A run of one alert, which has recovered when the alert was in the history.
RunFor(run, a) ==
  /\ run.start = alert[a].start /\ run.members = {a}
  /\ a \in past => run.healthy = 1
  /\ a \notin past => run.healthy = 0 /\ run.lastHealthy = Never

\* A row that comes after every run has recovered opens a run of its own.
LEMMA RowAlone ==
  ASSUME NEW split \in SplitT, NEW a \in Alert, alert[a] \in AlertT, alert[a].start \in Time,
         MonitorRequired = 1, a \in past => alert[a].end \in Time,
         split.runs = <<>> => split.healthy = 0 /\ split.lastHealthy = Never /\ split.end = Never,
         split.runs # <<>> => split.end # Never /\ split.end < alert[a].start
  PROVE  /\ SplitRow(split, a).end = IF a \in past THEN alert[a].end ELSE Never
         /\ \E run \in Run : /\ RunFor(run, a)
                             /\ SplitRow(split, a).runs = Append(split.runs, run)
<1> DEFINE first   == split.runs = <<>>
           beyond  == ~first /\ split.end # Never /\ alert[a].start > split.end
           was     == IF beyond THEN [split EXCEPT !.end = Never, !.healthy = 0,
                                                   !.lastHealthy = Never]
                      ELSE split
           counted == a \in past /\ alert[a].end > was.lastHealthy
           healthy == IF a \notin past THEN 0
                      ELSE IF counted THEN was.healthy + 1 ELSE was.healthy
           cleared == IF a \notin past THEN Never
                      ELSE IF counted THEN alert[a].end ELSE was.lastHealthy
           old     == IF first \/ beyond THEN [start |-> alert[a].start, members |-> {}]
                      ELSE split.runs[Len(split.runs)]
           run     == [start |-> old.start, members |-> old.members \cup {a},
                       healthy |-> healthy, lastHealthy |-> cleared]
           runs    == IF first \/ beyond THEN Append(split.runs, run)
                      ELSE [split.runs EXCEPT ![Len(split.runs)] = run]
           end     == IF a \notin past THEN Never
                      ELSE IF healthy >= MonitorRequired THEN MaxOf({was.end, alert[a].end})
                      ELSE was.end
<1>1. SplitRow(split, a) = [runs |-> runs, end |-> end, healthy |-> healthy,
                            lastHealthy |-> cleared]
      BY DEF SplitRow
<1>2. split.end \in Int /\ alert[a].start \in Int
      BY BoundsAssumption DEF SplitT, Stamp, Time, Never
<1>3. first \/ beyond
      BY <1>2
<1>4. was.end = Never /\ was.healthy = 0 /\ was.lastHealthy = Never
  <2>1. CASE first
        BY <2>1
  <2>2. CASE ~ first
        BY <1>3, <2>2 DEF SplitT
  <2>3. QED BY <2>1, <2>2
<1> HIDE DEF was, beyond
<1>5. a \in past => counted
      BY <1>4, BoundsAssumption DEF Time, Never
<1>6. /\ a \in past => healthy = 1 /\ cleared = alert[a].end
      /\ a \notin past => healthy = 0 /\ cleared = Never
      BY <1>4, <1>5
<1>7. healthy \in Nat /\ cleared \in Stamp
      BY <1>6 DEF AlertT, Stamp
<1>8. a \in past => end = alert[a].end
  <2> SUFFICES ASSUME a \in past PROVE end = alert[a].end
      OBVIOUS
  <2>1. alert[a].end \in Stamp /\ Never \in Stamp /\ alert[a].end > Never
        BY BoundsAssumption DEF Stamp, Time, Never
  <2>2. MaxOf({Never, alert[a].end}) \in {Never, alert[a].end}
        /\ \A x \in {Never, alert[a].end} : x <= MaxOf({Never, alert[a].end})
        BY <2>1, MaxStamp
  <2>3. MaxOf({Never, alert[a].end}) = alert[a].end
        BY <2>1, <2>2, BoundsAssumption DEF Stamp, Time, Never
  <2>4. QED BY <1>4, <1>6, <2>3
<1> HIDE DEF healthy, cleared, end
<1>9. old = [start |-> alert[a].start, members |-> {}]
      BY <1>3
<1> HIDE DEF old
<1>10. run \in Run /\ RunFor(run, a)
  <2>1. run.start = alert[a].start /\ run.members = {a}
        BY <1>9
  <2>2. run \in Run
        BY <1>7, <1>9 DEF Run
  <2>3. QED BY <1>6, <2>1, <2>2 DEF RunFor
<1>11. runs = Append(split.runs, run)
       BY <1>3
<1> HIDE DEF runs, run
<1>12. end = IF a \in past THEN alert[a].end ELSE Never
       BY <1>8 DEF end
<1>13. QED BY <1>1, <1>10, <1>11, <1>12

\* The rows a cycle read of a monitor follow each other, and one that has not
\* ended for the cycle is the last.
InTurn(m) ==
  /\ \A a, b \in Group(m) : a # b => Before(a, b) \/ Before(b, a)
  /\ \A a, b \in Group(m) : a # b /\ a \notin past => Before(b, a)
  /\ \A a \in Group(m) : alert[a].at = "history" =>
       alert[a].end \in Time /\ alert[a].start < alert[a].end
  /\ \A a \in past : alert[a].at = "history"

SplitAlone(split, m, t) ==
  /\ split \in SplitT
  /\ \A i \in DOMAIN split.runs :
       \E a \in Group(m) : RunFor(split.runs[i], a) /\ alert[a].start <= t
  /\ \A b \in Group(m) : alert[b].start <= t =>
       split.runs # <<>> /\ split.runs[1].start <= alert[b].start
  /\ split.runs = <<>> => split.healthy = 0 /\ split.lastHealthy = Never /\ split.end = Never
  /\ split.runs # <<>> => \A b \in Group(m) : alert[b].start > t =>
       split.end # Never /\ split.end < alert[b].start

LEMMA InTurnOrder ==
  ASSUME NEW m, GroupOK(m), InTurn(m), NEW a \in Group(m), NEW b \in Group(m),
         alert[a].start < alert[b].start
  PROVE  a \in past /\ alert[a].end \in Time /\ alert[a].end < alert[b].start
<1>1. a # b /\ alert[a].start \in Time /\ alert[b].start \in Time
      BY StampOrder DEF GroupOK
<1>2. ~ Before(b, a)
  <2> SUFFICES ASSUME Before(b, a) PROVE FALSE
      OBVIOUS
  <2>1. alert[b].end \in Time /\ alert[b].start < alert[b].end /\ alert[b].end < alert[a].start
        BY DEF Before, InTurn
  <2>2. QED BY <1>1, <2>1, BoundsAssumption DEF Time
<1>3. Before(a, b)
      BY <1>1, <1>2 DEF InTurn
<1>4. QED BY <1>1, <1>2, <1>3 DEF InTurn, Before

LEMMA SplitRowAlone ==
  ASSUME NEW m, GroupOK(m), InTurn(m), MonitorRequired = 1, NEW t \in Time, NEW split,
         SplitAlone(split, m, t - 1), NEW a \in Group(m), alert[a].start = t
  PROVE  SplitAlone(SplitRow(split, a), m, t)
<1> DEFINE new == SplitRow(split, a)
<1>1. /\ a \in Alert /\ alert[a] \in AlertT /\ alert[a].start \in Time
      /\ a \in past => alert[a].end \in Time
      BY DEF GroupOK, InTurn
<1>2. alert[a].start > t - 1
      BY BoundsAssumption DEF Time
<1>3. split \in SplitT
      BY DEF SplitAlone
<1>4. /\ split.runs = <<>> => split.healthy = 0 /\ split.lastHealthy = Never /\ split.end = Never
      /\ split.runs # <<>> => split.end # Never /\ split.end < alert[a].start
      BY <1>2 DEF SplitAlone
<1>5. /\ new.end = IF a \in past THEN alert[a].end ELSE Never
      /\ \E run \in Run : RunFor(run, a) /\ new.runs = Append(split.runs, run)
      BY <1>1, <1>3, <1>4, RowAlone
<1>6. PICK run \in Run : RunFor(run, a) /\ new.runs = Append(split.runs, run)
      BY <1>5
<1>7. new \in SplitT
      BY <1>1, <1>3, SplitRowTyped
<1> HIDE DEF new
<1>8. split.runs \in Seq(Run)
      BY <1>3 DEF SplitT
<1>9. \A i \in DOMAIN new.runs :
        \E b \in Group(m) : RunFor(new.runs[i], b) /\ alert[b].start <= t
  <2> TAKE i \in DOMAIN new.runs
  <2>1. CASE i \in DOMAIN split.runs
    <3>1. new.runs[i] = split.runs[i]
          BY <1>6, <1>8, <2>1
    <3>2. PICK b \in Group(m) : RunFor(new.runs[i], b) /\ alert[b].start <= t - 1
          BY <2>1, <3>1 DEF SplitAlone
    <3>3. alert[b].start <= t
          BY <3>2, BoundsAssumption DEF GroupOK, Time
    <3>4. QED BY <3>2, <3>3
  <2>2. CASE i \notin DOMAIN split.runs
    <3>1. new.runs[i] = run
          BY <1>6, <1>8, <2>2
    <3>2. QED BY <1>1, <1>6, <3>1, StampOrder
  <2>3. QED BY <2>1, <2>2
<1>10. new.runs # <<>>
       BY <1>6, <1>8
<1>11. \A b \in Group(m) : alert[b].start > t => new.end # Never /\ new.end < alert[b].start
  <2> SUFFICES ASSUME NEW b \in Group(m), alert[b].start > t
               PROVE  new.end # Never /\ new.end < alert[b].start
      OBVIOUS
  <2>1. alert[a].start < alert[b].start
        BY BoundsAssumption DEF GroupOK, Time
  <2>2. a \in past /\ alert[a].end \in Time /\ alert[a].end < alert[b].start
        BY <2>1, InTurnOrder
  <2>3. QED BY <1>5, <2>2, StampOrder
<1>12. \A b \in Group(m) : alert[b].start <= t => new.runs[1].start <= alert[b].start
  <2> SUFFICES ASSUME NEW b \in Group(m), alert[b].start <= t
               PROVE  new.runs[1].start <= alert[b].start
      OBVIOUS
  <2>1. alert[b].start \in Time /\ (alert[b].start # t => alert[b].start <= t - 1)
        BY BoundsAssumption DEF GroupOK, Time
  <2>2. CASE split.runs = <<>>
    <3>1. new.runs[1] = run
          BY <1>6, <1>8, <2>2
    <3>2. alert[b].start = t
          BY <2>1, <2>2 DEF SplitAlone
    <3>3. QED BY <1>6, <3>1, <3>2, StampOrder DEF RunFor
  <2>3. CASE split.runs # <<>>
    <3>1. new.runs[1] = split.runs[1] /\ 1 \in DOMAIN split.runs
          BY <1>6, <1>8, <2>3
    <3>2. PICK c \in Group(m) : RunFor(split.runs[1], c) /\ alert[c].start <= t - 1
          BY <3>1 DEF SplitAlone
    <3>3. split.runs[1].start <= t
          BY <3>2, BoundsAssumption DEF GroupOK, Time, RunFor
    <3>4. alert[b].start # t => split.runs[1].start <= alert[b].start
          BY <2>1 DEF SplitAlone
    <3>5. QED BY <3>1, <3>3, <3>4
  <2>4. QED BY <2>2, <2>3
<1>13. SplitAlone(new, m, t)
       BY <1>7, <1>9, <1>10, <1>11, <1>12 DEF SplitAlone
<1>14. QED BY <1>13 DEF new

LEMMA SplitRuns ==
  ASSUME NEW m, GroupOK(m), InTurn(m), MonitorRequired = 1, NEW carried,
         carried.healthy = 0, carried.lastHealthy = Never
  PROVE  /\ \A i \in DOMAIN Split(m, carried) :
              \E a \in Group(m) : RunFor(Split(m, carried)[i], a)
         /\ \A b \in Group(m) : Split(m, carried)[1].start <= alert[b].start
<1>1. PICK f : SplitBy(f, m, carried) /\ Split(m, carried) = f[MaxTime].runs
      BY SplitFold
<1> DEFINE G == {t \in Stamp : SplitAlone(f[t], m, t)}
<1>2. Never \in G
  <2>1. Never \in Stamp
        BY DEF Stamp
  <2>2. f[Never] = [runs |-> <<>>, end |-> Never, healthy |-> 0, lastHealthy |-> Never]
        BY <1>1 DEF SplitBy
  <2>3. f[Never] \in SplitT /\ f[Never].runs = <<>>
        BY <2>1, <2>2 DEF SplitT
  <2>4. \A b \in Group(m) : ~ (alert[b].start <= Never)
        BY BoundsAssumption DEF GroupOK, Time, Never
  <2>5. SplitAlone(f[Never], m, Never)
        BY <2>2, <2>3, <2>4 DEF SplitAlone
  <2>6. QED BY <2>1, <2>5
<1>3. ASSUME NEW t \in Time, t - 1 \in G PROVE t \in G
  <2>1. t \in Stamp /\ SplitAlone(f[t - 1], m, t - 1)
        BY <1>3 DEF Stamp
  <2>2. f[t] = SplitRows(f[t - 1], RowsAt(m, t))
        BY <1>1 DEF SplitBy
  <2>3. CASE f[t] = f[t - 1] /\ \A a \in Group(m) : alert[a].start # t
    <3>1. \A b \in Group(m) : /\ alert[b].start > t => alert[b].start > t - 1
                              /\ alert[b].start <= t - 1 => alert[b].start <= t
                              /\ alert[b].start <= t => alert[b].start <= t - 1
          BY <2>3, BoundsAssumption DEF GroupOK, Time
    <3>2. SplitAlone(f[t], m, t)
          BY <2>1, <2>3, <3>1 DEF SplitAlone
    <3>3. QED BY <2>1, <3>2
  <2>4. ASSUME NEW a \in Group(m), f[t] = SplitRow(f[t - 1], a), alert[a].start = t
        PROVE  t \in G
        BY <2>1, <2>4, SplitRowAlone
  <2> HIDE DEF G
  <2>5. QED BY <2>2, <2>3, <2>4, RowsAtIs
<1>4. MaxTime \in Stamp /\ \A b \in Group(m) : alert[b].start <= MaxTime
      BY BoundsAssumption DEF Stamp, Time, GroupOK
<1>5. MaxTime \in G
  <2> HIDE DEF G
  <2>1. QED BY <1>2, <1>3, <1>4, StampInduction
<1>6. QED BY <1>1, <1>4, <1>5 DEF SplitAlone

\* The episode of an alert, and the documents a monitor has: one alert each, that
\* is open, or resolved when the alert was in the history.
Ep(a) == <<MonitorOf[a], alert[a].start>>
AlertDoc(m, t, doc) ==
  \E a \in Alert :
    /\ MonitorOf[a] = m /\ alert[a].start = t /\ alert[a].at # "none" /\ doc.members = {a}
    /\ \/ doc.state = "OPEN" /\ doc.healthy = 0 /\ doc.lastHealthy = Never
       \/ /\ doc.state = "RESOLVED" /\ doc.healthy >= 1
          /\ alert[a].at = "history" /\ a \notin current
Closed(docs, a) ==
  docs[Ep(a)] # None /\ docs[Ep(a)].state = "RESOLVED" /\ a \in docs[Ep(a)].members

\* What the next mark of the history lane leaves behind, and this one does not.
HighFloor == Lower(high.history, Overlap)
Due(a)    == /\ alert[a].end # Never /\ HistoryFloor <= alert[a].end
             /\ alert[a].end < HighFloor

LastIsLast ==
  pc = "project" =>
    \A a \in Alert \ past, b \in current \cup past :
      /\ a # b /\ MonitorOf[a] = MonitorOf[b] /\ alert[a].at # "none"
      /\ alert[a].end = Never \/ HistoryFloor <= alert[a].end
      => Before(b, a)
OneAlertEach ==
  \A m \in Monitor, t \in Time :
    /\ store[<<m, t>>] # None => AlertDoc(m, t, store[<<m, t>>])
    /\ incidents[<<m, t>>] # None => AlertDoc(m, t, incidents[<<m, t>>])
StaysResolved ==
  \A m \in Monitor, t \in Time :
    /\ incidents[<<m, t>>] # None /\ store[<<m, t>>] # None
    /\ store[<<m, t>>].state = "RESOLVED"
    => incidents[<<m, t>>].state = "RESOLVED"
RowsOfAlerts ==
  \A a \in Alert :
    /\ rows[a] # None => rows[a] = Ep(a) /\ alert[a].at # "none"
    /\ signals[a] # None => signals[a] = Ep(a) /\ alert[a].at # "none"
Passed ==
  \A a \in Alert : alert[a].end # Never /\ alert[a].end < HistoryFloor =>
    signals[a] # None /\ Closed(store, a)
Passing ==
  \A a \in Alert : Due(a) =>
    /\ pc = "project" => a \in past
    /\ pc = "signals" => rows[a] # None
    /\ pc \in {"incidents", "historyMark"} => signals[a] # None
    /\ pc \in {"signals", "incidents"} => Closed(incidents, a)
    /\ pc = "historyMark" => Closed(store, a)

MonitorInv ==
  LastIsLast /\ OneAlertEach /\ StaysResolved /\ RowsOfAlerts /\ Passed /\ Passing

\* The rows of a cycle, in order.
LEMMA RowsInTurn ==
  ASSUME Base, MonitorInv, pc = "project", NEW m
  PROVE  InTurn(m) /\ GroupOK(m)
<1>1. \A a \in Group(m) : a \in Alert /\ MonitorOf[a] = m /\ alert[a].at # "none"
      BY DEF Group, Base, TypeOK, Snapshots
<1>2. \A a, b \in Group(m) : a # b => Before(a, b) \/ Before(b, a)
      BY <1>1 DEF Base, AlertsInOrder
<1>3. ASSUME NEW a \in Group(m), NEW b \in Group(m), a # b, a \notin past
      PROVE  Before(b, a)
  <2>1. a \in current /\ b \in current \cup past
        BY <1>3 DEF Group
  <2>2. alert[a].end = Never \/ HistoryFloor <= alert[a].end
    <3>1. alert[a].end = Never \/ (moment <= alert[a].end /\ mark.history <= moment)
          BY <2>1 DEF Base, Snapshots
    <3>2. /\ mark.history \in Stamp /\ moment \in Stamp /\ alert[a].end \in Stamp
          /\ HistoryFloor \in Stamp /\ HistoryFloor <= mark.history
      <4>1. mark.history \in Stamp /\ moment \in Stamp /\ alert[a].end \in Stamp
            BY <1>1, StampOrder DEF Base, TypeOK, Lanes
      <4>2. QED BY <4>1, LowerFacts, BoundsAssumption DEF HistoryFloor
    <3>3. QED BY <3>1, <3>2, StampOrder
  <2>3. QED BY <1>1, <1>3, <2>1, <2>2 DEF MonitorInv, LastIsLast
<1>4. QED BY <1>1, <1>2, <1>3, GroupsAreOK DEF InTurn, Base, AlertsInOrder, Snapshots

\* An open document of a monitor whose alert has ended is read again: it is not
\* behind the mark, so the rows of the cycle begin no later than it.
LEMMA OpenIsRead ==
  ASSUME Base, MonitorInv, pc = "project", NEW p \in Alert, NEW h \in current \cup past,
         p # h, MonitorOf[p] = MonitorOf[h], alert[p].at # "none",
         alert[p].start <= alert[h].start,
         store[Ep(p)] # None, store[Ep(p)].state = "OPEN"
  PROVE  p \in past
<1>1. h \in Alert /\ alert[h].at # "none"
      BY DEF Base, TypeOK, Snapshots
<1>2. Before(p, h) \/ Before(h, p)
      BY <1>1 DEF Base, AlertsInOrder
<1>3. ~ Before(h, p)
  <2> SUFFICES ASSUME Before(h, p) PROVE FALSE
      OBVIOUS
  <2>1. alert[h].end \in Time /\ alert[h].start < alert[h].end /\ alert[h].end < alert[p].start
        BY <1>1 DEF Before, Base, AlertsInOrder
  <2>2. alert[h].start \in Time /\ alert[p].start \in Time
        BY <1>1 DEF Base, AlertsInOrder
  <2>3. QED BY <2>1, <2>2, BoundsAssumption DEF Time
<1>4. alert[p].at = "history" /\ alert[p].end \in Time
      BY <1>2, <1>3 DEF Before, Base, AlertsInOrder
<1>5. HistoryFloor \in Stamp
      BY LowerFacts, BoundsAssumption DEF HistoryFloor, Base, TypeOK, Lanes
<1>6. ~ (alert[p].end < HistoryFloor)
  <2>1. alert[p].end # Never
        BY <1>4, StampOrder
  <2>2. QED BY <2>1 DEF MonitorInv, Passed, Closed
<1>7. HistoryFloor <= alert[p].end
      BY <1>4, <1>5, <1>6, StampOrder
<1>8. QED BY <1>3, <1>7 DEF MonitorInv, LastIsLast

\* What a cycle makes of a monitor: a run for each of its alerts.
LEMMA RunsAlone ==
  ASSUME Base, MonitorInv, OneClear, pc = "project", NEW m \in Monitor, NEW lost
  PROVE  \A i \in DOMAIN Runs(m, Prior(lost, m)) :
           \E a \in Group(m) : RunFor(Runs(m, Prior(lost, m))[i], a)
<1> DEFINE prior == Prior(lost, m)
           carried == IF prior = None THEN Blank(Never) ELSE store[<<m, prior>>]
           split == Split(m, carried)
<1>1. m \in Key /\ GroupOK(m) /\ InTurn(m) /\ MonitorRequired = 1
      BY RowsInTurn DEF Key, OneClear
<1>2. \/ prior = None
      \/ prior \in Starts(m) /\ IsOpen(store[<<m, prior>>])
      BY <1>1, PriorIs DEF Base
<1>3. prior # None => /\ prior \in Time /\ store[<<m, prior>>] # None
                      /\ AlertDoc(m, prior, store[<<m, prior>>])
                      /\ store[<<m, prior>>].state # "RESOLVED"
      BY <1>2 DEF Starts, MonitorInv, OneAlertEach, IsOpen, Terminal
<1>4. carried.healthy = 0 /\ carried.lastHealthy = Never
      BY <1>3 DEF AlertDoc, Blank
<1> HIDE DEF carried
<1>5. /\ \A i \in DOMAIN split : \E a \in Group(m) : RunFor(split[i], a)
      /\ \A b \in Group(m) : split[1].start <= alert[b].start
      BY <1>1, <1>4, SplitRuns
<1>6. split \in Seq(Run)
  <2>1. carried.healthy \in Nat /\ carried.lastHealthy \in Stamp
        BY <1>4, StampOrder DEF Stamp
  <2>2. QED BY <1>1, <2>1, SplitTyped
<1>7. Runs(m, prior) = IF Adopts(split, prior) THEN [split EXCEPT ![1].start = prior] ELSE split
      BY DEF Runs, split, carried
<1> HIDE DEF split, prior
<1>8. CASE ~ Adopts(split, prior)
      BY <1>5, <1>7, <1>8 DEF prior
<1>9. CASE Adopts(split, prior)
  <2>1. split # <<>> /\ prior # None /\ prior <= split[1].start
        BY <1>6, <1>9 DEF Adopts
  <2>2. 1 \in DOMAIN split /\ split[1] \in Run
        BY <1>6, <2>1
  <2>3. PICK h \in Group(m) : RunFor(split[1], h)
        BY <1>5, <2>2
  <2>4. PICK p \in Alert : MonitorOf[p] = m /\ alert[p].start = prior /\ alert[p].at # "none"
        BY <1>3, <2>1 DEF AlertDoc
  <2>5. h \in current \cup past /\ MonitorOf[h] = m /\ alert[h].start = split[1].start
        BY <2>3 DEF Group, RunFor
  <2>6. store[Ep(p)] # None /\ store[Ep(p)].state = "OPEN"
        BY <1>3, <2>1, <2>4 DEF Ep, AlertDoc
  <2>7. p = h \/ p \in past
        BY <2>1, <2>4, <2>5, <2>6, OpenIsRead
  <2>8. p \in Group(m)
        BY <2>3, <2>4, <2>7 DEF Group
  <2>9. split[1].start = prior
    <3>1. split[1].start <= prior
          BY <1>5, <2>4, <2>8
    <3>2. split[1].start \in Stamp /\ prior \in Stamp
          BY <1>3, <2>1, <2>2, StampOrder DEF Run
    <3>3. QED BY <2>1, <3>1, <3>2, StampOrder
  <2>10. [split EXCEPT ![1].start = prior] = split
    <3>1. [split[1] EXCEPT !.start = prior] = split[1]
          BY <2>2, <2>9 DEF Run
    <3>2. QED BY <1>6, <2>2, <3>1
  <2>11. QED BY <1>5, <1>7, <1>9, <2>10 DEF prior
<1>10. QED BY <1>8, <1>9

\* The runs that start at t: one that was read then, or none.
LEMMA OwnedAlone ==
  ASSUME Base, MonitorInv, OneClear, pc = "project", NEW m \in Monitor, NEW lost, NEW t \in Time
  PROVE  \/ /\ Owned(lost, m, t) # {}
            /\ \E a \in Group(m) :
                 /\ alert[a].start = t
                 /\ RunFor(RunsOf(lost)[m][MaxOf(Owned(lost, m, t))], a)
         \/ Owned(lost, m, t) = {} /\ \A a \in Group(m) : alert[a].start # t
<1>1. GroupOK(m)
      BY RowsInTurn
<1>2. TypeOK /\ RunsOf(lost)[m] = Runs(m, Prior(lost, m))
      BY DEF Base, RunsOf
<1>3. \A i \in DOMAIN RunsOf(lost)[m] : \E a \in Group(m) : RunFor(RunsOf(lost)[m][i], a)
      BY <1>2, RunsAlone
<1>4. CASE Owned(lost, m, t) # {}
  <2>1. /\ MaxOf(Owned(lost, m, t)) \in DOMAIN RunsOf(lost)[m]
        /\ RunsOf(lost)[m][MaxOf(Owned(lost, m, t))].start = t
        BY <1>1, <1>2, <1>4, OwnedRun
  <2>2. QED BY <1>3, <1>4, <2>1 DEF RunFor
<1>5. CASE Owned(lost, m, t) = {}
  <2> SUFFICES ASSUME NEW a \in Group(m), alert[a].start = t PROVE FALSE
      BY <1>5
  <2>1. PICK i \in DOMAIN RunsOf(lost)[m] : a \in RunsOf(lost)[m][i].members
        BY <1>1, <1>2, RunsTyped
  <2>2. PICK b \in Group(m) : RunFor(RunsOf(lost)[m][i], b)
        BY <1>3
  <2>3. RunsOf(lost)[m][i].start = t
        BY <2>1, <2>2 DEF RunFor
  <2>4. QED BY <1>5, <2>3 DEF Owned
<1>6. QED BY <1>4, <1>5

LEMMA SameStart ==
  ASSUME Base, NEW a \in Alert, NEW b \in Alert, MonitorOf[a] = MonitorOf[b],
         alert[a].at # "none", alert[b].at # "none", alert[a].start = alert[b].start
  PROVE  a = b
<1> SUFFICES ASSUME a # b PROVE FALSE
    OBVIOUS
<1>1. Before(a, b) \/ Before(b, a)
      BY DEF Base, AlertsInOrder
<1>2. \A c \in {a, b} : alert[c].at = "history" =>
        alert[c].start \in Time /\ alert[c].end \in Time /\ alert[c].start < alert[c].end
      BY DEF Base, AlertsInOrder
<1>3. QED BY <1>1, <1>2, BoundsAssumption DEF Before, Time

\* The document of an alert the cycle read.
ReadDoc(a, doc) ==
  /\ doc # None /\ doc.members = {a}
  /\ a \in past => doc.state = "RESOLVED" /\ doc.healthy = 1
  /\ a \notin past => doc.state = "OPEN" /\ doc.healthy = 0 /\ doc.lastHealthy = Never

LEMMA MonitorDocAlone ==
  ASSUME NEW run \in Run, NEW doc \in Doc, NEW a, RunFor(run, a), doc.members \subseteq {a},
         MonitorRequired = 1
  PROVE  ReadDoc(a, MonitorDoc(run, doc))
<1> DEFINE new == MonitorDoc(run, doc)
<1>1. new \in Doc
      BY MonitorDocTyped
<1>2. new # None
      BY <1>1, InputsAssumption
<1>3. /\ new.members = doc.members \cup run.members
      /\ new.healthy = run.healthy /\ new.lastHealthy = run.lastHealthy
      /\ new.state = IF Enough(run) THEN "RESOLVED"
                     ELSE IF run.healthy > 0 THEN "RECOVERING"
                     ELSE IF run.members \subseteq past THEN doc.state
                     ELSE "OPEN"
      BY DEF MonitorDoc, Doc
<1> HIDE DEF new
<1>4. new.members = {a}
      BY <1>3 DEF RunFor
<1>5. a \in past => Enough(run)
      BY DEF RunFor, Enough
<1>6. a \notin past => ~ Enough(run) /\ ~ (run.healthy > 0) /\ ~ (run.members \subseteq past)
      BY DEF RunFor, Enough
<1>7. ReadDoc(a, new)
      BY <1>2, <1>3, <1>4, <1>5, <1>6 DEF ReadDoc, RunFor
<1>8. QED BY <1>7 DEF new

LEMMA MonitorIncident ==
  ASSUME Base, MonitorInv, OneClear, pc = "project", NEW m \in Monitor, NEW lost, NEW t \in Time,
         NEW inc, inc = IncidentOf(lost, RunsOf(lost), FoldedOf(lost), <<m, t>>)
  PROVE  \/ \E a \in Group(m) : alert[a].start = t /\ ReadDoc(a, inc)
         \/ /\ \A a \in Group(m) : alert[a].start # t
            /\ inc # None => inc = store[<<m, t>>] /\ IsOpen(inc)
<1>1. m \in Key /\ m \notin Detector /\ <<m, t>> \in Episode /\ TypeOK /\ GroupOK(m)
      BY InputsAssumption, StampOrder, RowsInTurn DEF Key, Episode, Base
<1>2. CASE Owned(lost, m, t) # {}
  <2>1. inc = MonitorDoc(RunsOf(lost)[m][MaxOf(Owned(lost, m, t))], Found(lost, <<m, t>>))
        BY <1>1, <1>2, IncidentIs
  <2>2. PICK a \in Group(m) :
          alert[a].start = t /\ RunFor(RunsOf(lost)[m][MaxOf(Owned(lost, m, t))], a)
        BY <1>2, OwnedAlone
  <2>3. RunsOf(lost)[m][MaxOf(Owned(lost, m, t))] \in Run
        BY <1>1, <1>2, OwnedRun
  <2>4. Found(lost, <<m, t>>) \in Doc
        BY <1>1, FoundTyped
  <2>5. Found(lost, <<m, t>>).members \subseteq {a}
    <3>1. CASE Found(lost, <<m, t>>) = Blank(Never)
          BY <3>1 DEF Blank
    <3>2. CASE store[<<m, t>>] # None /\ Found(lost, <<m, t>>) = store[<<m, t>>]
      <4>1. PICK b \in Alert : /\ MonitorOf[b] = m /\ alert[b].start = t /\ alert[b].at # "none"
                               /\ store[<<m, t>>].members = {b}
            BY <3>2 DEF MonitorInv, OneAlertEach, AlertDoc
      <4>2. a \in Alert /\ MonitorOf[a] = m /\ alert[a].at # "none"
            BY DEF Group, Base, TypeOK, Snapshots
      <4>3. a = b
            BY <2>2, <4>1, <4>2, SameStart
      <4>4. QED BY <3>2, <4>1, <4>3
    <3>3. QED BY <3>1, <3>2 DEF Found
  <2>6. ReadDoc(a, inc)
        BY <2>1, <2>2, <2>3, <2>4, <2>5, MonitorDocAlone DEF OneClear
  <2>7. QED BY <2>2, <2>6
<1>3. CASE Owned(lost, m, t) = {}
  <2>1. \A a \in Group(m) : alert[a].start # t
        BY <1>3, OwnedAlone
  <2>2. inc # None => t = Prior(lost, m) /\ inc = store[<<m, t>>]
        BY <1>1, <1>3, IncidentIs
  <2>3. t = Prior(lost, m) => IsOpen(store[<<m, t>>])
    <3>1. t # None
          BY StampOrder, InputsAssumption
    <3>2. QED BY <1>1, <3>1, PriorIs
  <2>4. QED BY <2>1, <2>2, <2>3
<1>4. QED BY <1>2, <1>3

\* The row of an alert names the episode that starts with it.
LEMMA AlertRow ==
  ASSUME Base, MonitorInv, OneClear, pc = "project", NEW a \in Alert, NEW lost
  PROVE  /\ a \in current \cup past =>
              RowOf(lost, RunsOf(lost), FoldedOf(lost), a) = Ep(a)
         /\ a \notin current \cup past =>
              RowOf(lost, RunsOf(lost), FoldedOf(lost), a) = None
<1>1. CASE a \notin current \cup past
      BY <1>1, InputsAssumption DEF RowOf
<1>2. CASE a \in current \cup past
  <2> DEFINE m == MonitorOf[a]
             runs == RunsOf(lost)[m]
             i == CHOOSE i \in DOMAIN runs : a \in runs[i].members
  <2>1. m \in Monitor /\ a \in Group(m) /\ GroupOK(m) /\ TypeOK
        BY <1>2, InputsAssumption, RowsInTurn DEF Group, Base
  <2>2. \E j \in DOMAIN runs : a \in runs[j].members
        BY <2>1, RunsTyped DEF RunsOf
  <2>3. i \in DOMAIN runs /\ a \in runs[i].members
        BY <2>2
  <2>4. RowOf(lost, RunsOf(lost), FoldedOf(lost), a) = <<m, runs[i].start>>
        BY <1>2 DEF RowOf
  <2>5. runs = Runs(m, Prior(lost, m))
        BY <2>1 DEF RunsOf
  <2> HIDE DEF i, runs
  <2>6. PICK b \in Group(m) : RunFor(runs[i], b)
        BY <2>1, <2>3, <2>5, RunsAlone
  <2>7. runs[i].start = alert[a].start
        BY <2>3, <2>6 DEF RunFor
  <2>8. QED BY <1>2, <2>4, <2>7 DEF Ep
<1>3. QED BY <1>1, <1>2

LEMMA ProjectMonitor ==
  ASSUME Base, MonitorInv, OneClear, Project
  PROVE  MonitorInv'
<1>1. /\ pc = "project" /\ pc' = "signals" /\ current' = {} /\ high'.history = high.history
      /\ UNCHANGED <<alert, store, signals, mark>>
      BY ProjectIs
<1>2. PICK lost \in SUBSET Faults :
        /\ incidents' = [e \in Episode |-> IncidentOf(lost, RunsOf(lost), FoldedOf(lost), e)]
        /\ rows' = [s \in Source |-> RowOf(lost, RunsOf(lost), FoldedOf(lost), s)]
      BY ProjectIs
<1>3. ASSUME NEW m \in Monitor, NEW t \in Time
      PROVE  \/ \E a \in Group(m) : alert[a].start = t /\ ReadDoc(a, incidents'[<<m, t>>])
             \/ /\ \A a \in Group(m) : alert[a].start # t
                /\ incidents'[<<m, t>>] # None =>
                     incidents'[<<m, t>>] = store[<<m, t>>] /\ IsOpen(incidents'[<<m, t>>])
  <2>1. <<m, t>> \in Episode
        BY StampOrder DEF Key, Episode
  <2>2. incidents'[<<m, t>>] = IncidentOf(lost, RunsOf(lost), FoldedOf(lost), <<m, t>>)
        BY <1>2, <2>1
  <2>3. QED BY <1>1, <2>2, MonitorIncident
<1>4. \A m \in Monitor : \A a \in Group(m) :
        /\ a \in Alert /\ MonitorOf[a] = m /\ alert[a].at # "none"
        /\ a \in past => alert[a].at = "history"
        /\ a \notin past => a \in current
      BY DEF Group, Base, TypeOK, Snapshots
<1>5. OneAlertEach'
  <2> SUFFICES ASSUME NEW m \in Monitor, NEW t \in Time
               PROVE  /\ store[<<m, t>>] # None => AlertDoc(m, t, store[<<m, t>>])'
                      /\ incidents'[<<m, t>>] # None => AlertDoc(m, t, incidents[<<m, t>>])'
      BY <1>1 DEF OneAlertEach
  <2>1. store[<<m, t>>] # None => AlertDoc(m, t, store[<<m, t>>])'
        BY <1>1 DEF MonitorInv, OneAlertEach, AlertDoc
  <2>2. ASSUME NEW a \in Group(m), alert[a].start = t, ReadDoc(a, incidents'[<<m, t>>])
        PROVE  AlertDoc(m, t, incidents[<<m, t>>])'
        BY <1>1, <1>4, <2>2 DEF AlertDoc, ReadDoc
  <2>3. incidents'[<<m, t>>] # None /\ incidents'[<<m, t>>] = store[<<m, t>>]
          => AlertDoc(m, t, incidents[<<m, t>>])'
        BY <1>1, <2>1 DEF AlertDoc
  <2>4. QED BY <1>3, <2>1, <2>2, <2>3
<1>6. StaysResolved'
  <2> SUFFICES ASSUME NEW m \in Monitor, NEW t \in Time, incidents'[<<m, t>>] # None,
                      store[<<m, t>>] # None, store[<<m, t>>].state = "RESOLVED"
               PROVE  incidents'[<<m, t>>].state = "RESOLVED"
      BY <1>1 DEF StaysResolved
  <2>1. ASSUME NEW a \in Group(m), alert[a].start = t, ReadDoc(a, incidents'[<<m, t>>])
        PROVE  incidents'[<<m, t>>].state = "RESOLVED"
    <3>1. PICK b \in Alert : /\ MonitorOf[b] = m /\ alert[b].start = t /\ alert[b].at # "none"
                             /\ b \notin current
          BY DEF MonitorInv, OneAlertEach, AlertDoc
    <3>2. a = b
          BY <1>4, <2>1, <3>1, SameStart
    <3>3. QED BY <1>4, <2>1, <3>1, <3>2 DEF ReadDoc
  <2>2. QED BY <1>3, <2>1
<1>7. RowsOfAlerts'
  <2> SUFFICES ASSUME NEW a \in Alert
               PROVE  /\ rows'[a] # None => rows'[a] = Ep(a) /\ alert[a].at # "none"
                      /\ signals[a] # None => signals[a] = Ep(a) /\ alert[a].at # "none"
      BY <1>1 DEF RowsOfAlerts, Ep
  <2>1. rows'[a] = RowOf(lost, RunsOf(lost), FoldedOf(lost), a)
        BY <1>2 DEF Source
  <2>2. a \in current \cup past => alert[a].at # "none"
        BY DEF Base, Snapshots
  <2>3. QED BY <1>1, <2>1, <2>2, AlertRow DEF MonitorInv, RowsOfAlerts
<1>8. Passed'
      BY <1>1 DEF MonitorInv, Passed, HistoryFloor, Closed, Ep
<1>9. Passing'
  <2> SUFFICES ASSUME NEW a \in Alert, Due(a)
               PROVE  rows'[a] # None /\ Closed(incidents, a)'
      BY <1>1 DEF Passing, Due, HistoryFloor, HighFloor
  <2>1. a \in past /\ MonitorOf[a] \in Monitor /\ a \in Group(MonitorOf[a])
        BY <1>1, InputsAssumption DEF MonitorInv, Passing, Group
  <2>2. alert[a].start \in Time /\ alert[a].at # "none"
        BY <1>4, <2>1 DEF Base, AlertsInOrder
  <2>3. rows'[a] = Ep(a)
    <3>1. rows'[a] = RowOf(lost, RunsOf(lost), FoldedOf(lost), a)
          BY <1>2 DEF Source
    <3>2. QED BY <1>1, <2>1, <3>1, AlertRow
  <2>4. Ep(a) # None
    <3>1. Ep(a) \in Episode
          BY <2>1, <2>2, StampOrder DEF Ep, Episode, Key
    <3>2. QED BY <3>1, InputsAssumption
  <2>5. PICK b \in Group(MonitorOf[a]) :
          alert[b].start = alert[a].start /\ ReadDoc(b, incidents'[Ep(a)])
        BY <1>3, <2>1, <2>2 DEF Ep
  <2>6. a = b
        BY <1>4, <2>1, <2>2, <2>5, SameStart
  <2>7. Closed(incidents, a)'
        BY <1>1, <2>1, <2>5, <2>6 DEF Closed, ReadDoc, Ep
  <2>8. QED BY <2>3, <2>4, <2>7
<1>10. LastIsLast'
       BY <1>1 DEF LastIsLast
<1>11. QED BY <1>5, <1>6, <1>7, <1>8, <1>9, <1>10 DEF MonitorInv

\* An alert keeps its place, its start and, once it has one, its end.
LEMMA AlertsMove ==
  ASSUME Base, [Next]_vars, NEW a \in Alert, alert[a].at # "none"
  PROVE  /\ alert'[a].at # "none" /\ alert'[a].start = alert[a].start
         /\ alert[a].at = "history" => alert'[a] = alert[a]
         /\ alert[a].end # Never => alert'[a].end = alert[a].end
<1>1. CASE alert' = alert
      BY <1>1
<1>2. ASSUME NEW b \in Alert, Start(b) \/ Complete(b) \/ Refresh(b)
      PROVE  /\ alert'[a].at # "none" /\ alert'[a].start = alert[a].start
             /\ alert[a].at = "history" => alert'[a] = alert[a]
             /\ alert[a].end # Never => alert'[a].end = alert[a].end
  <2>1. alert \in [Alert -> AlertT] /\ (alert[a].at = "current" => alert[a].end = Never)
        BY DEF Base, TypeOK, AlertT, AlertsInOrder
  <2>2. CASE a # b
        BY <1>2, <2>1, <2>2 DEF Start, Complete, Refresh
  <2>3. CASE a = b
        BY <1>2, <2>1, <2>3 DEF Start, Complete, Refresh, AlertT
  <2>4. QED BY <2>2, <2>3
<1>3. alert' = alert \/ \E b \in Alert : Start(b) \/ Complete(b) \/ Refresh(b)
      BY DEF Next, Environment, Cycle, Failure, Tick, Evaluate, ReadCurrent, ReadHistory,
         Project, WriteSignals, WriteIncidents, WriteHistoryMark, WriteAnomalyMark, Push,
         Abort, SomeSignals, SomeIncidents, env, vars
<1>4. QED BY <1>1, <1>2, <1>3

\* Where an alert that moves stands: it ends now or has ended, and starts after
\* every other of its monitor that has started.
LEMMA AlertsBegin ==
  ASSUME Base, Environment, NEW a \in Alert
  PROVE  /\ alert'[a].end # Never => alert'[a].end = alert[a].end \/ alert'[a].end = now
         /\ alert[a].at = "none" /\ alert'[a].at # "none" =>
              /\ alert'[a].start = now
              /\ \A b \in Alert : b # a /\ MonitorOf[b] = MonitorOf[a] /\ alert[b].at # "none" =>
                   alert[b].at = "history" /\ alert[b].end < now
<1>1. CASE alert' = alert
      BY <1>1
<1>2. ASSUME NEW c \in Alert, Start(c) \/ Complete(c) \/ Refresh(c), a # c
      PROVE  alert'[a] = alert[a]
      BY <1>2 DEF Start, Complete, Refresh, Base, TypeOK
<1>3. ASSUME Start(a) \/ Complete(a) \/ Refresh(a)
      PROVE  /\ alert'[a].end # Never => alert'[a].end = alert[a].end \/ alert'[a].end = now
             /\ alert[a].at = "none" /\ alert'[a].at # "none" =>
                  /\ alert'[a].start = now
                  /\ \A b \in Alert : b # a /\ MonitorOf[b] = MonitorOf[a] /\ alert[b].at # "none" =>
                       alert[b].at = "history" /\ alert[b].end < now
  <2>1. alert \in [Alert -> AlertT]
        BY DEF Base, TypeOK, AlertT
  <2>2. CASE Start(a)
        BY <2>1, <2>2 DEF Start
  <2>3. CASE Complete(a)
        BY <2>1, <2>3 DEF Complete, AlertT
  <2>4. CASE Refresh(a)
        BY <2>1, <2>4 DEF Refresh, AlertT
  <2>5. QED BY <1>3, <2>2, <2>3, <2>4
<1>4. alert' = alert \/ \E c \in Alert : Start(c) \/ Complete(c) \/ Refresh(c)
      BY DEF Environment, Tick, Evaluate
<1>5. QED BY <1>1, <1>2, <1>3, <1>4

\* An alert that ends behind the mark, or behind the next one, had ended before.
LEMMA EndedBefore ==
  ASSUME Base, Environment, NEW a \in Alert, NEW s \in {mark.history, high.history},
         alert'[a].end # Never, alert'[a].end < Lower(s, Overlap)
  PROVE  alert'[a].end = alert[a].end /\ alert[a].at # "none" /\ alert'[a].start = alert[a].start
<1>1. s \in Stamp /\ s <= now /\ now \in Stamp
      BY StampOrder DEF Base, TypeOK, Lanes, Snapshots
<1>2. Lower(s, Overlap) \in Stamp /\ Lower(s, Overlap) <= s
      BY <1>1, LowerFacts, BoundsAssumption
<1>3. alert'[a].end = alert[a].end
      BY <1>1, <1>2, StampOrder, AlertsBegin
<1>4. alert[a].at # "none"
      BY <1>3 DEF Base, AlertsInOrder
<1>5. QED BY <1>3, <1>4, AlertsMove DEF Next

LEMMA QuietDocs ==
  ASSUME Base, Base', MonitorInv, Environment \/ ReadCurrent \/ ReadHistory
  PROVE  OneAlertEach' /\ StaysResolved' /\ RowsOfAlerts' /\ Passed'
<1>1. /\ UNCHANGED <<store, signals, mark>>
      /\ pc \in {"idle", "history", "project"} /\ pc' \in {"idle", "history", "project"}
      /\ [Next]_vars
      BY DEF Environment, Tick, Start, Complete, Refresh, Evaluate, ReadCurrent, ReadHistory,
         opened, Quiet, Next, Cycle
<1>2. /\ \A m \in Monitor, t \in Time : incidents'[<<m, t>>] = None
      /\ \A a \in Alert : rows'[a] = None
  <2>1. rows' = NoRows /\ incidents' = NoEpisodes
        BY <1>1 DEF Base, Snapshots
  <2>2. \A m \in Monitor, t \in Time : <<m, t>> \in Episode
        BY StampOrder DEF Episode, Key
  <2>3. QED BY <2>1, <2>2 DEF NoRows, NoEpisodes, Source
<1>3. \A a \in current' : a \in current \/ alert[a].at = "current"
      BY DEF Environment, Tick, Start, Complete, Refresh, Evaluate, ReadCurrent, ReadHistory,
         cycle
<1>4. OneAlertEach'
  <2> SUFFICES ASSUME NEW m \in Monitor, NEW t \in Time, store[<<m, t>>] # None
               PROVE  AlertDoc(m, t, store[<<m, t>>])'
      BY <1>1, <1>2 DEF OneAlertEach
  <2>1. PICK a \in Alert :
          /\ MonitorOf[a] = m /\ alert[a].start = t /\ alert[a].at # "none"
          /\ store[<<m, t>>].members = {a}
          /\ \/ /\ store[<<m, t>>].state = "OPEN" /\ store[<<m, t>>].healthy = 0
                /\ store[<<m, t>>].lastHealthy = Never
             \/ /\ store[<<m, t>>].state = "RESOLVED" /\ store[<<m, t>>].healthy >= 1
                /\ alert[a].at = "history" /\ a \notin current
        BY DEF MonitorInv, OneAlertEach, AlertDoc
  <2>2. /\ alert'[a].at # "none" /\ alert'[a].start = t
        /\ alert[a].at = "history" => alert'[a].at = "history"
        BY <1>1, <2>1, AlertsMove
  <2>3. QED BY <1>1, <1>3, <2>1, <2>2 DEF AlertDoc
<1>5. StaysResolved'
      BY <1>2 DEF StaysResolved
<1>6. RowsOfAlerts'
  <2>1. \A a \in Alert : signals[a] # None =>
          signals[a] = Ep(a) /\ alert[a].at # "none"
        BY DEF MonitorInv, RowsOfAlerts
  <2>2. QED BY <1>1, <1>2, <2>1, AlertsMove DEF RowsOfAlerts, Ep
<1>7. Passed'
  <2> SUFFICES ASSUME NEW a \in Alert, alert'[a].end # Never, alert'[a].end < HistoryFloor
               PROVE  signals[a] # None /\ Closed(store, a)'
      BY <1>1 DEF Passed, HistoryFloor
  <2>1. alert'[a].end = alert[a].end /\ alert'[a].start = alert[a].start
    <3>1. CASE Environment
          BY <3>1, EndedBefore DEF HistoryFloor
    <3>2. CASE ReadCurrent \/ ReadHistory
          BY <3>2 DEF ReadCurrent, ReadHistory, env
    <3>3. QED BY <3>1, <3>2
  <2>2. signals[a] # None /\ Closed(store, a)
        BY <2>1 DEF MonitorInv, Passed
  <2>3. QED BY <1>1, <2>1, <2>2 DEF Closed, Ep
<1>8. QED BY <1>4, <1>5, <1>6, <1>7

LEMMA ReadHistoryMonitor ==
  ASSUME Base, Base', MonitorInv, OneClear, ReadHistory
  PROVE  LastIsLast' /\ Passing'
<1>1. /\ pc = "history" /\ pc' = "project" /\ past' = FoundAlerts
      /\ high'.history = MaxOf(Ends) /\ MaxOf(Ends) \in Stamp /\ MaxOf(Ends) <= now
      /\ HistoryFloor \in Stamp
      /\ UNCHANGED <<alert, mark, current, now>>
      BY ReadHistoryIs DEF Base, TypeOK, Lanes
<1>2. \A a \in Alert : alert[a].at = "history" =>
        alert[a].end \in Time /\ alert[a].end # Never
        /\ (HistoryFloor <= alert[a].end => a \in FoundAlerts)
  <2>1. \A a \in Alert : alert[a].at = "history" => alert[a].end \in Time /\ alert[a].end # Never
        BY StampOrder DEF Base, AlertsInOrder
  <2>2. \A a \in Alert : alert[a].at = "history" /\ HistoryFloor <= alert[a].end =>
          alert[a].end >= HistoryFloor
        BY <1>1, <2>1, StampOrder
  <2>3. QED BY <2>1, <2>2 DEF FoundAlerts
<1>3. LastIsLast'
  <2> SUFFICES ASSUME NEW a \in Alert \ past', NEW b \in current \cup past',
                      a # b, MonitorOf[a] = MonitorOf[b], alert[a].at # "none",
                      alert[a].end = Never \/ HistoryFloor <= alert[a].end
               PROVE  Before(b, a)
      BY <1>1 DEF LastIsLast, Before, HistoryFloor
  <2>1. alert[a].at # "history"
        BY <1>1, <1>2
  <2>2. b \in Alert /\ alert[b].at # "none"
        BY <1>1 DEF Base, TypeOK, Snapshots, FoundAlerts
  <2>3. QED BY <2>1, <2>2 DEF Base, AlertsInOrder, Before
<1>4. Passing'
  <2> SUFFICES ASSUME NEW a \in Alert, alert[a].end # Never, HistoryFloor <= alert[a].end,
                      alert[a].end < Lower(MaxOf(Ends), Overlap)
               PROVE  a \in past'
      BY <1>1 DEF Passing, Due, HistoryFloor, HighFloor
  <2>1. alert[a].at \in {"moving", "history"} /\ alert[a].end \in Time
        BY DEF Base, TypeOK, AlertsInOrder
  <2>2. ASSUME alert[a].at = "moving" PROVE FALSE
    <3>1. now - alert[a].end <= Lag /\ now \in Time
          BY <2>2 DEF Base, TypeOK, AlertsInOrder
    <3>2. Lag \in Nat /\ Overlap \in Nat /\ Lag <= Overlap
          BY BoundsAssumption DEF OneClear
    <3>3. Lower(MaxOf(Ends), Overlap) = Never \/ Lower(MaxOf(Ends), Overlap) = MaxOf(Ends) - Overlap
          BY <1>1, <3>2, LowerFacts
    <3>4. Lower(MaxOf(Ends), Overlap) # Never
          BY <2>1, BoundsAssumption DEF Time, Never
    <3>5. QED BY <1>1, <2>1, <3>1, <3>2, <3>3, <3>4, BoundsAssumption DEF Stamp, Time, Never
  <2>3. QED BY <1>1, <1>2, <2>1, <2>2
<1>5. QED BY <1>3, <1>4

LEMMA QuietMonitor ==
  ASSUME Base, Base', MonitorInv, OneClear, Environment \/ ReadCurrent \/ ReadHistory
  PROVE  MonitorInv'
<1>1. OneAlertEach' /\ StaysResolved' /\ RowsOfAlerts' /\ Passed'
      BY QuietDocs
<1>2. CASE ReadHistory
      BY <1>1, <1>2, ReadHistoryMonitor DEF MonitorInv
<1>3. CASE ReadCurrent
  <2>1. pc' = "history"
        BY <1>3 DEF ReadCurrent
  <2>2. LastIsLast' /\ Passing'
        BY <2>1 DEF LastIsLast, Passing
  <2>3. QED BY <1>1, <2>2 DEF MonitorInv
<1>4. CASE Environment
  <2>1. /\ UNCHANGED <<pc, mark, high, current, past>> /\ pc \in {"idle", "history", "project"}
        /\ [Next]_vars
        BY <1>4 DEF Environment, Tick, Start, Complete, Refresh, Evaluate, opened, cycle, Quiet, Next
  <2>2. Passing'
    <3> SUFFICES ASSUME NEW a \in Alert, pc = "project", alert'[a].end # Never,
                        HistoryFloor <= alert'[a].end, alert'[a].end < HighFloor
                 PROVE  a \in past
        BY <2>1 DEF Passing, Due, HistoryFloor, HighFloor
    <3>1. alert'[a].end = alert[a].end
          BY <1>4, EndedBefore DEF HighFloor
    <3>2. QED BY <3>1 DEF MonitorInv, Passing, Due
  <2>3. LastIsLast'
    <3> SUFFICES ASSUME pc = "project", NEW a \in Alert \ past, NEW b \in current \cup past,
                        a # b, MonitorOf[a] = MonitorOf[b], alert'[a].at # "none",
                        alert'[a].end = Never \/ HistoryFloor <= alert'[a].end
                 PROVE  Before(b, a)'
        BY <2>1 DEF LastIsLast, HistoryFloor
    <3>1. b \in Alert /\ alert[b].at # "none"
          BY DEF Base, TypeOK, Snapshots
    <3>2. CASE alert[a].at = "none"
      <4>1. alert'[a].start = now /\ alert[b].at = "history" /\ alert[b].end < now
            BY <1>4, <3>1, <3>2, AlertsBegin
      <4>2. alert'[b] = alert[b]
            BY <2>1, <3>1, <4>1, AlertsMove
      <4>3. QED BY <4>1, <4>2 DEF Before
    <3>3. CASE alert[a].at # "none"
      <4>1. alert[a].end = Never \/ HistoryFloor <= alert[a].end
            BY <2>1, <3>3, AlertsMove
      <4>2. Before(b, a)
            BY <3>3, <4>1 DEF MonitorInv, LastIsLast
      <4>3. alert'[b] = alert[b] /\ alert'[a].start = alert[a].start
            BY <2>1, <3>1, <3>3, <4>2, AlertsMove DEF Before
      <4>4. QED BY <4>2, <4>3 DEF Before
    <3>4. QED BY <3>2, <3>3
  <2>4. QED BY <1>1, <2>2, <2>3 DEF MonitorInv
<1>5. QED BY <1>2, <1>3, <1>4

\* A cycle writes its rows and its documents, all or some of them.
LEMMA WrittenDocs ==
  ASSUME Base, MonitorInv, NEW E \in SUBSET Touched, NEW m \in Monitor, NEW t \in Time,
         NEW doc, doc = IncidentsWith(E)[<<m, t>>]
  PROVE  /\ doc # None => AlertDoc(m, t, doc)
         /\ store[<<m, t>>] # None /\ store[<<m, t>>].state = "RESOLVED" =>
              doc # None /\ doc.state = "RESOLVED"
         /\ incidents[<<m, t>>] # None => (doc = incidents[<<m, t>>] \/ <<m, t>> \notin E)
<1>1. <<m, t>> \in Episode
      BY StampOrder DEF Episode, Key
<1>2. doc = IF <<m, t>> \in E THEN incidents[<<m, t>>] ELSE store[<<m, t>>]
      BY <1>1 DEF IncidentsWith
<1>3. <<m, t>> \in E => incidents[<<m, t>>] # None
      BY DEF Touched
<1>4. QED BY <1>2, <1>3 DEF MonitorInv, OneAlertEach, StaysResolved

LEMMA ClosedStays ==
  ASSUME Base, MonitorInv, NEW E \in SUBSET Touched, NEW a \in Alert, alert[a].at # "none",
         Closed(store, a)
  PROVE  Closed(IncidentsWith(E), a)
<1> DEFINE m == MonitorOf[a]
           t == alert[a].start
           doc == IncidentsWith(E)[<<m, t>>]
<1>1. m \in Monitor /\ t \in Time
      BY InputsAssumption DEF Base, AlertsInOrder
<1>2. /\ store[<<m, t>>] # None /\ store[<<m, t>>].state = "RESOLVED"
      BY DEF Closed, Ep
<1>3. doc # None /\ doc.state = "RESOLVED" /\ AlertDoc(m, t, doc)
      BY <1>1, <1>2, WrittenDocs
<1>4. PICK b \in Alert : MonitorOf[b] = m /\ alert[b].start = t /\ alert[b].at # "none"
                         /\ doc.members = {b}
      BY <1>3 DEF AlertDoc
<1>5. a = b
      BY <1>4, SameStart
<1>6. QED BY <1>3, <1>4, <1>5 DEF Closed, Ep

\* The steps of a cycle after its reads leave the alerts alone.
LEMMA WritesLeaveAlerts ==
  ASSUME Base, WriteSignals \/ WriteIncidents \/ WriteHistoryMark \/ WriteAnomalyMark
               \/ Failure \/ Push
  PROVE  /\ alert' = alert /\ [Next]_vars
         /\ current' = current \/ current' = {}
         /\ pc' \notin {"project", "signals"}
         /\ store' = store \/ \E E \in SUBSET Touched : store' = IncidentsWith(E)
         /\ signals' = signals \/ \E S \in SUBSET Rows : signals' = SignalsWith(S)
         /\ incidents' = incidents \/ incidents' = NoEpisodes
         /\ rows' = rows \/ rows' = NoRows
BY DEF WriteSignals, WriteIncidents, WriteHistoryMark, WriteAnomalyMark, Failure, Abort,
   SomeSignals, SomeIncidents, Push, EndCycle, env, opened, cycle, Next, Cycle

LEMMA WriteMonitor ==
  ASSUME Base, MonitorInv,
         WriteSignals \/ WriteIncidents \/ WriteHistoryMark \/ WriteAnomalyMark \/ Failure \/ Push
  PROVE  /\ LastIsLast' /\ OneAlertEach' /\ StaysResolved' /\ RowsOfAlerts'
         /\ \A a \in Alert : alert[a].at # "none" /\ Closed(store, a) => Closed(store, a)'
         /\ \A a \in Alert : signals[a] # None => signals'[a] # None
<1>1. /\ alert' = alert /\ pc' # "project"
      /\ current' = current \/ current' = {}
      /\ store' = store \/ \E E \in SUBSET Touched : store' = IncidentsWith(E)
      /\ signals' = signals \/ \E S \in SUBSET Rows : signals' = SignalsWith(S)
      /\ incidents' = incidents \/ incidents' = NoEpisodes
      /\ rows' = rows \/ rows' = NoRows
      BY WritesLeaveAlerts
<1>2. \A m, t, doc : AlertDoc(m, t, doc) => AlertDoc(m, t, doc)'
      BY <1>1 DEF AlertDoc
<1>3. \A m \in Monitor, t \in Time : <<m, t>> \in Episode
      BY StampOrder DEF Episode, Key
<1>4. ASSUME NEW m \in Monitor, NEW t \in Time
      PROVE  /\ store'[<<m, t>>] # None => AlertDoc(m, t, store'[<<m, t>>])
             /\ incidents'[<<m, t>>] # None =>
                  incidents'[<<m, t>>] = incidents[<<m, t>>] /\ incidents' = incidents
             /\ store'[<<m, t>>] = store[<<m, t>>] \/ store'[<<m, t>>] = incidents[<<m, t>>]
  <2>1. CASE store' = store
        BY <1>1, <1>3, <2>1 DEF MonitorInv, OneAlertEach, NoEpisodes
  <2>2. ASSUME NEW E \in SUBSET Touched, store' = IncidentsWith(E)
        PROVE  /\ store'[<<m, t>>] # None => AlertDoc(m, t, store'[<<m, t>>])
               /\ store'[<<m, t>>] = store[<<m, t>>] \/ store'[<<m, t>>] = incidents[<<m, t>>]
        BY <1>3, <2>2, WrittenDocs DEF IncidentsWith
  <2>3. incidents'[<<m, t>>] # None =>
          incidents'[<<m, t>>] = incidents[<<m, t>>] /\ incidents' = incidents
        BY <1>1, <1>3 DEF NoEpisodes
  <2>4. QED BY <1>1, <2>1, <2>2, <2>3
<1>5. OneAlertEach'
  <2> SUFFICES ASSUME NEW m \in Monitor, NEW t \in Time
               PROVE  /\ store'[<<m, t>>] # None => AlertDoc(m, t, store[<<m, t>>])'
                      /\ incidents'[<<m, t>>] # None => AlertDoc(m, t, incidents[<<m, t>>])'
      BY DEF OneAlertEach
  <2>1. incidents'[<<m, t>>] # None => AlertDoc(m, t, incidents'[<<m, t>>])
        BY <1>4 DEF MonitorInv, OneAlertEach
  <2>2. store'[<<m, t>>] # None => AlertDoc(m, t, store'[<<m, t>>])
        BY <1>4
  <2>3. QED BY <1>1, <2>1, <2>2 DEF AlertDoc
<1>6. StaysResolved'
      BY <1>4 DEF StaysResolved, MonitorInv
<1>7. RowsOfAlerts'
  <2> SUFFICES ASSUME NEW a \in Alert
               PROVE  /\ rows'[a] # None => rows'[a] = Ep(a) /\ alert[a].at # "none"
                      /\ signals'[a] # None => signals'[a] = Ep(a) /\ alert[a].at # "none"
      BY <1>1 DEF RowsOfAlerts, Ep
  <2>1. a \in Source
        BY DEF Source
  <2>2. rows'[a] = rows[a] \/ rows'[a] = None
        BY <1>1, <2>1 DEF NoRows
  <2>3. signals'[a] = signals[a] \/ signals'[a] = rows[a]
        BY <1>1, <2>1 DEF SignalsWith
  <2>4. QED BY <2>2, <2>3 DEF MonitorInv, RowsOfAlerts
<1>8. LastIsLast'
      BY <1>1 DEF LastIsLast
<1>9. \A a \in Alert : alert[a].at # "none" /\ Closed(store, a) => Closed(store, a)'
  <2> SUFFICES ASSUME NEW a \in Alert, alert[a].at # "none", Closed(store, a)
               PROVE  Closed(store', a)
      BY <1>1 DEF Closed, Ep
  <2>1. QED BY <1>1, ClosedStays
<1>10. \A a \in Alert : signals[a] # None => signals'[a] # None
  <2> TAKE a \in Alert
  <2>1. a \in Source
        BY DEF Source
  <2>2. signals'[a] = signals[a] \/ signals'[a] # None
        BY <1>1, <2>1 DEF SignalsWith, Rows
  <2>3. QED BY <2>2
<1>11. QED BY <1>5, <1>6, <1>7, <1>8, <1>9, <1>10

LEMMA WriteMarks ==
  ASSUME Base, MonitorInv,
         WriteSignals \/ WriteIncidents \/ WriteHistoryMark \/ WriteAnomalyMark \/ Failure \/ Push
  PROVE  Passed' /\ Passing'
<1>1. \A a \in Alert : alert[a].end # Never => alert[a].at # "none" /\ alert[a].end \in Stamp
      BY DEF Base, TypeOK, AlertsInOrder
<1>2. /\ \A a \in Alert : alert[a].at # "none" /\ Closed(store, a) => Closed(store, a)'
      /\ \A a \in Alert : signals[a] # None => signals'[a] # None
      /\ alert' = alert
      BY WriteMonitor, WritesLeaveAlerts
<1>3. ASSUME mark'.history = mark.history PROVE Passed'
  <2>1. HistoryFloor' = HistoryFloor
        BY <1>3 DEF HistoryFloor
  <2>2. QED BY <1>1, <1>2, <2>1 DEF MonitorInv, Passed
<1>4. ASSUME pc' \in {"anomalyMark", "push", "idle"} PROVE Passing'
      BY <1>4 DEF Passing
<1>5. CASE WriteSignals
  <2>1. /\ pc = "signals" /\ pc' = "incidents" /\ signals' = SignalsWith(Rows)
        /\ UNCHANGED <<mark, high, incidents, store>>
        BY <1>5 DEF WriteSignals, cycle
  <2>2. ASSUME NEW a \in Alert, Due(a)' PROVE signals'[a] # None /\ Closed(incidents, a)'
    <3>1. Due(a)
          BY <1>2, <2>1, <2>2 DEF Due, HistoryFloor, HighFloor
    <3>2. rows[a] # None /\ Closed(incidents, a)
          BY <2>1, <3>1 DEF MonitorInv, Passing
    <3>3. a \in Rows
          BY <3>2 DEF Rows, Source
    <3>4. signals'[a] = rows[a]
          BY <2>1, <3>3 DEF SignalsWith, Source
    <3>5. QED BY <1>2, <2>1, <3>2, <3>4 DEF Closed, Ep
  <2>3. Passing'
        BY <2>1, <2>2 DEF Passing
  <2>4. QED BY <1>3, <2>1, <2>3
<1>6. CASE WriteIncidents
  <2>1. /\ pc = "incidents" /\ pc' = "historyMark" /\ store' = IncidentsWith(Touched)
        /\ UNCHANGED <<mark, high, signals>>
        BY <1>6 DEF WriteIncidents, cycle
  <2>2. ASSUME NEW a \in Alert, Due(a)' PROVE signals'[a] # None /\ Closed(store, a)'
    <3>1. Due(a) /\ alert[a].at # "none"
          BY <1>1, <1>2, <2>1, <2>2 DEF Due, HistoryFloor, HighFloor
    <3>2. signals[a] # None /\ Closed(incidents, a)
          BY <2>1, <3>1 DEF MonitorInv, Passing
    <3>3. Ep(a) \in Episode
      <4>1. MonitorOf[a] \in Key /\ alert[a].start \in Stamp
            BY <3>1, InputsAssumption, StampOrder DEF Base, AlertsInOrder, Key
      <4>2. QED BY <4>1 DEF Ep, Episode
    <3>4. store'[Ep(a)] = incidents[Ep(a)]
          BY <2>1, <3>2, <3>3 DEF IncidentsWith, Touched, Closed
    <3>5. QED BY <1>2, <2>1, <3>2, <3>4 DEF Closed, Ep
  <2>3. Passing'
        BY <2>1, <2>2 DEF Passing
  <2>4. QED BY <1>3, <2>1, <2>3
<1>7. CASE WriteHistoryMark
  <2>1. /\ pc = "historyMark" /\ pc' = "anomalyMark" /\ mark'.history = high.history
        /\ UNCHANGED <<store, signals>>
        BY <1>7 DEF WriteHistoryMark, Base, TypeOK, Lanes
  <2>2. HistoryFloor' = HighFloor
        BY <2>1 DEF HistoryFloor, HighFloor
  <2>3. HistoryFloor \in Stamp
        BY LowerFacts, BoundsAssumption DEF HistoryFloor, Base, TypeOK, Lanes
  <2>4. ASSUME NEW a \in Alert, alert[a].end # Never, alert[a].end < HighFloor
        PROVE  signals'[a] # None /\ Closed(store, a)'
    <3>1. signals[a] # None /\ Closed(store, a)
      <4>1. CASE alert[a].end < HistoryFloor
            BY <2>4, <4>1 DEF MonitorInv, Passed
      <4>2. CASE ~ (alert[a].end < HistoryFloor)
        <5>1. HistoryFloor <= alert[a].end
              BY <1>1, <2>3, <2>4, <4>2, StampOrder
        <5>2. Due(a)
              BY <2>4, <5>1 DEF Due
        <5>3. QED BY <2>1, <5>2 DEF MonitorInv, Passing
      <4>3. QED BY <4>1, <4>2
    <3>2. QED BY <1>1, <1>2, <2>4, <3>1
  <2>5. Passed'
        BY <1>2, <2>2, <2>4 DEF Passed
  <2>6. QED BY <1>4, <2>1, <2>5
<1>8. CASE WriteAnomalyMark
  <2>1. pc' = "push" /\ mark'.history = mark.history
        BY <1>8 DEF WriteAnomalyMark, Base, TypeOK, Lanes
  <2>2. QED BY <1>3, <1>4, <2>1
<1>9. CASE Failure \/ Push
  <2>1. pc' = "idle" /\ mark' = mark
        BY <1>9 DEF Failure, Abort, SomeSignals, SomeIncidents, Push, EndCycle, opened
  <2>2. QED BY <1>3, <1>4, <2>1
<1>10. QED BY <1>5, <1>6, <1>7, <1>8, <1>9

LEMMA StepMonitor ==
  ASSUME Base, Base', MonitorInv, OneClear, [Next]_vars
  PROVE  MonitorInv'
<1>1. CASE Environment \/ ReadCurrent \/ ReadHistory
      BY <1>1, QuietMonitor
<1>2. CASE Project
      BY <1>2, ProjectMonitor
<1>3. CASE WriteSignals \/ WriteIncidents \/ WriteHistoryMark \/ WriteAnomalyMark
             \/ Failure \/ Push
      BY <1>3, WriteMonitor, WriteMarks DEF MonitorInv
<1>4. CASE UNCHANGED vars
  <2>1. UNCHANGED <<alert, store, signals, mark, pc, current, past, rows, incidents, high>>
        BY <1>4 DEF vars, env, opened, cycle, history
  <2>2. LastIsLast' /\ OneAlertEach'
        BY <2>1 DEF MonitorInv, LastIsLast, OneAlertEach, AlertDoc, Before, HistoryFloor
  <2>3. StaysResolved' /\ RowsOfAlerts'
        BY <2>1 DEF MonitorInv, StaysResolved, RowsOfAlerts, Ep
  <2>4. Passed' /\ Passing'
        BY <2>1 DEF MonitorInv, Passed, Passing, Closed, Due, Ep, HistoryFloor, HighFloor
  <2>5. QED BY <2>2, <2>3, <2>4 DEF MonitorInv
<1>5. QED BY <1>1, <1>2, <1>3, <1>4 DEF Next, Cycle

LEMMA InitMonitor ==
  ASSUME Init
  PROVE  MonitorInv
<1>1. \A m \in Monitor, t \in Time : <<m, t>> \in Episode
      BY StampOrder DEF Episode, Key
<1>2. \A m \in Monitor, t \in Time : store[<<m, t>>] = None /\ incidents[<<m, t>>] = None
      BY <1>1 DEF Init, NoEpisodes
<1>3. \A a \in Alert : rows[a] = None /\ signals[a] = None /\ alert[a].end = Never
      BY DEF Init, NoRows, Source
<1>4. pc = "idle"
      BY DEF Init
<1>5. QED BY <1>2, <1>3, <1>4 DEF MonitorInv, LastIsLast, OneAlertEach, StaysResolved,
      RowsOfAlerts, Passed, Passing

\* The history lane loses no alert: its watermark passes one only when its signal
\* names an episode that is resolved and has it as a member.
THEOREM AlertsStayCovered ==
  ASSUME OneClear
  PROVE  Spec => []AlertsAreCovered
<1>1. Init => Base /\ MonitorInv
      BY InitBase, InitMonitor
<1>2. Base /\ MonitorInv /\ [Next]_vars => (Base /\ MonitorInv)'
      BY OneClear, StepBase, StepMonitor
<1>3. Base /\ MonitorInv => AlertsAreCovered
  <2> SUFFICES ASSUME Base, MonitorInv, NEW a \in Alert, alert[a].end # Never,
                      alert[a].end < Lower(mark.history, Overlap)
               PROVE  \E t \in Starts(MonitorOf[a]) :
                        /\ signals[a] = <<MonitorOf[a], t>>
                        /\ a \in store[<<MonitorOf[a], t>>].members
                        /\ store[<<MonitorOf[a], t>>].state = "RESOLVED"
      BY DEF AlertsAreCovered
  <2>1. signals[a] = Ep(a) /\ Closed(store, a)
        BY DEF MonitorInv, Passed, RowsOfAlerts, HistoryFloor
  <2>2. alert[a].start \in Starts(MonitorOf[a])
        BY <2>1 DEF Closed, Ep, Starts, Base, TypeOK, AlertsInOrder
  <2>3. QED BY <2>1, <2>2 DEF Closed, Ep
<1>4. QED BY <1>1, <1>2, <1>3, PTL DEF Spec

\* No episode is resolved without its evidence: a detector's counts no healthy
\* result twice, however often it is read; a monitor's has had its alert cleared.
THEOREM RecoveriesStayEvidenced ==
  ASSUME OneClear
  PROVE  Spec => []RecoveryIsEvidenced
<1>1. Init => Base /\ EvidenceInv /\ MonitorInv
      BY InitBase, InitEvidence, InitMonitor
<1>2. Base /\ EvidenceInv /\ MonitorInv /\ [Next]_vars => (Base /\ EvidenceInv /\ MonitorInv)'
      BY OneClear, StepBase, StepEvidence, StepMonitor
<1>3. ASSUME Base, EvidenceInv, MonitorInv PROVE RecoveryIsEvidenced
  <2>1. \A d \in Detector : \A t \in Starts(d) :
          LET doc  == store[<<d, t>>]
              seen == {r \in results : /\ r.key = d /\ r.grade = "healthy"
                                       /\ r.window > doc.lastBreach
                                       /\ r.window <= doc.lastHealthy}
          IN /\ doc.healthy <= Cardinality(seen)
             /\ doc.state = "RESOLVED" => doc.healthy >= DetectorRequired
        BY <1>3 DEF EvidenceInv, Evidenced, Evidence
  <2>2. ASSUME NEW m \in Monitor, NEW t \in Starts(m), store[<<m, t>>].state = "RESOLVED"
        PROVE  /\ \A a \in store[<<m, t>>].members : alert[a].end # Never
               /\ Cardinality(store[<<m, t>>].members) >= MonitorRequired
    <3>1. AlertDoc(m, t, store[<<m, t>>])
          BY <1>3, <2>2 DEF Starts, MonitorInv, OneAlertEach
    <3>2. PICK a \in Alert : store[<<m, t>>].members = {a} /\ alert[a].at = "history"
          BY <2>2, <3>1 DEF AlertDoc
    <3>3. alert[a].end # Never
          BY <1>3, <3>2, StampOrder DEF Base, AlertsInOrder
    <3>4. Cardinality({a}) = 1 /\ MonitorRequired = 1
          BY FS_Singleton DEF OneClear
    <3>5. QED BY <3>2, <3>3, <3>4
  <2>3. QED BY <2>1, <2>2 DEF RecoveryIsEvidenced
<1>4. QED BY <1>1, <1>2, <1>3, PTL DEF Spec

-----------------------------------------------------------------------------
(***************************************************************************)
(* What Alertmanager is told of.  A cycle that pushes leaves one open      *)
(* episode of a key at most, and it is the last one it sent.               *)
(***************************************************************************)
Sent(k, t)  == incidents[<<k, t>>] # None
After(k, t) == IF Sent(k, t) THEN incidents[<<k, t>>] ELSE store[<<k, t>>]
LastOpen(k) ==
  \A t \in Time : IsOpen(After(k, t)) =>
    Sent(k, t) /\ \A u \in Time : Sent(k, u) => u <= t
Written(k) == \A t \in Time : Sent(k, t) => store[<<k, t>>] = incidents[<<k, t>>]

PushInv(k) ==
  /\ pc \notin {"idle", "history", "project"} => LastOpen(k)
  /\ pc \in {"historyMark", "anomalyMark", "push"} => Written(k)
  /\ told => pc = "idle" /\ Pushed(k)

LEMMA PushTells ==
  ASSUME Base, NEW k \in Key, PushInv(k), Push
  PROVE  Pushed(k)'
<1>1. /\ pc = "push" /\ store' = store
      /\ am' = [j \in Key |->
                  LET sent == {t \in Time : <<j, t>> \in Touched}
                  IN IF sent = {} THEN [am[j] EXCEPT !.renewed = FALSE]
                     ELSE [start |-> MaxOf(sent), renewed |-> TRUE,
                           firing |-> IsOpen(incidents[<<j, MaxOf(sent)>>])]]
      BY DEF Push
<1>2. LastOpen(k) /\ Written(k)
      BY <1>1 DEF PushInv
<1> SUFFICES ASSUME NEW t \in Time, store[<<k, t>>] # None, IsOpen(store[<<k, t>>])
             PROVE  am'[k] = [start |-> t, firing |-> TRUE, renewed |-> TRUE]
    BY <1>1 DEF Pushed, Starts
<1>3. IsOpen(After(k, t))
      BY <1>2 DEF After, Written
<1>4. Sent(k, t) /\ \A u \in Time : Sent(k, u) => u <= t
      BY <1>2, <1>3 DEF LastOpen
<1>5. \A u \in Time : <<k, u>> \in Episode
      BY StampOrder DEF Episode
<1> DEFINE sent == {u \in Time : <<k, u>> \in Touched}
<1>6. t \in sent /\ \A u \in sent : u <= t
      BY <1>4, <1>5 DEF Touched, Sent
<1>7. sent \subseteq Stamp /\ sent # {}
      BY <1>6, StampOrder
<1>8. MaxOf(sent) = t
  <2>1. MaxOf(sent) \in sent /\ \A x \in sent : x <= MaxOf(sent)
        BY <1>7, MaxStamp
  <2>2. t <= MaxOf(sent) /\ MaxOf(sent) <= t /\ t \in Stamp /\ MaxOf(sent) \in Stamp
        BY <1>6, <1>7, <2>1
  <2>3. QED BY <2>2, StampOrder
<1>9. IsOpen(incidents[<<k, t>>])
      BY <1>3, <1>4 DEF After
<1> HIDE DEF sent
<1>10. am'[k] = [start |-> MaxOf(sent), renewed |-> TRUE,
                 firing |-> IsOpen(incidents[<<k, MaxOf(sent)>>])]
       BY <1>1, <1>6 DEF sent
<1>11. IsOpen(incidents[<<k, t>>]) = TRUE
       BY <1>9 DEF IsOpen
<1>12. QED BY <1>8, <1>10, <1>11

\* A step keeps it, when what the cycle is about to write does.
LEMMA StepPush ==
  ASSUME Base, NEW k \in Key, PushInv(k), [Next]_vars, Project => LastOpen(k)'
  PROVE  PushInv(k)'
<1>1. CASE Environment
  <2>1. /\ UNCHANGED <<store, am, pc, told>> /\ pc \in {"idle", "history", "project"}
        BY <1>1 DEF Environment, Tick, Start, Complete, Refresh, Evaluate, opened, history, Quiet
  <2>2. QED BY <2>1 DEF PushInv, Pushed, Starts
<1>2. CASE ReadCurrent \/ ReadHistory
  <2>1. pc' \in {"history", "project"} /\ told' = FALSE
    <3>1. CASE ReadCurrent
          BY <3>1 DEF ReadCurrent
    <3>2. CASE ReadHistory
      <4>1. pc = "history" /\ pc' = "project" /\ told' = told
            BY <3>2, ReadHistoryIs
      <4>2. QED BY <4>1 DEF PushInv, Base, TypeOK
    <3>3. QED BY <1>2, <3>1, <3>2
  <2>2. QED BY <2>1 DEF PushInv
<1>3. CASE Project
  <2>1. pc = "project" /\ pc' = "signals" /\ told' = told
        BY <1>3, ProjectIs
  <2>2. ~ told
        BY <2>1 DEF PushInv
  <2>3. QED BY <1>3, <2>1, <2>2 DEF PushInv
<1>4. CASE WriteSignals \/ WriteHistoryMark \/ WriteAnomalyMark
  <2>1. /\ UNCHANGED <<store, incidents, told>>
        /\ pc \notin {"idle", "history", "project"} /\ pc' \notin {"idle", "history", "project"}
        /\ pc' \in {"historyMark", "anomalyMark", "push"} =>
             pc \in {"historyMark", "anomalyMark", "push"}
        BY <1>4 DEF WriteSignals, WriteHistoryMark, WriteAnomalyMark, cycle, history
  <2>2. QED BY <2>1 DEF PushInv, LastOpen, Written, After, Sent
<1>5. CASE WriteIncidents
  <2>1. /\ pc = "incidents" /\ pc' = "historyMark" /\ UNCHANGED <<incidents, told>>
        /\ store' = IncidentsWith(Touched)
        BY <1>5 DEF WriteIncidents, cycle, history
  <2>2. \A t \in Time : <<k, t>> \in Episode
        BY StampOrder DEF Episode
  <2>3. \A t \in Time : store'[<<k, t>>] = After(k, t)
        BY <2>1, <2>2 DEF IncidentsWith, Touched, After, Sent
  <2>4. \A t \in Time : After(k, t)' = After(k, t) /\ Sent(k, t)' = Sent(k, t)
        BY <2>1, <2>3 DEF After, Sent
  <2>5. LastOpen(k)'
        BY <2>1, <2>4 DEF PushInv, LastOpen
  <2>6. Written(k)'
        BY <2>1, <2>3 DEF Written, After, Sent
  <2>7. QED BY <2>1, <2>5, <2>6 DEF PushInv
<1>6. CASE Failure
  <2>1. pc' = "idle" /\ told' = told /\ pc # "idle"
        BY <1>6 DEF Failure, Abort, SomeSignals, SomeIncidents, EndCycle
  <2>2. QED BY <2>1 DEF PushInv
<1>7. CASE Push
  <2>1. pc' = "idle"
        BY <1>7 DEF Push, EndCycle
  <2>2. QED BY <1>7, <2>1, PushTells DEF PushInv
<1>8. CASE UNCHANGED vars
  <2>1. UNCHANGED <<store, am, pc, incidents, told>>
        BY <1>8 DEF vars, opened, cycle, history
  <2>2. QED BY <2>1 DEF PushInv, LastOpen, Written, After, Sent, Pushed, Starts
<1>9. QED BY <1>1, <1>2, <1>3, <1>4, <1>5, <1>6, <1>7, <1>8 DEF Next, Cycle

\* No episode of a monitor is later than that of an alert which has not cleared, or
\* which the cycle has not read the end of.
LastDocument ==
  pc = "project" =>
    \A a \in Alert \ past, t \in Time :
      /\ alert[a].at # "none" /\ ~ Closed(store, a)
      /\ store[<<MonitorOf[a], t>>] # None
      => t <= alert[a].start

LEMMA BeforeStarts ==
  ASSUME Base, NEW a \in Alert, NEW b \in Alert, Before(b, a),
         alert[a].at # "none", alert[b].at # "none"
  PROVE  alert[b].start <= alert[a].start
<1>1. alert[b].end \in Time /\ alert[b].start \in Time /\ alert[a].start \in Time
      /\ alert[b].start < alert[b].end /\ alert[b].end < alert[a].start
      BY DEF Base, AlertsInOrder, Before
<1>2. QED BY <1>1, BoundsAssumption DEF Time

LEMMA ReadHistoryLast ==
  ASSUME Base, MonitorInv, ReadHistory
  PROVE  LastDocument'
<1>1. /\ past' = FoundAlerts /\ UNCHANGED <<alert, store, mark>> /\ HistoryFloor \in Stamp
      BY ReadHistoryIs
<1> SUFFICES ASSUME NEW a \in Alert, a \notin FoundAlerts, NEW t \in Time,
                    alert[a].at # "none", ~ Closed(store, a),
                    store[<<MonitorOf[a], t>>] # None
             PROVE  t <= alert[a].start
    BY <1>1 DEF LastDocument, Closed, Ep
<1>2. MonitorOf[a] \in Monitor /\ alert[a].start \in Time
      BY InputsAssumption DEF Base, AlertsInOrder
<1>3. PICK b \in Alert : MonitorOf[b] = MonitorOf[a] /\ alert[b].start = t /\ alert[b].at # "none"
      BY <1>2 DEF MonitorInv, OneAlertEach, AlertDoc
<1>4. CASE a = b
      BY <1>2, <1>3, <1>4, StampOrder
<1>5. CASE a # b
  <2>1. Before(a, b) \/ Before(b, a)
        BY <1>3, <1>5 DEF Base, AlertsInOrder
  <2>2. ~ Before(a, b)
    <3> SUFFICES ASSUME alert[a].at = "history" PROVE FALSE
        BY DEF Before
    <3>1. alert[a].end \in Time /\ alert[a].end \in Stamp /\ alert[a].end # Never
          BY StampOrder DEF Base, AlertsInOrder
    <3>2. alert[a].end < HistoryFloor
          BY <1>1, <3>1, StampOrder DEF FoundAlerts
    <3>3. QED BY <3>1, <3>2 DEF MonitorInv, Passed
  <2>3. QED BY <1>3, <2>1, <2>2, BeforeStarts
<1>6. QED BY <1>4, <1>5

LEMMA QuietLast ==
  ASSUME Base, MonitorInv, LastDocument, Environment
  PROVE  LastDocument'
<1>1. UNCHANGED <<store, pc, past>> /\ [Next]_vars
      BY DEF Environment, Tick, Start, Complete, Refresh, Evaluate, opened, cycle, Next
<1> SUFFICES ASSUME pc = "project", NEW a \in Alert, a \notin past, NEW t \in Time,
                    alert'[a].at # "none", ~ Closed(store, a)',
                    store[<<MonitorOf[a], t>>] # None
             PROVE  t <= alert'[a].start
    BY <1>1 DEF LastDocument
<1>2. CASE alert[a].at # "none"
  <2>1. alert'[a].start = alert[a].start
        BY <1>1, <1>2, AlertsMove
  <2>2. ~ Closed(store, a)
        BY <1>1, <2>1 DEF Closed, Ep
  <2>3. QED BY <1>2, <2>1, <2>2 DEF LastDocument
<1>3. CASE alert[a].at = "none"
  <2>1. alert'[a].start = now
        BY <1>3, AlertsBegin
  <2>2. MonitorOf[a] \in Monitor
        BY InputsAssumption
  <2>3. PICK b \in Alert : alert[b].start = t /\ alert[b].at # "none"
        BY <2>2 DEF MonitorInv, OneAlertEach, AlertDoc
  <2>4. QED BY <2>1, <2>3 DEF Base, AlertsInOrder
<1>4. QED BY <1>2, <1>3

LEMMA StepLast ==
  ASSUME Base, MonitorInv, LastDocument, [Next]_vars
  PROVE  LastDocument'
<1>1. CASE Environment
      BY <1>1, QuietLast
<1>2. CASE ReadHistory
      BY <1>2, ReadHistoryLast
<1>3. CASE UNCHANGED vars
  <2>1. UNCHANGED <<store, alert, pc, past>>
        BY <1>3 DEF vars, env, opened, cycle
  <2>2. QED BY <2>1 DEF LastDocument, Closed, Ep
<1>4. CASE ~ Environment /\ ~ ReadHistory /\ Next
  <2>1. pc' # "project"
        BY <1>4, ProjectIs DEF Next, Cycle, Failure, ReadCurrent, WriteSignals,
           WriteIncidents, WriteHistoryMark, WriteAnomalyMark, Push, Abort, SomeSignals,
           SomeIncidents, EndCycle
  <2>2. QED BY <2>1 DEF LastDocument
<1>5. QED BY <1>1, <1>2, <1>3, <1>4

\* The last of a monitor: its open episode is that of an alert the cycle read in the
\* current index, or one it carries on, and is the last it sends.
LEMMA ProjectMonitorLast ==
  ASSUME Base, MonitorInv, LastDocument, OneClear, "timelines" \notin Faults, Project,
         NEW m \in Monitor
  PROVE  LastOpen(m)'
<1>1. pc = "project" /\ store' = store /\ m \in Key /\ m \notin Detector /\ TypeOK
      BY ProjectIs, InputsAssumption DEF Key, Base
<1>2. PICK lost \in SUBSET Faults :
        incidents' = [e \in Episode |-> IncidentOf(lost, RunsOf(lost), FoldedOf(lost), e)]
      BY ProjectIs
<1>3. \A u \in Time : incidents'[<<m, u>>] =
                        IncidentOf(lost, RunsOf(lost), FoldedOf(lost), <<m, u>>)
      BY <1>1, <1>2, StampOrder DEF Episode
<1>4. \A u \in Time :
        \/ \E b \in Group(m) : alert[b].start = u /\ ReadDoc(b, incidents'[<<m, u>>])
        \/ /\ \A b \in Group(m) : alert[b].start # u
           /\ incidents'[<<m, u>>] # None =>
                incidents'[<<m, u>>] = store[<<m, u>>] /\ IsOpen(incidents'[<<m, u>>])
      BY <1>1, <1>3, MonitorIncident
<1>5. /\ InTurn(m)
      /\ \A b \in Group(m) : b \in Alert /\ MonitorOf[b] = m /\ alert[b].at # "none"
                             /\ b \in current \cup past
      BY <1>1, RowsInTurn DEF Group, Base, TypeOK, Snapshots
\* Of an alert the cycle has not read the end of, no other one of the monitor is later.
<1>6. ASSUME NEW a \in Alert, a \notin past, MonitorOf[a] = m, alert[a].at # "none",
             ~ Closed(store, a), NEW u \in Time, incidents'[<<m, u>>] # None
      PROVE  u <= alert[a].start
  <2>1. CASE incidents'[<<m, u>>] = store[<<m, u>>]
        BY <1>1, <1>6, <2>1 DEF LastDocument
  <2>2. ASSUME NEW b \in Group(m), alert[b].start = u PROVE u <= alert[a].start
    <3>1. CASE a = b
          BY <2>2, <3>1, StampOrder DEF Base, AlertsInOrder
    <3>2. CASE a # b
      <4>1. alert[a].end = Never \/ HistoryFloor <= alert[a].end
        <5>1. alert[a].end # Never => ~ (alert[a].end < HistoryFloor)
              BY <1>6 DEF MonitorInv, Passed
        <5>2. alert[a].end \in Stamp /\ HistoryFloor \in Stamp
          <6>1. mark.history \in Stamp /\ alert[a].end \in Stamp
                BY DEF Base, TypeOK, Lanes
          <6>2. QED BY <6>1, LowerFacts, BoundsAssumption DEF HistoryFloor
        <5>3. QED BY <5>1, <5>2, StampOrder
      <4>2. Before(b, a)
            BY <1>1, <1>5, <1>6, <3>2, <4>1 DEF MonitorInv, LastIsLast
      <4>3. QED BY <1>5, <1>6, <2>2, <4>2, BeforeStarts
    <3>3. QED BY <3>1, <3>2
  <2>3. QED BY <1>4, <1>6, <2>1, <2>2
<1> SUFFICES ASSUME NEW t \in Time, IsOpen(After(m, t)')
             PROVE  incidents'[<<m, t>>] # None
                    /\ \A u \in Time : incidents'[<<m, u>>] # None => u <= t
    BY DEF LastOpen, Sent
<1>7. CASE \E b \in Group(m) : alert[b].start = t /\ ReadDoc(b, incidents'[<<m, t>>])
  <2>1. PICK a \in Group(m) : alert[a].start = t /\ ReadDoc(a, incidents'[<<m, t>>])
        BY <1>7
  <2>2. incidents'[<<m, t>>] # None /\ After(m, t)' = incidents'[<<m, t>>]
        BY <2>1 DEF After, Sent, ReadDoc
  <2>3. a \notin past /\ a \in current
        BY <1>5, <2>1, <2>2 DEF ReadDoc, IsOpen, Terminal
  <2>4. ~ Closed(store, a)
    <3> SUFFICES ASSUME Closed(store, a) PROVE FALSE
        OBVIOUS
    <3>1. PICK b \in Alert : /\ MonitorOf[b] = m /\ alert[b].start = t /\ alert[b].at # "none"
                             /\ b \notin current
          BY <1>5, <2>1 DEF Closed, Ep, MonitorInv, OneAlertEach, AlertDoc
    <3>2. a = b
          BY <1>5, <2>1, <3>1, SameStart
    <3>3. QED BY <2>3, <3>1, <3>2
  <2>5. QED BY <1>5, <1>6, <2>1, <2>2, <2>3, <2>4
<1>8. CASE /\ \A b \in Group(m) : alert[b].start # t
           /\ incidents'[<<m, t>>] # None =>
                incidents'[<<m, t>>] = store[<<m, t>>] /\ IsOpen(incidents'[<<m, t>>])
  <2>1. store[<<m, t>>] # None /\ IsOpen(store[<<m, t>>]) /\ t \in Starts(m)
        BY <1>1, <1>8 DEF After, Sent, IsOpen, Starts
  <2>2. PICK a \in Alert : /\ MonitorOf[a] = m /\ alert[a].start = t /\ alert[a].at # "none"
                           /\ store[<<m, t>>].members = {a}
        BY <2>1 DEF MonitorInv, OneAlertEach, AlertDoc
  <2>3. ~ Closed(store, a) /\ a \notin past
        BY <1>8, <2>1, <2>2 DEF Closed, Ep, IsOpen, Terminal, Group
  <2>4. \A u \in Starts(m) : u <= t
        BY <1>1, <2>2, <2>3 DEF LastDocument, Starts
  <2>5. Latest(m) = t
    <3>1. Latest(m) \in Starts(m) /\ \A u \in Starts(m) : u <= Latest(m)
          BY <1>1, <2>1, Stored
    <3>2. Latest(m) <= t /\ t <= Latest(m) /\ Latest(m) \in Stamp /\ t \in Stamp
          BY <2>1, <2>4, <3>1, StampOrder DEF Starts
    <3>3. QED BY <3>2, StampOrder
  <2>6. Prior(lost, m) = t
    <3>1. Timeline(lost, m) = Starts(m)
          BY DEF Timeline
    <3>2. QED BY <2>1, <2>5, <3>1 DEF Prior
  <2>7. incidents'[<<m, t>>] # None
    <3> SUFFICES ASSUME Owned(lost, m, t) = {} PROVE incidents'[<<m, t>>] # None
      <4>1. Owned(lost, m, t) # {} => \E b \in Group(m) : alert[b].start = t
            BY <1>1, OwnedAlone
      <4>2. QED BY <1>8, <4>1
    <3>1. incidents'[<<m, t>>] = store[<<m, t>>]
          BY <1>1, <1>3, <2>6, IncidentIs
    <3>2. QED BY <2>1, <3>1
  <2>8. QED BY <1>6, <2>2, <2>3, <2>7
<1>9. QED BY <1>4, <1>7, <1>8

\* After a cycle that pushed, Alertmanager fires the open episode of every monitor,
\* renewed; a monitor has no other one open.
THEOREM OpenAlertsStayPushed ==
  ASSUME OneClear, "timelines" \notin Faults
  PROVE  Spec => [](told => \A m \in Monitor : Pushed(m))
<1> DEFINE Pushes == \A m \in Monitor : PushInv(m)
<1>1. Init => Base /\ MonitorInv /\ LastDocument /\ Pushes
  <2>1. Init => pc = "idle" /\ ~ told
        BY DEF Init
  <2>2. QED BY <2>1, InitBase, InitMonitor DEF LastDocument, PushInv
<1>2. Base /\ MonitorInv /\ LastDocument /\ Pushes /\ [Next]_vars
        => (Base /\ MonitorInv /\ LastDocument /\ Pushes)'
  <2> SUFFICES ASSUME Base, MonitorInv, LastDocument, Pushes, [Next]_vars
               PROVE  (Base /\ MonitorInv /\ LastDocument /\ Pushes)'
      OBVIOUS
  <2>1. Base' /\ MonitorInv' /\ LastDocument'
        BY OneClear, StepBase, StepMonitor, StepLast
  <2>2. ASSUME NEW m \in Monitor PROVE PushInv(m)'
    <3>1. m \in Key /\ PushInv(m)
          BY DEF Key
    <3>2. Project => LastOpen(m)'
          BY OneClear, ProjectMonitorLast
    <3>3. QED BY <3>1, <3>2, StepPush
  <2>3. QED BY <2>1, <2>2
<1>3. Pushes => (told => \A m \in Monitor : Pushed(m))
      BY DEF PushInv
<1> HIDE DEF Pushes
<1>4. QED BY <1>1, <1>2, <1>3, PTL DEF Spec

\* The signal of an alert names the episode that starts with it, and for good.
THEOREM AlertSignalsKeepTheirEpisode ==
  ASSUME OneClear
  PROVE  Spec => [][\A a \in Alert : KeepsEpisode(a)]_vars
<1>1. Init => Base /\ MonitorInv
      BY InitBase, InitMonitor
<1>2. Base /\ MonitorInv /\ [Next]_vars => (Base /\ MonitorInv)'
      BY OneClear, StepBase, StepMonitor
<1>3. Base /\ MonitorInv /\ (Base /\ MonitorInv)' /\ [Next]_vars
        => [\A a \in Alert : KeepsEpisode(a)]_vars
  <2> SUFFICES ASSUME Base, MonitorInv, MonitorInv', [Next]_vars, NEW a \in Alert,
                      signals[a] # None
               PROVE  signals'[a] = signals[a]
      BY DEF KeepsEpisode
  <2>1. signals[a] = Ep(a) /\ alert[a].at # "none"
        BY DEF MonitorInv, RowsOfAlerts
  <2>2. signals'[a] # None
        BY SignalsGrow DEF Source
  <2>3. signals'[a] = <<MonitorOf[a], alert'[a].start>>
        BY <2>2 DEF MonitorInv, RowsOfAlerts, Ep
  <2>4. QED BY <2>1, <2>3, AlertsMove DEF Ep
<1>4. QED BY <1>1, <1>2, <1>3, PTL DEF Spec

-----------------------------------------------------------------------------
(***************************************************************************)
(* The fold of every result there is of a detector, from nothing: what its *)
(* episodes are, whatever a cycle has read and written of them.            *)
(***************************************************************************)
\* A document takes a result of window w, has taken result r, knows nothing after t.
Covers(doc, w) == IsOpen(doc) \/ w <= doc.lastHealthy
HasRead(doc, r) ==
  /\ Covers(doc, r.window)
  /\ r.grade = "breach" => r.window <= doc.lastBreach
  /\ r.grade = "healthy" =>
       ~ IsOpen(doc) \/ r.window <= doc.lastHealthy \/ r.window <= doc.lastBreach
Within(doc, t) == doc.lastHealthy <= t /\ doc.lastBreach <= t

\* Two documents that differ in their ageing at most.
Same(x, y) ==
  /\ x \in Doc /\ y \in Doc
  /\ x.state = "RESOLVED" <=> y.state = "RESOLVED"
  /\ x.healthy = y.healthy /\ x.lastHealthy = y.lastHealthy /\ x.lastBreach = y.lastBreach

LEMMA OpenIs ==
  ASSUME NEW doc \in Doc
  PROVE  /\ IsOpen(doc) <=> doc.state # "RESOLVED"
         /\ doc.lastHealthy \in Stamp /\ doc.lastBreach \in Stamp /\ doc.healthy \in Nat
         /\ doc # None
BY InputsAssumption DEF IsOpen, Terminal, Doc

LEMMA SameIs ==
  /\ \A x \in Doc : Same(x, x)
  /\ \A x, y : Same(x, y) => Same(y, x)
  /\ \A x, y, z : Same(x, y) /\ Same(y, z) => Same(x, z)
BY DEF Same

LEMMA SameReads ==
  ASSUME NEW x, NEW y, Same(x, y)
  PROVE  /\ IsOpen(x) <=> IsOpen(y)
         /\ \A w : Covers(x, w) <=> Covers(y, w)
BY OpenIs DEF Same, Covers

\* The three reducers, field by field.
LEMMA ReducedIs ==
  ASSUME NEW doc \in Doc, NEW r \in Result
  PROVE  LET new == Reduced(doc, r)
         IN /\ new \in Doc
            /\ \/ /\ r.grade = "breach" /\ r.window > doc.lastBreach
                  /\ new.lastBreach = r.window /\ new.lastHealthy = Never
                  /\ new.healthy = 0 /\ new.state = "OPEN"
               \/ /\ r.grade = "healthy" /\ doc.state # "RESOLVED"
                  /\ r.window > doc.lastHealthy /\ r.window > doc.lastBreach
                  /\ new.lastBreach = doc.lastBreach /\ new.lastHealthy = r.window
                  /\ new.healthy = doc.healthy + 1
                  /\ new.state = IF doc.healthy + 1 >= DetectorRequired
                                 THEN "RESOLVED" ELSE "RECOVERING"
               \/ /\ r.grade = "breach" => ~ (r.window > doc.lastBreach)
                  /\ r.grade = "healthy" =>
                       ~ (/\ doc.state # "RESOLVED"
                          /\ r.window > doc.lastHealthy /\ r.window > doc.lastBreach)
                  /\ new.lastBreach = doc.lastBreach /\ new.lastHealthy = doc.lastHealthy
                  /\ new.healthy = doc.healthy
                  /\ new.state = "RESOLVED" <=> doc.state = "RESOLVED"
<1> DEFINE mid == Evaluated(doc, r)
<1>1. /\ mid \in Doc /\ mid.lastBreach = doc.lastBreach /\ mid.lastHealthy = doc.lastHealthy
      /\ mid.healthy = doc.healthy
      /\ mid.state = "RESOLVED" <=> doc.state = "RESOLVED"
  <2>1. mid \in Doc
        BY ReducersTyped
  <2>2. QED BY <2>1 DEF Evaluated, Doc
<1>2. r.grade \in {"breach", "unclear", "healthy"}
      BY DEF Result
<1>3. /\ r.grade = "breach" => Reduced(doc, r) = Breached(mid, r)
      /\ r.grade = "healthy" => Reduced(doc, r) = Recovered(mid, r)
      /\ r.grade = "unclear" => Reduced(doc, r) = mid
      BY DEF Reduced
<1> HIDE DEF mid
<1>4. Breached(mid, r) \in Doc /\ Recovered(mid, r) \in Doc /\ Reduced(doc, r) \in Doc
      BY <1>1, <1>2, <1>3, ReducersTyped
<1>5. IsOpen(mid) <=> doc.state # "RESOLVED"
      BY <1>1, OpenIs
<1>6. CASE r.grade = "breach"
  <2>1. CASE r.window > doc.lastBreach
    <3>1. Reduced(doc, r) = [mid EXCEPT !.lastBreach = r.window, !.lastHealthy = Never,
                                        !.healthy = 0, !.state = "OPEN"]
          BY <1>1, <1>3, <1>6, <2>1 DEF Breached
    <3>2. QED BY <1>1, <1>4, <1>6, <2>1, <3>1 DEF Doc
  <2>2. CASE ~ (r.window > doc.lastBreach)
    <3>1. Reduced(doc, r) = mid
          BY <1>1, <1>3, <1>6, <2>2 DEF Breached
    <3>2. QED BY <1>1, <1>4, <1>6, <2>2, <3>1
  <2>3. QED BY <2>1, <2>2
<1>7. CASE r.grade = "healthy"
  <2>1. CASE IsOpen(mid) /\ r.window > mid.lastHealthy /\ r.window > mid.lastBreach
    <3>1. Reduced(doc, r) =
            [mid EXCEPT !.lastHealthy = r.window, !.healthy = @ + 1,
                        !.state = IF mid.healthy + 1 >= DetectorRequired
                                  THEN "RESOLVED" ELSE "RECOVERING"]
          BY <1>3, <1>7, <2>1 DEF Recovered
    <3>2. QED BY <1>1, <1>4, <1>5, <1>7, <2>1, <3>1 DEF Doc
  <2>2. CASE ~ (IsOpen(mid) /\ r.window > mid.lastHealthy /\ r.window > mid.lastBreach)
    <3>1. Reduced(doc, r) = mid
          BY <1>3, <1>7, <2>2 DEF Recovered
    <3>2. QED BY <1>1, <1>4, <1>5, <1>7, <2>2, <3>1
  <2>3. QED BY <2>1, <2>2
<1>8. CASE r.grade = "unclear"
      BY <1>1, <1>3, <1>4, <1>8
<1>9. QED BY <1>2, <1>6, <1>7, <1>8

LEMMA ReducedReads ==
  ASSUME NEW doc \in Doc, NEW r \in Result, Covers(doc, r.window)
  PROVE  HasRead(Reduced(doc, r), r)
<1>1. r.window \in Stamp
      BY StampOrder DEF Result
<1>2. Reduced(doc, r) \in Doc
      BY ReducedIs
<1>3. QED BY <1>1, <1>2, OpenIs, ReducedIs, StampOrder DEF HasRead, Covers

LEMMA ReducedHasRead ==
  ASSUME NEW doc \in Doc, NEW r \in Result, NEW s \in Result, HasRead(doc, s),
         s.window <= r.window
  PROVE  HasRead(Reduced(doc, r), s)
<1>1. r.window \in Stamp /\ s.window \in Stamp
      BY StampOrder DEF Result
<1>2. Reduced(doc, r) \in Doc
      BY ReducedIs
<1>3. QED BY <1>1, <1>2, OpenIs, ReducedIs, StampOrder DEF HasRead, Covers

\* What a document has read changes it no more.
LEMMA ReadAgain ==
  ASSUME NEW doc \in Doc, NEW r \in Result, HasRead(doc, r)
  PROVE  Same(Reduced(doc, r), doc)
<1>1. r.window \in Stamp
      BY StampOrder DEF Result
<1>2. Reduced(doc, r) \in Doc
      BY ReducedIs
<1>3. QED BY <1>1, <1>2, OpenIs, ReducedIs, StampOrder DEF HasRead, Same

LEMMA SameReduced ==
  ASSUME NEW x, NEW y, Same(x, y), NEW r \in Result
  PROVE  Same(Reduced(x, r), Reduced(y, r))
<1>1. x \in Doc /\ y \in Doc /\ Reduced(x, r) \in Doc /\ Reduced(y, r) \in Doc
      BY ReducedIs DEF Same
<1>2. QED BY <1>1, ReducedIs DEF Same

LEMMA ReducedWithin ==
  ASSUME NEW doc \in Doc, NEW r \in Result, NEW t \in Stamp, Within(doc, t), r.window <= t
  PROVE  Within(Reduced(doc, r), t)
<1>1. r.window \in Stamp
      BY StampOrder DEF Result
<1>2. QED BY <1>1, OpenIs, ReducedIs, StampOrder DEF Within

LEMMA BlankIs ==
  ASSUME NEW t \in Stamp
  PROVE  /\ Blank(t) \in Doc /\ IsOpen(Blank(t))
         /\ Blank(t).lastHealthy = Never /\ Blank(t).lastBreach = Never
BY BlankTyped, OpenIs DEF Blank

\* The episode of a result: the last one that starts by its window, when that one
\* takes it.
LastBy(line, w, c) == c \in line /\ c <= w /\ \A x \in line : x <= w => x <= c
NoneBy(line, w)    == \A x \in line : ~ (x <= w)

LEMMA StartIs ==
  ASSUME NEW acc, AccOK(acc), NEW r \in Result
  PROVE  LET start == DetectorStart(acc.line, acc.docs, r)  w == r.window
         IN \/ \E c \in acc.line :
                 /\ LastBy(acc.line, w, c)
                 /\ \/ Covers(acc.docs[c], w) /\ start = c
                    \/ ~ Covers(acc.docs[c], w)
                       /\ start = IF r.grade = "breach" THEN w ELSE None
            \/ /\ NoneBy(acc.line, w)
               /\ start = IF r.grade = "breach" /\ acc.line = {} THEN w ELSE None
<1> DEFINE w == r.window
           before == {t \in acc.line : t <= w}
           cover  == MaxOf(before)
<1>1. before \subseteq Stamp
      BY StampOrder DEF AccOK, AccT
<1>2. DetectorStart(acc.line, acc.docs, r) =
        IF before # {} /\ (IsOpen(acc.docs[cover]) \/ w <= acc.docs[cover].lastHealthy)
        THEN cover
        ELSE IF r.grade = "breach" /\ (before # {} \/ acc.line = {}) THEN w
        ELSE None
      BY DEF DetectorStart
<1>3. CASE before # {}
  <2>1. cover \in before /\ \A x \in before : x <= cover
        BY <1>1, <1>3, MaxStamp
  <2> HIDE DEF cover
  <2>2. LastBy(acc.line, w, cover)
        BY <2>1 DEF LastBy
  <2>3. cover \in acc.line
        BY <2>1
  <2> HIDE DEF before
  <2>4. QED BY <1>2, <1>3, <2>2, <2>3 DEF Covers
<1>4. CASE before = {}
  <2>1. NoneBy(acc.line, w)
        BY <1>4 DEF NoneBy
  <2> HIDE DEF before, cover
  <2>2. QED BY <1>2, <1>4, <2>1
<1>5. QED BY <1>3, <1>4

OneAWindow(R) ==
  /\ R \subseteq Result
  /\ \A r, s \in R : r.key = s.key /\ r.window = s.window => r = s

Empty == [line |-> {}, touched |-> {}, owner |-> [w \in Time |-> Never],
          docs |-> [w \in Time |-> None]]
FoldOf(f, d, R) ==
  f[Never] = Empty /\ \A t \in Time : f[t] = ApplyResults(f[t - 1], ResultsAt(R, d, t))

\* What a step of a fold does: nothing, or one result applied to one episode.
Applies(acc, new, r, c, old) ==
  /\ new.line = acc.line \cup {c}
  /\ new.docs[c] = Reduced(old, r)
  /\ \A x \in Time \ {c} : new.docs[x] = acc.docs[x]
  /\ new.owner[r.window] = c
  /\ \A w \in Time \ {r.window} : new.owner[w] = acc.owner[w]

LEMMA AppliesIs ==
  ASSUME NEW acc, AccOK(acc), NEW r \in Result,
         NEW start, start = DetectorStart(acc.line, acc.docs, r)
  PROVE  /\ AccOK(ApplyResult(acc, r))
         /\ start = None => ApplyResult(acc, r) = acc
         /\ start # None =>
              /\ start \in Time
              /\ Applies(acc, ApplyResult(acc, r), r, start,
                         IF start \in acc.line THEN acc.docs[start] ELSE Blank(r.window))
<1>1. AccOK(ApplyResult(acc, r))
      BY ApplyResultTyped
<1>2. CASE start = None
      BY <1>1, <1>2 DEF ApplyResult
<1>3. CASE start # None
  <2>1. PICK s \in Time, old \in Doc, new \in Doc : Changes(acc, r, s, old, new)
    <3>1. \A s \in Time : s # None
          BY StampOrder, InputsAssumption
    <3>2. DetectorStart(acc.line, acc.docs, r) # None
          BY <1>3
    <3>3. QED BY <3>2, ApplyResultChanges
  <2>2. s = start
        BY <2>1 DEF Changes
  <2>3. acc.owner \in [Time -> Stamp] /\ r.window \in Time
        BY DEF AccOK, AccT, Result
  <2>4. QED BY <1>1, <1>3, <2>1, <2>2, <2>3 DEF Changes, Applies
<1>4. QED BY <1>2, <1>3

LEMMA WindowIs ==
  ASSUME NEW R, OneAWindow(R), NEW d, NEW t, NEW acc
  PROVE  \/ /\ ApplyResults(acc, ResultsAt(R, d, t)) = acc
            /\ \A r \in R : r.key = d => r.window # t
         \/ \E r \in R :
              /\ r.key = d /\ r.window = t
              /\ ApplyResults(acc, ResultsAt(R, d, t)) = ApplyResult(acc, r)
<1>1. CASE ResultsAt(R, d, t) = {}
      BY <1>1 DEF ApplyResults, ResultsAt
<1>2. CASE ResultsAt(R, d, t) # {}
  <2>1. PICK r \in ResultsAt(R, d, t) : TRUE
        BY <1>2
  <2>2. r \in R /\ r.key = d /\ r.window = t
        BY <2>1 DEF ResultsAt
  <2>3. \A s \in ResultsAt(R, d, t) : s = r
        BY <2>2 DEF ResultsAt, OneAWindow
  <2>4. (CHOOSE s \in ResultsAt(R, d, t) : TRUE) = r
        BY <2>1, <2>3
  <2>5. QED BY <1>2, <2>2, <2>4 DEF ApplyResults
<1>3. QED BY <1>1, <1>2

LEMMA FoldExists ==
  ASSUME NEW d, NEW R
  PROVE  \E f : FoldOf(f, d, R)
<1>1. PICK f : AppliedBy(f, d, {}, R)
      BY AppliedFold
<1>2. f[Never] = Empty
      BY <1>1 DEF AppliedBy, Empty
<1>3. QED BY <1>1, <1>2 DEF AppliedBy, FoldOf

\* What the fold has made of the results up to t: its episodes know nothing later,
\* and each has recovered before the next one began.
InLine(acc, t) ==
  /\ \A c \in acc.line : c <= t /\ Within(acc.docs[c], t)
  /\ \A c, x \in acc.line : c < x => ~ Covers(acc.docs[c], x)
Exact(acc, t) == AccOK(acc) /\ InLine(acc, t)

\* A step of the fold: the result belongs to the last episode, which is open, or
\* begins one after the last has recovered, or belongs to none.
Keeps(acc, new, r) ==
  /\ new = acc /\ r.grade # "breach"
  /\ \A x \in acc.line : ~ Covers(acc.docs[x], r.window)
Continues(acc, new, r, c) ==
  /\ c \in acc.line /\ IsOpen(acc.docs[c]) /\ \A x \in acc.line : x <= c
  /\ Applies(acc, new, r, c, acc.docs[c])
Opens(acc, new, r) ==
  /\ r.grade = "breach" /\ r.window \notin acc.line
  /\ \A x \in acc.line : ~ Covers(acc.docs[x], r.window)
  /\ Applies(acc, new, r, r.window, Blank(r.window))

LEMMA ExactStep ==
  ASSUME NEW acc, NEW t \in Time, AccOK(acc), InLine(acc, t - 1),
         NEW r \in Result, r.window = t
  PROVE  LET new == ApplyResult(acc, r)
         IN /\ AccOK(new)
            /\ Keeps(acc, new, r) \/ Opens(acc, new, r) \/ \E c \in acc.line : Continues(acc, new, r, c)
<1> DEFINE start == DetectorStart(acc.line, acc.docs, r)
           new == ApplyResult(acc, r)
<1>1. acc.line \subseteq Time /\ \A x \in acc.line : acc.docs[x] \in Doc
      BY DEF AccOK, AccT
<1>2. \A x \in acc.line : x <= t /\ ~ (t <= x) /\ ~ (t <= acc.docs[x].lastHealthy)
  <2> TAKE x \in acc.line
  <2>1. x <= t - 1 /\ acc.docs[x].lastHealthy <= t - 1 /\ acc.docs[x].lastHealthy \in Stamp
        BY <1>1, OpenIs DEF InLine, Within
  <2>2. QED BY <1>1, <2>1, BoundsAssumption DEF Time, Stamp, Never
<1>3. \A x \in acc.line : Covers(acc.docs[x], t) <=> IsOpen(acc.docs[x])
      BY <1>2 DEF Covers
<1>4. /\ AccOK(new)
      /\ start = None => new = acc
      /\ start # None =>
           Applies(acc, new, r, start,
                   IF start \in acc.line THEN acc.docs[start] ELSE Blank(r.window))
      BY AppliesIs
<1>5. t # None /\ \A x \in acc.line : x # None
      BY <1>1, StampOrder, InputsAssumption
<1> HIDE DEF new
<1>6. ASSUME NEW c \in acc.line, LastBy(acc.line, t, c), Covers(acc.docs[c], t), start = c
      PROVE  Continues(acc, new, r, c)
      BY <1>2, <1>3, <1>4, <1>5, <1>6 DEF LastBy, Continues
<1>7. ASSUME \A x \in acc.line : ~ Covers(acc.docs[x], t),
             start = IF r.grade = "breach" THEN t ELSE None
      PROVE  Keeps(acc, new, r) \/ Opens(acc, new, r)
  <2>1. t \notin acc.line
        BY <1>2, StampOrder
  <2>2. QED BY <1>4, <1>5, <1>7, <2>1 DEF Keeps, Opens
<1>8. ASSUME NEW c \in acc.line, LastBy(acc.line, t, c), ~ Covers(acc.docs[c], t)
      PROVE  \A x \in acc.line : ~ Covers(acc.docs[x], t)
  <2> SUFFICES ASSUME NEW x \in acc.line, x # c PROVE ~ IsOpen(acc.docs[x])
      BY <1>3, <1>8
  <2>1. x < c
    <3>1. x <= c
          BY <1>2, <1>8 DEF LastBy
    <3>2. QED BY <1>1, <3>1, StampOrder
  <2>2. QED BY <2>1 DEF InLine, Covers
<1>9. NoneBy(acc.line, t) => acc.line = {}
      BY <1>2 DEF NoneBy
<1> HIDE DEF start
<1>10. \/ \E c \in acc.line :
            /\ LastBy(acc.line, t, c)
            /\ \/ Covers(acc.docs[c], t) /\ start = c
               \/ ~ Covers(acc.docs[c], t)
                  /\ start = IF r.grade = "breach" THEN t ELSE None
       \/ /\ NoneBy(acc.line, t)
          /\ start = IF r.grade = "breach" /\ acc.line = {} THEN t ELSE None
       BY StartIs DEF start
<1>11. CASE NoneBy(acc.line, t)
            /\ start = IF r.grade = "breach" /\ acc.line = {} THEN t ELSE None
       BY <1>4, <1>7, <1>9, <1>11 DEF new
<1>12. QED BY <1>4, <1>6, <1>7, <1>8, <1>10, <1>11 DEF new

\* A step keeps the fold exact.
LEMMA StepInLine ==
  ASSUME NEW acc, NEW new, NEW t \in Time, AccOK(acc), AccOK(new), InLine(acc, t - 1),
         NEW r \in Result, r.window = t,
         \/ Keeps(acc, new, r) \/ Opens(acc, new, r)
         \/ \E c \in acc.line : Continues(acc, new, r, c)
  PROVE  InLine(new, t)
<1>1. /\ acc.line \subseteq Time /\ \A x \in acc.line : acc.docs[x] \in Doc
      /\ new.line \subseteq Time /\ \A x \in new.line : new.docs[x] \in Doc
      BY DEF AccOK, AccT
<1>2. \A x \in acc.line : x <= t /\ x < t /\ Within(acc.docs[x], t)
  <2> TAKE x \in acc.line
  <2>1. /\ x <= t - 1 /\ acc.docs[x].lastHealthy <= t - 1 /\ acc.docs[x].lastBreach <= t - 1
        /\ acc.docs[x].lastHealthy \in Stamp /\ acc.docs[x].lastBreach \in Stamp
        BY <1>1, OpenIs DEF InLine, Within
  <2>2. QED BY <1>1, <2>1, BoundsAssumption DEF Time, Stamp, Never, Within
<1>3. t \in Stamp /\ t <= t
      BY StampOrder
<1>4. CASE Keeps(acc, new, r)
      BY <1>2, <1>4 DEF Keeps, InLine
<1>5. ASSUME NEW c \in acc.line, Continues(acc, new, r, c) PROVE InLine(new, t)
  <2>1. new.line = acc.line /\ new.docs[c] = Reduced(acc.docs[c], r)
        /\ \A x \in acc.line \ {c} : new.docs[x] = acc.docs[x]
        BY <1>1, <1>5 DEF Continues, Applies
  <2>2. Within(new.docs[c], t)
        BY <1>1, <1>2, <1>3, <2>1, ReducedWithin
  <2>3. \A x \in acc.line : ~ (c < x)
        BY <1>1, <1>5, StampOrder DEF Continues
  <2>4. QED BY <1>2, <2>1, <2>2, <2>3 DEF InLine
<1>6. CASE Opens(acc, new, r)
  <2>1. /\ new.line = acc.line \cup {t} /\ new.docs[t] = Reduced(Blank(t), r)
        /\ \A x \in acc.line : new.docs[x] = acc.docs[x]
        /\ \A x \in acc.line : ~ Covers(acc.docs[x], t)
        BY <1>1, <1>6 DEF Opens, Applies
  <2>2. Within(Blank(t), t)
        BY <1>3, BlankIs, StampOrder DEF Within
  <2>3. Within(new.docs[t], t)
        BY <1>3, <2>1, <2>2, BlankIs, ReducedWithin
  <2>4. \A x \in new.line : ~ (t < x)
        BY <1>1, <1>2, <1>3, <2>1, StampOrder
  <2>5. QED BY <1>2, <1>3, <2>1, <2>3, <2>4 DEF InLine
<1>7. QED BY <1>4, <1>5, <1>6

LEMMA TimeBefore ==
  ASSUME NEW t \in Time
  PROVE  /\ t \in Stamp /\ t - 1 \in Stamp /\ t - 1 < t /\ t - 1 <= t
         /\ \A x \in Stamp : x <= t <=> x <= t - 1 \/ x = t
         /\ \A x \in Stamp : x <= t - 1 <=> x < t
BY BoundsAssumption DEF Stamp, Time, Never

\* One step of the fold: no result, or one.
FoldSteps(acc, new, r) ==
  Keeps(acc, new, r) \/ Opens(acc, new, r) \/ \E c \in acc.line : Continues(acc, new, r, c)
FoldStep(f, d, R, t) ==
  \/ f[t] = f[t - 1] /\ \A r \in R : r.key = d => r.window # t
  \/ \E r \in R : r \in Result /\ r.key = d /\ r.window = t /\ FoldSteps(f[t - 1], f[t], r)

LEMMA ExactFold ==
  ASSUME NEW d, NEW R, OneAWindow(R), NEW f, FoldOf(f, d, R), NEW t \in Time, Exact(f[t - 1], t - 1)
  PROVE  Exact(f[t], t) /\ FoldStep(f, d, R, t)
<1>1. f[t] = ApplyResults(f[t - 1], ResultsAt(R, d, t))
      BY DEF FoldOf
<1>2. CASE f[t] = f[t - 1] /\ \A r \in R : r.key = d => r.window # t
  <2>1. AccOK(f[t]) /\ InLine(f[t], t - 1)
        BY <1>2 DEF Exact
  <2>2. \A c \in f[t].line : c \in Stamp /\ f[t].docs[c].lastHealthy \in Stamp
                             /\ f[t].docs[c].lastBreach \in Stamp
        BY <2>1, OpenIs, StampOrder DEF AccOK, AccT
  <2>3. InLine(f[t], t)
        BY <2>1, <2>2, TimeBefore DEF InLine, Within
  <2>4. QED BY <1>2, <2>1, <2>3 DEF Exact, FoldStep
<1>3. ASSUME NEW r \in R, r.key = d, r.window = t, f[t] = ApplyResult(f[t - 1], r)
      PROVE  Exact(f[t], t) /\ FoldStep(f, d, R, t)
  <2>1. AccOK(f[t - 1]) /\ InLine(f[t - 1], t - 1) /\ r \in Result
        BY DEF Exact, OneAWindow
  <2>2. AccOK(f[t]) /\ FoldSteps(f[t - 1], f[t], r)
        BY <1>3, <2>1, ExactStep DEF FoldSteps
  <2>3. InLine(f[t], t)
        BY <1>3, <2>1, <2>2, StepInLine DEF FoldSteps
  <2>4. QED BY <1>3, <2>1, <2>2, <2>3 DEF Exact, FoldStep
<1>4. QED BY <1>1, <1>2, <1>3, WindowIs

LEMMA FoldIsExact ==
  ASSUME NEW d, NEW R, OneAWindow(R), NEW f, FoldOf(f, d, R)
  PROVE  /\ \A t \in Stamp : Exact(f[t], t)
         /\ \A t \in Time : FoldStep(f, d, R, t)
<1> DEFINE G == {t \in Stamp : Exact(f[t], t)}
<1>1. Never \in G
  <2>1. AccOK(Empty) /\ Empty.line = {}
        BY InputsAssumption DEF AccOK, AccT, Empty, Stamp
  <2>2. QED BY <2>1 DEF FoldOf, Exact, InLine, Stamp
<1>2. ASSUME NEW t \in Time, t - 1 \in G PROVE t \in G
      BY <1>2, ExactFold, TimeBefore
<1>3. Stamp \subseteq G
  <2> HIDE DEF G
  <2>1. QED BY <1>1, <1>2, StampInduction
<1>4. QED BY <1>3, ExactFold, TimeBefore

\* What the fold has settled at t it never changes.
Later(old, new, t) ==
  /\ old.line \subseteq new.line
  /\ \A c \in new.line : c <= t => c \in old.line
  /\ \A w \in Time : w <= t => new.owner[w] = old.owner[w]
  /\ \A c \in old.line : ~ IsOpen(old.docs[c]) => new.docs[c] = old.docs[c]
  /\ \A c \in old.line, s \in Result :
       s.window <= t /\ HasRead(old.docs[c], s) => HasRead(new.docs[c], s)

LEMMA LaterStep ==
  ASSUME NEW old, NEW acc, NEW new, NEW t \in Stamp, NEW q \in Time, t < q,
         AccOK(acc), Exact(acc, q - 1), Later(old, acc, t),
         NEW r \in Result, r.window = q, FoldSteps(acc, new, r)
  PROVE  Later(old, new, t)
<1>1. /\ acc.line \subseteq Time /\ \A x \in acc.line : acc.docs[x] \in Doc
      BY DEF AccOK, AccT
<1>2. \A w \in Time : w <= t => w # q
      BY StampOrder
<1>3. \A s \in Result : s.window <= t => s.window <= q
  <2> TAKE s \in Result
  <2>1. s.window \in Stamp /\ q \in Stamp /\ t <= q
        BY StampOrder DEF Result
  <2>2. QED BY <2>1, StampOrder
<1>4. CASE Keeps(acc, new, r)
      BY <1>4 DEF Keeps
<1>5. ASSUME NEW c \in acc.line, Continues(acc, new, r, c) PROVE Later(old, new, t)
  <2>1. /\ new.line = acc.line /\ new.docs[c] = Reduced(acc.docs[c], r)
        /\ \A x \in acc.line \ {c} : new.docs[x] = acc.docs[x]
        /\ \A w \in Time \ {q} : new.owner[w] = acc.owner[w]
        /\ IsOpen(acc.docs[c])
        BY <1>1, <1>5 DEF Continues, Applies
  <2>2. ASSUME NEW x \in old.line, NEW s \in Result, s.window <= t, HasRead(old.docs[x], s)
        PROVE  HasRead(new.docs[x], s)
    <3>1. x \in acc.line /\ HasRead(acc.docs[x], s)
          BY <2>2 DEF Later
    <3>2. CASE x = c
          BY <1>1, <1>3, <2>1, <2>2, <3>1, <3>2, ReducedHasRead
    <3>3. QED BY <2>1, <3>1, <3>2
  <2>3. QED BY <1>2, <2>1, <2>2 DEF Later
<1>6. CASE Opens(acc, new, r)
  <2>1. /\ new.line = acc.line \cup {q}
        /\ \A x \in acc.line : new.docs[x] = acc.docs[x]
        /\ \A w \in Time \ {q} : new.owner[w] = acc.owner[w]
        BY <1>1, <1>6 DEF Opens, Applies
  <2>2. QED BY <1>2, <2>1 DEF Later
<1>7. QED BY <1>4, <1>5, <1>6 DEF FoldSteps

LEMMA FoldLater ==
  ASSUME NEW d, NEW R, OneAWindow(R), NEW f, FoldOf(f, d, R), NEW t \in Stamp
  PROVE  \A q \in Stamp : t <= q => Later(f[t], f[q], t)
<1> DEFINE G == {q \in Stamp : t <= q => Later(f[t], f[q], t)}
<1>1. Later(f[t], f[t], t)
      BY DEF Later
<1>2. Never \in G
  <2>1. t <= Never => t = Never
        BY StampOrder DEF Stamp
  <2>2. QED BY <1>1, <2>1 DEF Stamp
<1>3. ASSUME NEW q \in Time, q - 1 \in G PROVE q \in G
  <2> SUFFICES ASSUME t <= q, t # q PROVE Later(f[t], f[q], t)
      BY <1>1, StampOrder
  <2>1. t <= q - 1 /\ t < q /\ q - 1 \in Stamp
        BY TimeBefore
  <2>2. Later(f[t], f[q - 1], t)
        BY <1>3, <2>1
  <2>3. Exact(f[q - 1], q - 1) /\ FoldStep(f, d, R, q)
        BY <2>1, FoldIsExact
  <2>4. ASSUME NEW r \in Result, r.window = q, FoldSteps(f[q - 1], f[q], r)
        PROVE  Later(f[t], f[q], t)
        BY <2>1, <2>2, <2>3, <2>4, LaterStep DEF Exact
  <2>5. QED BY <2>2, <2>3, <2>4 DEF FoldStep
<1>4. Stamp \subseteq G
  <2> HIDE DEF G
  <2>1. QED BY <1>2, <1>3, StampInduction
<1>5. QED BY <1>4

-----------------------------------------------------------------------------
(***************************************************************************)
(* A cycle folds again, from what is stored, the results it reads again.   *)
(* Its fold follows the one of every result: each document it has is the   *)
(* one of some later moment, until the results of that moment are read.    *)
(***************************************************************************)
LostIn(line, c) == c \notin line /\ line # {} /\ \A x \in line : c < x

\* The document is that of c after the results up to some moment, t and what the
\* cycle does not read among them.
NearAt(f, c, doc, W, t, q) ==
  /\ q \in Stamp /\ t <= q /\ c <= q /\ \A w \in W : w <= q
  /\ c \in f[q].line /\ Same(doc, f[q].docs[c])
Near(f, c, doc, W, t) == \E q \in Stamp : NearAt(f, c, doc, W, t, q)

Tracks(f, acc, W, St, t) ==
  /\ AccOK(acc) /\ St \subseteq acc.line /\ acc.line \subseteq f[MaxTime].line
  /\ \A c \in acc.line : Near(f, c, acc.docs[c], W, t)
  /\ \A c \in f[t].line : c \in acc.line \/ (LostIn(acc.line, c) /\ St # {})
  /\ \A c \in acc.line \ St : c <= t /\ \A w \in W : w < c
OwnerIs(f, acc, St, w) ==
  \/ acc.owner[w] = f[MaxTime].owner[w]
  \/ acc.owner[w] = Never /\ f[MaxTime].owner[w] \notin St
Owners(f, acc, S, d, St, t) ==
  /\ \A r \in S : r.key = d /\ r.grade = "breach" /\ r.window <= t => OwnerIs(f, acc, St, r.window)
  /\ \A w \in Time : t < w => acc.owner[w] = Never

FoldSetup(f, d, R) == OneAWindow(R) /\ FoldOf(f, d, R)

LEMMA MaxIs == MaxTime \in Stamp /\ MaxTime \in Time /\ \A t \in Stamp : t <= MaxTime
BY BoundsAssumption DEF Stamp, Time, Never

\* A document no result of t changes is that of t as well.
LEMMA NearBumps ==
  ASSUME NEW d, NEW R, NEW f, FoldSetup(f, d, R), NEW t \in Time, NEW c \in Time, NEW doc, NEW W,
         Near(f, c, doc, W, t - 1), W \subseteq Time,
         c \in f[t - 1].line => c \in f[t].line /\ f[t].docs[c] = f[t - 1].docs[c]
  PROVE  Near(f, c, doc, W, t)
<1>1. PICK q \in Stamp : NearAt(f, c, doc, W, t - 1, q)
      BY DEF Near
<1>2. CASE t <= q
      BY <1>1, <1>2 DEF Near, NearAt
<1>3. CASE ~ (t <= q)
  <2>1. q = t - 1
    <3>1. q \in Stamp /\ t - 1 \in Stamp /\ t - 1 <= q /\ q <= t - 1
          BY <1>1, <1>3, TimeBefore, StampOrder DEF NearAt
    <3>2. QED BY <3>1, StampOrder
  <2>2. t \in Stamp /\ t <= t /\ \A x \in Stamp : x <= t - 1 => x <= t
        BY TimeBefore, StampOrder
  <2>3. NearAt(f, c, doc, W, t, t)
        BY <1>1, <2>1, <2>2, StampOrder DEF NearAt
  <2>4. QED BY <2>2, <2>3 DEF Near
<1>4. QED BY <1>2, <1>3

\* A document that has recovered by t is the last one of its episode.
LEMMA NearCloses ==
  ASSUME NEW d, NEW R, NEW f, FoldSetup(f, d, R), NEW t \in Stamp, NEW c \in Time, NEW doc, NEW W,
         Near(f, c, doc, W, t), c \in f[t].line, ~ Covers(f[t].docs[c], t)
  PROVE  ~ Covers(doc, t)
<1>1. PICK q \in Stamp : NearAt(f, c, doc, W, t, q)
      BY DEF Near
<1>2. Later(f[t], f[q], t)
      BY <1>1, FoldLater DEF FoldSetup, NearAt
<1>3. ~ IsOpen(f[t].docs[c])
      BY DEF Covers
<1>4. f[q].docs[c] = f[t].docs[c]
      BY <1>2, <1>3 DEF Later
<1>5. QED BY <1>1, <1>4, SameReads DEF NearAt

\* What of the timeline begins by t.
LEMMA LineByNow ==
  ASSUME NEW d, NEW R, NEW f, FoldSetup(f, d, R), NEW t \in Stamp, NEW W, NEW St, NEW s,
         NEW acc, Tracks(f, acc, W, St, s), NEW x \in acc.line, x <= t
  PROVE  x \in f[t].line
<1>1. Later(f[t], f[MaxTime], t)
      BY MaxIs, FoldLater DEF FoldSetup
<1>2. QED BY <1>1 DEF Later, Tracks

\* The result of t belongs to an episode the cycle has.
TakenAt(f, acc, r, c, t) ==
  /\ c \in Time /\ c \in acc.line /\ LastBy(f[t].line, t, c)
  /\ HasRead(f[t].docs[c], r)
  /\ \/ c = t
     \/ /\ c \in f[t - 1].line /\ IsOpen(f[t - 1].docs[c])
        /\ f[t].docs[c] = Reduced(f[t - 1].docs[c], r)

LEMMA Taken ==
  ASSUME NEW d, NEW R, NEW f, FoldSetup(f, d, R), NEW t \in Time, NEW W, W \subseteq Time,
         NEW St, NEW acc, Tracks(f, acc, W, St, t - 1),
         NEW r \in Result, r.window = t, NEW c, TakenAt(f, acc, r, c, t)
  PROVE  /\ DetectorStart(acc.line, acc.docs, r) = c
         /\ Near(f, c, Reduced(acc.docs[c], r), W, t)
<1>1. acc.line \subseteq Time /\ \A x \in acc.line : acc.docs[x] \in Doc
      BY DEF Tracks, AccOK, AccT
<1>2. c \in Time /\ c \in acc.line /\ c <= t /\ c \in f[t].line
      BY DEF TakenAt, LastBy
<1>3. PICK q \in Stamp : NearAt(f, c, acc.docs[c], W, t - 1, q)
      BY <1>2 DEF Tracks, Near
<1>4. Same(acc.docs[c], f[q].docs[c]) /\ f[q].docs[c] \in Doc
      BY <1>3 DEF NearAt, Same
<1>5. t \in Stamp /\ t <= t /\ t - 1 \in Stamp /\ \A x \in Stamp : x <= t - 1 => x <= t
      BY TimeBefore, StampOrder
<1>6. /\ Covers(acc.docs[c], t)
      /\ Near(f, c, Reduced(acc.docs[c], r), W, t)
  <2>1. CASE t <= q
    <3>1. Later(f[t], f[q], t)
          BY <1>5, <2>1, FoldLater DEF FoldSetup
    <3>2. HasRead(f[q].docs[c], r)
          BY <1>2, <1>5, <3>1 DEF Later, TakenAt
    <3>3. Covers(f[q].docs[c], t)
          BY <3>2 DEF HasRead
    <3>4. Same(Reduced(acc.docs[c], r), f[q].docs[c])
          BY <1>4, <3>2, SameReduced, ReadAgain, SameIs
    <3>5. NearAt(f, c, Reduced(acc.docs[c], r), W, t, q)
          BY <1>3, <2>1, <3>4 DEF NearAt
    <3>6. QED BY <1>4, <3>3, <3>5, SameReads DEF Near
  <2>2. CASE ~ (t <= q)
    <3>1. q = t - 1
      <4>1. t - 1 <= q /\ q <= t - 1
            BY <1>3, <1>5, <2>2, TimeBefore, StampOrder DEF NearAt
      <4>2. QED BY <1>5, <4>1, StampOrder
    <3>2. c # t
      <4>1. c <= t - 1
            BY <1>3, <3>1 DEF NearAt
      <4>2. QED BY <1>2, <4>1, BoundsAssumption DEF Time
    <3>3. IsOpen(f[q].docs[c]) /\ f[t].docs[c] = Reduced(f[q].docs[c], r)
          BY <3>1, <3>2 DEF TakenAt
    <3>4. Same(Reduced(acc.docs[c], r), f[t].docs[c])
          BY <1>4, <3>3, SameReduced
    <3>5. NearAt(f, c, Reduced(acc.docs[c], r), W, t, t)
          BY <1>2, <1>3, <1>5, <3>1, <3>4, StampOrder DEF NearAt
    <3>6. QED BY <1>4, <1>5, <3>3, <3>5, SameReads DEF Near, Covers
  <2>3. QED BY <2>1, <2>2
<1>7. LastBy(acc.line, t, c)
  <2>1. ASSUME NEW x \in acc.line, x <= t PROVE x <= c
    <3>1. x \in f[t].line
          BY <1>5, <2>1, LineByNow
    <3>2. QED BY <2>1, <3>1 DEF TakenAt, LastBy
  <2>2. QED BY <1>2, <2>1 DEF LastBy
<1>8. \A x \in acc.line : LastBy(acc.line, t, x) => x = c
      BY <1>1, <1>2, <1>7, StampOrder DEF LastBy
<1>9. ~ NoneBy(acc.line, t)
      BY <1>2 DEF NoneBy
<1> DEFINE start == DetectorStart(acc.line, acc.docs, r)
<1> HIDE DEF start
<1>10. \/ \E x \in acc.line :
            /\ LastBy(acc.line, t, x)
            /\ \/ Covers(acc.docs[x], t) /\ start = x
               \/ ~ Covers(acc.docs[x], t)
                  /\ start = IF r.grade = "breach" THEN t ELSE None
       \/ /\ NoneBy(acc.line, t)
          /\ start = IF r.grade = "breach" /\ acc.line = {} THEN t ELSE None
       BY StartIs DEF start, Tracks
<1>11. start = c
       BY <1>6, <1>8, <1>9, <1>10
<1>12. QED BY <1>6, <1>11 DEF start

\* The cycle takes the result of t, for an episode it has or begins.
LEMMA TrackTaken ==
  ASSUME NEW d, NEW R, NEW f, FoldSetup(f, d, R), NEW t \in Time, NEW W, W \subseteq Time,
         NEW St, NEW acc, Tracks(f, acc, W, St, t - 1), \A w \in W : w < t,
         NEW r \in Result, r.window = t, NEW new, AccOK(new), NEW c \in Time, NEW old,
         Applies(acc, new, r, c, old),
         c \in acc.line \/ c = t, c \in f[t].line, f[t].line \subseteq f[t - 1].line \cup {c},
         Near(f, c, Reduced(old, r), W, t),
         \A x \in acc.line \ {c} : Near(f, x, acc.docs[x], W, t)
  PROVE  Tracks(f, new, W, St, t)
<1>1. /\ new.line = acc.line \cup {c} /\ new.docs[c] = Reduced(old, r)
      /\ \A x \in Time \ {c} : new.docs[x] = acc.docs[x]
      BY DEF Applies
<1>2. /\ acc.line \subseteq Time /\ St \subseteq acc.line /\ acc.line \subseteq f[MaxTime].line
      BY DEF Tracks, AccOK, AccT
<1>3. f[t].line \subseteq f[MaxTime].line
      BY TimeBefore, MaxIs, FoldLater DEF FoldSetup, Later
<1>4. \A x \in new.line : Near(f, x, new.docs[x], W, t)
      BY <1>1, <1>2
<1>5. \A x \in Stamp : x <= t - 1 => x <= t
      BY TimeBefore, StampOrder
<1>6. ASSUME NEW x \in f[t].line, x \notin new.line PROVE LostIn(new.line, x) /\ St # {}
  <2>1. x \in f[t - 1].line /\ x \notin acc.line
        BY <1>1, <1>6
  <2>2. LostIn(acc.line, x) /\ St # {}
        BY <2>1 DEF Tracks
  <2>3. x < c
    <3>1. CASE c \in acc.line
          BY <2>2, <3>1 DEF LostIn
    <3>2. CASE c = t
      <4>1. Exact(f[t - 1], t - 1)
            BY TimeBefore, FoldIsExact DEF FoldSetup
      <4>2. x <= t - 1 /\ x \in Stamp
            BY <2>1, <4>1, StampOrder DEF Exact, InLine, AccOK, AccT
      <4>3. QED BY <3>2, <4>2, TimeBefore
    <3>3. QED BY <3>1, <3>2
  <2>4. QED BY <1>1, <1>6, <2>2, <2>3 DEF LostIn
<1>7. ASSUME NEW x \in new.line, x \notin St PROVE x <= t /\ \A w \in W : w < x
  <2>1. CASE x \in acc.line
        BY <1>2, <1>5, <1>7, <2>1, StampOrder DEF Tracks
  <2>2. CASE x = t
        BY <2>2, StampOrder
  <2>3. QED BY <1>1, <1>7, <2>1, <2>2
<1>8. QED BY <1>1, <1>2, <1>3, <1>4, <1>6, <1>7 DEF Tracks

\* The cycle leaves the result of t alone, and so does the fold of every result, or
\* it is for an episode the cycle has lost.
LEMMA TrackLeft ==
  ASSUME NEW d, NEW R, NEW f, FoldSetup(f, d, R), NEW t \in Time, NEW W,
         NEW St, NEW acc, Tracks(f, acc, W, St, t - 1),
         \A x \in acc.line : Near(f, x, acc.docs[x], W, t),
         \A x \in f[t].line \ f[t - 1].line :
           x \in acc.line \/ (LostIn(acc.line, x) /\ St # {})
  PROVE  Tracks(f, acc, W, St, t)
<1>1. \A x \in acc.line : x <= t - 1 => x <= t
      BY TimeBefore, StampOrder DEF Tracks, AccOK, AccT
<1>2. QED BY <1>1 DEF Tracks

Follows(f, acc, new, r, St) ==
  \/ new = acc /\ (r.grade = "breach" => f[r.window].owner[r.window] \notin St)
  \/ /\ new.owner[r.window] = f[r.window].owner[r.window]
     /\ \A w \in Time \ {r.window} : new.owner[w] = acc.owner[w]

\* The last episode of the fold takes the result of t.
LEMMA TrackContinues ==
  ASSUME NEW d, NEW R, NEW f, FoldSetup(f, d, R), NEW t \in Time, NEW W, W \subseteq Time,
         NEW St, NEW acc, Tracks(f, acc, W, St, t - 1), \A w \in W : w < t,
         NEW r \in Result, r.window = t, NEW new, new = ApplyResult(acc, r),
         NEW c \in f[t - 1].line, Continues(f[t - 1], f[t], r, c)
  PROVE  Tracks(f, new, W, St, t) /\ Follows(f, acc, new, r, St)
<1>1. Exact(f[t - 1], t - 1) /\ Exact(f[t], t) /\ t \in Stamp
      BY TimeBefore, FoldIsExact DEF FoldSetup
<1>2. /\ f[t - 1].line \subseteq Time /\ f[t - 1].docs[c] \in Doc /\ c \in Time
      /\ acc.line \subseteq Time /\ \A x \in acc.line : acc.docs[x] \in Doc
      /\ AccOK(acc) /\ St \subseteq acc.line
      BY <1>1 DEF Exact, AccOK, AccT, Tracks
<1>3. /\ f[t].line = f[t - 1].line /\ f[t].docs[c] = Reduced(f[t - 1].docs[c], r)
      /\ \A x \in Time \ {c} : f[t].docs[x] = f[t - 1].docs[x]
      /\ f[t].owner[t] = c /\ IsOpen(f[t - 1].docs[c])
      /\ \A x \in f[t - 1].line : x <= c
      BY DEF Continues, Applies
<1>4. c <= t
      BY <1>1, <1>3 DEF Exact, InLine
<1>5. \A x \in acc.line \ {c} : Near(f, x, acc.docs[x], W, t)
  <2> TAKE x \in acc.line \ {c}
  <2>1. Near(f, x, acc.docs[x], W, t - 1) /\ x \in Time
        BY <1>2 DEF Tracks
  <2>2. QED BY <1>3, <2>1, NearBumps
<1>6. CASE c \in acc.line
  <2>1. TakenAt(f, acc, r, c, t)
    <3>1. HasRead(f[t].docs[c], r)
          BY <1>2, <1>3, ReducedReads DEF Covers
    <3>2. LastBy(f[t].line, t, c)
          BY <1>3, <1>4 DEF LastBy
    <3>3. QED BY <1>2, <1>3, <1>6, <3>1, <3>2 DEF TakenAt
  <2>2. /\ DetectorStart(acc.line, acc.docs, r) = c
        /\ Near(f, c, Reduced(acc.docs[c], r), W, t)
        BY <2>1, Taken
  <2>3. c # None
        BY <1>2, StampOrder, InputsAssumption
  <2>4. AccOK(new) /\ Applies(acc, new, r, c, acc.docs[c])
        BY <1>2, <1>6, <2>2, <2>3, AppliesIs
  <2>5. Tracks(f, new, W, St, t)
        BY <1>2, <1>3, <1>5, <1>6, <2>2, <2>4, TrackTaken
  <2>6. QED BY <1>3, <2>4, <2>5 DEF Follows, Applies
<1>7. CASE c \notin acc.line
  <2>1. LostIn(acc.line, c)
        BY <1>7 DEF Tracks
  <2>2. NoneBy(acc.line, t)
    <3> SUFFICES ASSUME NEW x \in acc.line, x <= t PROVE FALSE
        BY DEF NoneBy
    <3>1. x \in f[t - 1].line
          BY <1>1, <1>3, LineByNow
    <3>2. x <= c /\ c < x
          BY <1>3, <2>1, <3>1 DEF LostIn
    <3>3. QED BY <1>2, <3>2, StampOrder
  <2>3. DetectorStart(acc.line, acc.docs, r) = None
    <3>1. acc.line # {}
          BY <2>1 DEF LostIn
    <3>2. \A x \in acc.line : ~ LastBy(acc.line, t, x)
          BY <2>2 DEF NoneBy, LastBy
    <3>3. QED BY <1>2, <3>1, <3>2, StartIs
  <2>4. new = acc
        BY <1>2, <2>3, AppliesIs
  <2>5. \A x \in acc.line : Near(f, x, acc.docs[x], W, t)
        BY <1>5, <1>7
  <2>6. Tracks(f, acc, W, St, t)
        BY <1>3, <2>5, TrackLeft
  <2>7. QED BY <1>2, <1>3, <1>7, <2>4, <2>6 DEF Follows
<1>8. QED BY <1>6, <1>7

\* The result of t begins an episode of the fold.
LEMMA TrackOpens ==
  ASSUME NEW d, NEW R, NEW f, FoldSetup(f, d, R), NEW t \in Time, NEW W, W \subseteq Time,
         NEW St, NEW acc, Tracks(f, acc, W, St, t - 1), \A w \in W : w < t,
         NEW r \in Result, r.window = t, NEW new, new = ApplyResult(acc, r),
         Opens(f[t - 1], f[t], r)
  PROVE  Tracks(f, new, W, St, t) /\ Follows(f, acc, new, r, St)
<1>1. Exact(f[t - 1], t - 1) /\ Exact(f[t], t) /\ t \in Stamp /\ t <= t
      BY TimeBefore, FoldIsExact, StampOrder DEF FoldSetup
<1>2. /\ f[t - 1].line \subseteq Time
      /\ acc.line \subseteq Time /\ \A x \in acc.line : acc.docs[x] \in Doc
      /\ AccOK(acc) /\ St \subseteq acc.line
      BY <1>1 DEF Exact, AccOK, AccT, Tracks
<1>3. /\ f[t].line = f[t - 1].line \cup {t} /\ f[t].docs[t] = Reduced(Blank(t), r)
      /\ \A x \in Time \ {t} : f[t].docs[x] = f[t - 1].docs[x]
      /\ f[t].owner[t] = t /\ r.grade = "breach" /\ t \notin f[t - 1].line
      /\ \A x \in f[t - 1].line : ~ Covers(f[t - 1].docs[x], t)
      BY DEF Opens, Applies
<1>4. \A x \in f[t].line : x <= t
      BY <1>1 DEF Exact, InLine
<1>5. \A x \in acc.line \ {t} : Near(f, x, acc.docs[x], W, t)
  <2> TAKE x \in acc.line \ {t}
  <2>1. Near(f, x, acc.docs[x], W, t - 1) /\ x \in Time
        BY <1>2 DEF Tracks
  <2>2. QED BY <1>3, <2>1, NearBumps
<1>6. t # None
      BY <1>1, InputsAssumption
<1>7. CASE t \in acc.line
  <2>1. TakenAt(f, acc, r, t, t)
    <3>1. HasRead(f[t].docs[t], r)
          BY <1>1, <1>3, BlankIs, ReducedReads DEF Covers
    <3>2. LastBy(f[t].line, t, t)
          BY <1>1, <1>3, <1>4 DEF LastBy
    <3>3. QED BY <1>7, <3>1, <3>2 DEF TakenAt
  <2>2. /\ DetectorStart(acc.line, acc.docs, r) = t
        /\ Near(f, t, Reduced(acc.docs[t], r), W, t)
        BY <2>1, Taken
  <2>3. AccOK(new) /\ Applies(acc, new, r, t, acc.docs[t])
        BY <1>2, <1>6, <1>7, <2>2, AppliesIs
  <2>4. Tracks(f, new, W, St, t)
        BY <1>2, <1>3, <1>5, <1>7, <2>2, <2>3, TrackTaken
  <2>5. QED BY <1>3, <2>3, <2>4 DEF Follows, Applies
<1>8. CASE t \notin acc.line
  <2>1. \A x \in acc.line : x <= t => ~ Covers(acc.docs[x], t)
    <3> SUFFICES ASSUME NEW x \in acc.line, x <= t PROVE ~ Covers(acc.docs[x], t)
        OBVIOUS
    <3>1. x \in f[t].line /\ x \in Time
          BY <1>1, <1>2, LineByNow
    <3>2. x # t /\ x \in f[t - 1].line /\ f[t].docs[x] = f[t - 1].docs[x]
          BY <1>3, <1>8, <3>1
    <3>3. ~ Covers(f[t].docs[x], t)
          BY <1>3, <3>2
    <3>4. QED BY <1>1, <1>5, <3>1, <3>2, <3>3, NearCloses
  <2>2. CASE DetectorStart(acc.line, acc.docs, r) = t
    <3>1. AccOK(new) /\ Applies(acc, new, r, t, Blank(t))
          BY <1>2, <1>6, <1>8, <2>2, AppliesIs
    <3>2. Near(f, t, Reduced(Blank(t), r), W, t)
      <4>1. Same(f[t].docs[t], f[t].docs[t])
            BY <1>1, <1>3, BlankIs, ReducedIs, SameIs
      <4>2. \A w \in W : w <= t
            BY StampOrder
      <4>3. NearAt(f, t, Reduced(Blank(t), r), W, t, t)
            BY <1>1, <1>3, <4>1, <4>2 DEF NearAt
      <4>4. QED BY <1>1, <4>3 DEF Near
    <3>3. Tracks(f, new, W, St, t)
          BY <1>2, <1>3, <1>5, <3>1, <3>2, TrackTaken
    <3>4. QED BY <1>3, <3>1, <3>3 DEF Follows, Applies
  <2>3. CASE DetectorStart(acc.line, acc.docs, r) # t
    <3>1. /\ NoneBy(acc.line, t) /\ acc.line # {}
          /\ DetectorStart(acc.line, acc.docs, r) = None
          BY <1>2, <1>3, <2>1, <2>3, StartIs DEF LastBy
    <3>2. new = acc
          BY <1>2, <3>1, AppliesIs
    <3>3. LostIn(acc.line, t)
      <4>1. \A x \in acc.line : t < x
            BY <1>1, <1>2, <3>1, StampOrder DEF NoneBy
      <4>2. QED BY <1>8, <3>1, <4>1 DEF LostIn
    <3>4. St # {}
      <4> SUFFICES ASSUME NEW x \in acc.line, x \notin St PROVE FALSE
          BY <3>1
      <4>1. x <= t - 1
            BY DEF Tracks
      <4>2. x <= t
            BY <1>2, <4>1, TimeBefore, StampOrder
      <4>3. QED BY <3>1, <4>2 DEF NoneBy
    <3>5. \A x \in acc.line : Near(f, x, acc.docs[x], W, t)
          BY <1>5, <1>8
    <3>6. Tracks(f, acc, W, St, t)
          BY <1>3, <3>3, <3>4, <3>5, TrackLeft
    <3>7. QED BY <1>2, <1>3, <1>8, <3>2, <3>6 DEF Follows
  <2>4. QED BY <2>2, <2>3
<1>9. QED BY <1>7, <1>8

\* The result of t belongs to no episode.
LEMMA TrackKeeps ==
  ASSUME NEW d, NEW R, NEW f, FoldSetup(f, d, R), NEW t \in Time, NEW W, W \subseteq Time,
         NEW St, NEW acc, Tracks(f, acc, W, St, t - 1),
         NEW r \in Result, r.window = t, NEW new, new = ApplyResult(acc, r),
         Keeps(f[t - 1], f[t], r)
  PROVE  Tracks(f, new, W, St, t) /\ Follows(f, acc, new, r, St)
<1>1. f[t] = f[t - 1] /\ r.grade # "breach" /\ t \in Stamp
      /\ \A x \in f[t].line : ~ Covers(f[t].docs[x], t)
      BY StampOrder DEF Keeps
<1>2. AccOK(acc) /\ acc.line \subseteq Time
      BY DEF AccOK, AccT, Tracks
<1>3. \A x \in acc.line : Near(f, x, acc.docs[x], W, t)
  <2> TAKE x \in acc.line
  <2>1. Near(f, x, acc.docs[x], W, t - 1) /\ x \in Time
        BY <1>2 DEF Tracks
  <2>2. QED BY <1>1, <2>1, NearBumps
<1>4. \A x \in acc.line : x <= t => ~ Covers(acc.docs[x], t)
  <2> SUFFICES ASSUME NEW x \in acc.line, x <= t PROVE ~ Covers(acc.docs[x], t)
      OBVIOUS
  <2>1. x \in f[t].line /\ x \in Time
        BY <1>1, <1>2, LineByNow
  <2>2. QED BY <1>1, <1>3, <2>1, NearCloses
<1>5. DetectorStart(acc.line, acc.docs, r) = None
      BY <1>1, <1>2, <1>4, StartIs DEF LastBy
<1>6. new = acc
      BY <1>2, <1>5, AppliesIs
<1>7. Tracks(f, acc, W, St, t)
      BY <1>1, <1>3, TrackLeft
<1>8. QED BY <1>1, <1>6, <1>7 DEF Follows

\* The cycle reads no result of t: there is none, or it is one of those the store
\* already knows, and an episode it begins is lost.
LEMMA TrackUnread ==
  ASSUME NEW d, NEW R, NEW f, FoldSetup(f, d, R), NEW t \in Time, NEW W, W \subseteq Time,
         NEW St, NEW acc, Tracks(f, acc, W, St, t - 1),
         \A c \in f[MaxTime].line \ St : (\A w \in W : w < c) \/ LostIn(St, c),
         f[t] = f[t - 1] \/ (t \in W /\ \E r \in Result : r.window = t /\ FoldSteps(f[t - 1], f[t], r))
  PROVE  Tracks(f, acc, W, St, t)
<1>1. acc.line \subseteq Time /\ St \subseteq acc.line
      BY DEF AccOK, AccT, Tracks
<1>2. CASE f[t] = f[t - 1]
  <2>1. \A x \in acc.line : Near(f, x, acc.docs[x], W, t)
    <3> TAKE x \in acc.line
    <3>1. Near(f, x, acc.docs[x], W, t - 1) /\ x \in Time
          BY <1>1 DEF Tracks
    <3>2. QED BY <1>2, <3>1, NearBumps
  <2>2. QED BY <1>2, <2>1, TrackLeft
<1>3. ASSUME t \in W, NEW r \in Result, r.window = t, FoldSteps(f[t - 1], f[t], r)
      PROVE  Tracks(f, acc, W, St, t)
  <2>1. acc.line = St
    <3> SUFFICES ASSUME NEW x \in acc.line, x \notin St PROVE FALSE
        BY <1>1
    <3>1. x <= t - 1 /\ t < x
          BY <1>3 DEF Tracks
    <3>2. QED BY <1>1, <3>1, BoundsAssumption DEF Time
  <2>2. \A x \in acc.line : Near(f, x, acc.docs[x], W, t)
    <3> TAKE x \in acc.line
    <3>1. PICK q \in Stamp : NearAt(f, x, acc.docs[x], W, t - 1, q)
          BY DEF Tracks, Near
    <3>2. t <= q
          BY <1>3, <3>1 DEF NearAt
    <3>3. QED BY <3>1, <3>2 DEF Near, NearAt
  <2>3. f[t].line \subseteq f[t - 1].line \cup {t}
        BY <1>3 DEF FoldSteps, Keeps, Opens, Continues, Applies
  <2>4. f[t].line \subseteq f[MaxTime].line
        BY TimeBefore, MaxIs, FoldLater DEF FoldSetup, Later
  <2>5. \A x \in f[t].line \ f[t - 1].line : x \in acc.line \/ (LostIn(acc.line, x) /\ St # {})
    <3> SUFFICES ASSUME t \in f[t].line, t \notin acc.line PROVE LostIn(acc.line, t) /\ St # {}
        BY <2>3
    <3>1. ~ (t < t)
          BY StampOrder
    <3>2. LostIn(St, t)
          BY <1>3, <2>1, <2>4, <3>1
    <3>3. QED BY <2>1, <3>2 DEF LostIn
  <2>6. QED BY <2>2, <2>5, TrackLeft
<1>4. QED BY <1>2, <1>3

LEMMA OwnersStep ==
  ASSUME NEW d, NEW R, NEW f, FoldSetup(f, d, R), NEW t \in Time, NEW S, S \subseteq R, NEW St,
         NEW acc, Owners(f, acc, S, d, St, t - 1),
         NEW r \in S, r.key = d, r.window = t, NEW new, Follows(f, acc, new, r, St)
  PROVE  Owners(f, new, S, d, St, t)
<1>1. f[MaxTime].owner[t] = f[t].owner[t]
  <2>1. Later(f[t], f[MaxTime], t) /\ t <= t
        BY TimeBefore, MaxIs, StampOrder, FoldLater DEF FoldSetup
  <2>2. QED BY <2>1 DEF Later
<1>2. acc.owner[t] = Never /\ \A w \in Time : t < w => w # t /\ acc.owner[w] = Never
  <2>1. \A w \in Time : t < w => t - 1 < w /\ w # t
        BY BoundsAssumption DEF Time
  <2>2. QED BY <2>1, TimeBefore DEF Owners
<1>3. ASSUME NEW s \in S, s.key = d, s.grade = "breach", s.window <= t
      PROVE  OwnerIs(f, new, St, s.window)
  <2>1. s.window \in Time
        BY DEF FoldSetup, OneAWindow, Result
  <2>2. CASE s.window = t
    <3>1. s = r
          BY <1>3, <2>2 DEF FoldSetup, OneAWindow
    <3>2. QED BY <1>1, <1>2, <1>3, <3>1 DEF Follows, OwnerIs
  <2>3. CASE s.window # t
    <3>1. s.window <= t - 1
          BY <1>3, <2>1, <2>3, TimeBefore, StampOrder
    <3>2. OwnerIs(f, acc, St, s.window)
          BY <1>3, <3>1 DEF Owners
    <3>3. new.owner[s.window] = acc.owner[s.window]
          BY <2>1, <2>3 DEF Follows
    <3>4. QED BY <3>2, <3>3 DEF OwnerIs
  <2>4. QED BY <2>2, <2>3
<1>4. \A w \in Time : t < w => new.owner[w] = Never
      BY <1>2 DEF Follows
<1>5. QED BY <1>3, <1>4 DEF Owners

\* The fold of a cycle follows that of every result to the end.
LEMMA FoldTracks ==
  ASSUME NEW d, NEW R, NEW f, FoldSetup(f, d, R), NEW S, S \subseteq R, NEW St, NEW W,
         W = {r.window : r \in {x \in R : x.key = d /\ x \notin S}},
         \A w \in W, r \in S : r.key = d => w < r.window,
         \A c \in f[MaxTime].line \ St : (\A w \in W : w < c) \/ LostIn(St, c),
         NEW g, \A t \in Time : g[t] = ApplyResults(g[t - 1], ResultsAt(S, d, t)),
         Tracks(f, g[Never], W, St, Never), \A w \in Time : g[Never].owner[w] = Never
  PROVE  /\ Tracks(f, g[MaxTime], W, St, MaxTime)
         /\ Owners(f, g[MaxTime], S, d, St, MaxTime)
<1> DEFINE Good(t) == Tracks(f, g[t], W, St, t) /\ Owners(f, g[t], S, d, St, t)
           G == {t \in Stamp : Good(t)}
<1>1. W \subseteq Time /\ OneAWindow(S) /\ OneAWindow(R)
      BY DEF FoldSetup, OneAWindow, Result
<1>2. Never \in G
  <2>1. \A r \in S : ~ (r.window <= Never)
        BY <1>1, StampOrder DEF OneAWindow, Result, Never, Time
  <2>2. QED BY <2>1 DEF Owners, Stamp
<1>3. ASSUME NEW t \in Time, t - 1 \in G PROVE t \in G
  <2>1. t \in Stamp /\ Tracks(f, g[t - 1], W, St, t - 1) /\ Owners(f, g[t - 1], S, d, St, t - 1)
        BY <1>3, TimeBefore
  <2>2. g[t] = ApplyResults(g[t - 1], ResultsAt(S, d, t))
        OBVIOUS
  <2>3. FoldStep(f, d, R, t)
        BY FoldIsExact DEF FoldSetup
  <2>4. ASSUME g[t] = g[t - 1], \A r \in S : r.key = d => r.window # t PROVE Good(t)
    <3>1. f[t] = f[t - 1]
          \/ (t \in W /\ \E r \in Result : r.window = t /\ FoldSteps(f[t - 1], f[t], r))
          BY <2>3, <2>4 DEF FoldStep
    <3>2. Tracks(f, g[t], W, St, t)
      <4>1. Tracks(f, g[t - 1], W, St, t)
            BY <1>1, <2>1, <3>1, TrackUnread
      <4>2. QED BY <2>4, <4>1
    <3>3. \A r \in S : r.key = d /\ r.window <= t => r.window <= t - 1
          BY <1>1, <2>4, TimeBefore, StampOrder DEF OneAWindow, Result
    <3>4. \A w \in Time : t < w => t - 1 < w
          BY BoundsAssumption DEF Time
    <3>5. QED BY <2>1, <2>4, <3>2, <3>3, <3>4 DEF Owners
  <2>5. ASSUME NEW r \in S, r.key = d, r.window = t, g[t] = ApplyResult(g[t - 1], r)
        PROVE  Good(t)
    <3>1. r \in Result /\ \A w \in W : w < t
          BY <1>1, <2>5 DEF OneAWindow
    <3>2. FoldSteps(f[t - 1], f[t], r)
          BY <1>1, <2>3, <2>5 DEF FoldStep, OneAWindow
    <3>3. Tracks(f, g[t], W, St, t) /\ Follows(f, g[t - 1], g[t], r, St)
          BY <1>1, <2>1, <2>5, <3>1, <3>2, TrackKeeps, TrackOpens, TrackContinues DEF FoldSteps
    <3>4. Owners(f, g[t], S, d, St, t)
          BY <2>1, <2>5, <3>3, OwnersStep
    <3>5. QED BY <3>3, <3>4
  <2> HIDE DEF Good
  <2>6. QED BY <1>1, <2>1, <2>2, <2>4, <2>5, WindowIs
<1>4. MaxTime \in G
  <2> HIDE DEF G
  <2>1. QED BY <1>2, <1>3, MaxIs, StampInduction
<1>5. QED BY <1>4

\* Two folds of the same results are the same, as far as the results are.
LEMMA FoldsAgree ==
  ASSUME NEW d, NEW R, NEW f, FoldOf(f, d, R), NEW Q, NEW h, FoldOf(h, d, Q), NEW n \in Stamp,
         \A t \in Time : t <= n => ResultsAt(R, d, t) = ResultsAt(Q, d, t)
  PROVE  \A t \in Stamp : t <= n => h[t] = f[t]
<1> DEFINE G == {t \in Stamp : t <= n => h[t] = f[t]}
<1>1. Never \in G
      BY DEF FoldOf, Stamp
<1>2. ASSUME NEW t \in Time, t - 1 \in G PROVE t \in G
  <2> SUFFICES ASSUME t <= n PROVE h[t] = f[t]
      BY TimeBefore
  <2>1. t - 1 <= n
        BY TimeBefore, StampOrder
  <2>2. QED BY <1>2, <2>1 DEF FoldOf
<1>3. Stamp \subseteq G
  <2> HIDE DEF G
  <2>1. QED BY <1>1, <1>2, StampInduction
<1>4. QED BY <1>3

\* After the last result a fold does not change.
LEMMA FoldStays ==
  ASSUME NEW d, NEW R, NEW f, FoldOf(f, d, R), NEW n \in Stamp,
         \A r \in R : r.key = d => r.window <= n
  PROVE  \A t \in Stamp : n <= t => f[t] = f[n]
<1> DEFINE G == {t \in Stamp : n <= t => f[t] = f[n]}
<1>1. Never \in G
  <2>1. n <= Never => n = Never
        BY StampOrder DEF Stamp
  <2>2. QED BY <2>1 DEF Stamp
<1>2. ASSUME NEW t \in Time, t - 1 \in G PROVE t \in G
  <2> SUFFICES ASSUME n <= t, n # t PROVE f[t] = f[n]
      BY TimeBefore
  <2>1. n <= t - 1 /\ n < t
        BY TimeBefore
  <2>2. ResultsAt(R, d, t) = {}
    <3> SUFFICES ASSUME NEW r \in R, r.key = d, r.window = t PROVE FALSE
        BY DEF ResultsAt
    <3>1. t <= n
          OBVIOUS
    <3>2. QED BY <2>1, <3>1, TimeBefore, StampOrder
  <2>3. f[t] = f[t - 1]
        BY <2>2 DEF FoldOf, ApplyResults
  <2>4. QED BY <1>2, <2>1, <2>3
<1>3. Stamp \subseteq G
  <2> HIDE DEF G
  <2>1. QED BY <1>1, <1>2, StampInduction
<1>4. QED BY <1>3

-----------------------------------------------------------------------------
(***************************************************************************)
(* What is stored of a detector, and what a cycle writes.                  *)
(***************************************************************************)
Kan(d) == CHOOSE f : FoldOf(f, d, results)
Fin(d) == Kan(d)[MaxTime]

\* The windows of results that no cycle reads again.
Old(d) == {r.window : r \in {x \in results : x.key = d /\ x \notin Scanned}}

ResultsInTurn ==
  \A r, s \in results : r.key = s.key /\ r.window < s.window => r.exec <= s.exec

\* A stored document is that of the fold at some moment, the results no cycle
\* reads again among what it has read; an episode that is missing begins after
\* those, or before every one that is stored and is lost.
Missing(d, line, c) == (\A w \in Old(d) : w < c) \/ LostIn(line, c)
StoreOK(d) ==
  /\ Starts(d) \subseteq Fin(d).line
  /\ \A c \in Starts(d) : Near(Kan(d), c, store[<<d, c>>], Old(d), Never)
  /\ \A c \in Fin(d).line \ Starts(d) : Missing(d, Starts(d), c)

\* With what the cycle is about to write, every document is that of the fold, and
\* an episode that is missing is lost.
Lasting(d) == {t \in Time : After(d, t) # None}
AfterOK(d) ==
  /\ \A c \in Lasting(d) : c \in Fin(d).line /\ Same(After(d, c), Fin(d).docs[c])
  /\ \A c \in Fin(d).line : c \in Lasting(d) \/ (LostIn(Lasting(d), c) /\ Starts(d) # {})
  /\ \A c \in Lasting(d) \ Starts(d) : \A w \in Old(d) : w < c

\* A signal names the episode the fold gives its result, or none; a row names
\* none only when the episode is not stored.
HasResult(d, w) == \E r \in results : r.key = d /\ r.window = w
Names(d, w, row) == row = <<d, Never>> \/ row = <<d, Fin(d).owner[w]>>
SignalOK(d) ==
  \A w \in Time :
    /\ signals[<<d, w>>] # None => HasResult(d, w) /\ Names(d, w, signals[<<d, w>>])
    /\ rows[<<d, w>>] # None =>
         /\ HasResult(d, w) /\ Names(d, w, rows[<<d, w>>])
         /\ pc = "signals" /\ Fin(d).owner[w] \in Starts(d) =>
              rows[<<d, w>>] = <<d, Fin(d).owner[w]>>

NoStartless(d) == store[<<d, Never>>] = None /\ incidents[<<d, Never>>] = None

ExactInv(d) ==
  /\ StoreOK(d) /\ SignalOK(d) /\ NoStartless(d)
  /\ pc \notin {"idle", "history", "project"} => AfterOK(d)

LEMMA KanIs ==
  ASSUME Base, NEW d
  PROVE  /\ FoldSetup(Kan(d), d, results) /\ FoldOf(Kan(d), d, results)
         /\ \A t \in Stamp : Exact(Kan(d)[t], t)
         /\ AccOK(Fin(d)) /\ Fin(d).line \subseteq Time
<1>1. FoldOf(Kan(d), d, results)
      BY FoldExists DEF Kan
<1>2. OneAWindow(results)
      BY DEF Base, TypeOK, ResultsInOrder, OneAWindow
<1>3. FoldSetup(Kan(d), d, results)
      BY <1>1, <1>2 DEF FoldSetup
<1>4. \A t \in Stamp : Exact(Kan(d)[t], t)
      BY <1>1, <1>2, FoldIsExact
<1>5. QED BY <1>1, <1>3, <1>4, MaxIs DEF Fin, Exact, AccOK, AccT

\* The hypotheses: the results of a detector come in the order of their windows and
\* within the overlap, and no cycle takes a failed timeline query for no episodes.
InWindowOrder == InOrder /\ Lag <= EvidenceOverlap /\ "timelines" \notin Faults

\* What a cycle folds, when it does not lose the names of d.
LEMMA CycleFolds ==
  ASSUME Base, NEW d \in Detector, NEW lost, "timelines" \notin lost,
         "names" \in lost => \A r \in Scanned : r.key # d
  PROVE  \E g : /\ FoldedOf(lost)[d] = g[MaxTime]
                /\ \A t \in Time : g[t] = ApplyResults(g[t - 1], ResultsAt(Scanned, d, t))
                /\ Begins(g[Never], d, Starts(d))
<1>1. FoldedOf(lost)[d] = Applied(d, Starts(d), Named(lost))
      BY DEF FoldedOf, Loaded
<1>2. PICK g : AppliedBy(g, d, Starts(d), Named(lost))
               /\ Applied(d, Starts(d), Named(lost)) = g[MaxTime]
      BY AppliedFold
<1>3. \A t : ResultsAt(Named(lost), d, t) = ResultsAt(Scanned, d, t)
      BY DEF Named, ResultsAt
<1>4. Begins(g[Never], d, Starts(d))
      BY <1>2, AppliedBegins DEF Base
<1>5. QED BY <1>1, <1>2, <1>3, <1>4 DEF AppliedBy

LEMMA CycleTracks ==
  ASSUME Base, ResultsInTurn, NEW d \in Detector, StoreOK(d), NEW lost, "timelines" \notin lost,
         "names" \in lost => \A r \in Scanned : r.key # d
  PROVE  /\ Tracks(Kan(d), FoldedOf(lost)[d], Old(d), Starts(d), MaxTime)
         /\ Owners(Kan(d), FoldedOf(lost)[d], Scanned, d, Starts(d), MaxTime)
<1>1. PICK g : /\ FoldedOf(lost)[d] = g[MaxTime]
               /\ \A t \in Time : g[t] = ApplyResults(g[t - 1], ResultsAt(Scanned, d, t))
               /\ Begins(g[Never], d, Starts(d))
      BY CycleFolds
<1>2. FoldSetup(Kan(d), d, results) /\ Kan(d)[Never] = Empty
      BY KanIs DEF FoldOf
<1>3. Tracks(Kan(d), g[Never], Old(d), Starts(d), Never)
  <2>1. Kan(d)[Never].line = {}
        BY <1>2 DEF Empty
  <2>2. AccOK(g[Never]) /\ g[Never].line = Starts(d)
        /\ \A t \in Starts(d) : g[Never].docs[t] = store[<<d, t>>]
        BY <1>1 DEF Begins
  <2>3. QED BY <2>1, <2>2 DEF Tracks, StoreOK, Fin
<1>4. \A w \in Old(d), r \in Scanned : r.key = d => w < r.window
  <2> SUFFICES ASSUME NEW x \in results, x.key = d, x \notin Scanned,
                      NEW r \in Scanned, r.key = d
               PROVE  x.window < r.window
      BY DEF Old
  <2>1. r \in results /\ r.exec >= EvidenceFloor /\ ~ (x.exec >= EvidenceFloor)
        BY DEF Scanned
  <2>2. /\ x.window \in Stamp /\ r.window \in Stamp /\ x.exec \in Stamp /\ r.exec \in Stamp
        BY <2>1, StampOrder DEF Base, TypeOK, Result
  <2>3. EvidenceFloor \in Stamp
        BY LowerFacts, BoundsAssumption DEF EvidenceFloor, Base, TypeOK, Lanes
  <2>4. ~ (r.exec <= x.exec)
        BY <2>1, <2>2, <2>3, StampOrder
  <2>5. ~ (r.window < x.window) /\ r.window # x.window
        BY <2>1, <2>4 DEF ResultsInTurn, Base, ResultsInOrder
  <2>6. QED BY <2>2, <2>5, StampOrder
<1>5. /\ \A w \in Time : g[Never].owner[w] = Never
      /\ Scanned \subseteq results
      BY <1>1 DEF Begins, Scanned
<1>6. \A c \in Kan(d)[MaxTime].line \ Starts(d) :
        (\A w \in Old(d) : w < c) \/ LostIn(Starts(d), c)
      BY DEF StoreOK, Missing, Fin
<1> DEFINE acc == FoldedOf(lost)[d]
<1> HIDE DEF acc
<1>7. Old(d) = {r.window : r \in {x \in results : x.key = d /\ x \notin Scanned}}
      BY DEF Old
<1>8. Tracks(Kan(d), g[MaxTime], Old(d), Starts(d), MaxTime)
      /\ Owners(Kan(d), g[MaxTime], Scanned, d, Starts(d), MaxTime)
      BY <1>1, <1>2, <1>3, <1>4, <1>5, <1>6, <1>7, FoldTracks
<1>9. QED BY <1>1, <1>8

LEMMA FoldUnchanged ==
  ASSUME results' = results, NEW d
  PROVE  /\ Kan(d)' = Kan(d) /\ Fin(d)' = Fin(d)
         /\ \A w : HasResult(d, w)' <=> HasResult(d, w)
         /\ mark'.anomalies = mark.anomalies => Old(d)' = Old(d) /\ Scanned' = Scanned
<1>1. Kan(d)' = Kan(d)
      BY DEF Kan
<1>2. mark'.anomalies = mark.anomalies => Scanned' = Scanned
      BY DEF Scanned, EvidenceFloor
<1>3. QED BY <1>1, <1>2 DEF Fin, HasResult, Old

\* What a cycle is about to write of d, document by document.
LEMMA ProjectDocs ==
  ASSUME Base, NEW d \in Detector, NEW lost \in SUBSET Faults, "timelines" \notin Faults, Project,
         incidents' = [e \in Episode |-> IncidentOf(lost, RunsOf(lost), FoldedOf(lost), e)],
         NEW t \in Time, AccOK(FoldedOf(lost)[d]), Starts(d) \subseteq FoldedOf(lost)[d].line
  PROVE  LET acc == FoldedOf(lost)[d]
         IN /\ t \in acc.line => After(d, t)' \in Doc /\ Same(After(d, t)', acc.docs[t])
            /\ t \notin acc.line => After(d, t)' = None
            /\ Sent(d, t)' => t \in acc.line
            /\ t \in acc.touched \/ t = Prior(lost, d) => Sent(d, t)'
            /\ t \in acc.line \ acc.touched => t \in Starts(d) /\ store[<<d, t>>] = acc.docs[t]
<1> DEFINE acc == FoldedOf(lost)[d]
<1>1. /\ store' = store /\ d \in Key /\ d \notin Monitor /\ TypeOK /\ <<d, t>> \in Episode
      BY ProjectIs, InputsAssumption, StampOrder DEF Key, Base, Episode
<1>2. incidents'[<<d, t>>] = IncidentOf(lost, RunsOf(lost), FoldedOf(lost), <<d, t>>)
      BY <1>1
<1>3. /\ Loaded(lost, d) = Starts(d) /\ Named(lost) \subseteq results
      /\ acc = Applied(d, Loaded(lost, d), Named(lost))
      BY LoadedTyped DEF Base, FoldedOf, Loaded
<1>4. Untouched(acc, d, Starts(d))
      BY <1>3, UntouchedIsRead
<1>5. /\ t \in acc.line \ acc.touched => t \in Starts(d) /\ store[<<d, t>>] = acc.docs[t]
      /\ acc.touched \subseteq acc.line /\ acc.line \subseteq Time
      /\ \A x \in acc.line : acc.docs[x] \in Doc
      BY <1>4 DEF Untouched, AccOK, AccT
<1>6. t \in Starts(d) <=> store[<<d, t>>] # None
      BY DEF Starts
<1>7. Prior(lost, d) # None => Prior(lost, d) \in Starts(d)
      BY <1>1, PriorIs
<1>8. t # None
      BY InputsAssumption, StampOrder
<1>9. After(d, t)' = IF incidents'[<<d, t>>] # None THEN incidents'[<<d, t>>] ELSE store[<<d, t>>]
      BY <1>1 DEF After, Sent
<1>10. \/ t \in acc.touched /\ incidents'[<<d, t>>] = Aged(acc.docs[t])
       \/ t \notin acc.touched /\ t = Prior(lost, d) /\ incidents'[<<d, t>>] = Aged(store[<<d, t>>])
       \/ t \notin acc.touched /\ t # Prior(lost, d) /\ incidents'[<<d, t>>] = None
       BY <1>1, <1>2, IncidentIs
<1> HIDE DEF acc
<1>11. ASSUME NEW doc \in Doc PROVE Aged(doc) \in Doc /\ Aged(doc) # None /\ Same(Aged(doc), doc)
       BY AgedKeeps, InputsAssumption DEF Same
<1>12. CASE t \in acc.touched
  <2>1. t \in acc.line /\ acc.docs[t] \in Doc /\ incidents'[<<d, t>>] = Aged(acc.docs[t])
        BY <1>5, <1>10, <1>12
  <2>2. QED BY <1>9, <1>11, <1>12, <2>1 DEF acc, Sent
<1>13. CASE t \notin acc.touched /\ t = Prior(lost, d)
  <2>1. t \in Starts(d) /\ t \in acc.line
        BY <1>7, <1>8, <1>13 DEF acc
  <2>2. store[<<d, t>>] = acc.docs[t] /\ acc.docs[t] \in Doc
        BY <1>5, <1>13, <2>1
  <2>3. incidents'[<<d, t>>] = Aged(acc.docs[t])
        BY <1>10, <1>13, <2>2
  <2>4. QED BY <1>9, <1>11, <1>13, <2>1, <2>2, <2>3 DEF acc, Sent
<1>14. CASE t \notin acc.touched /\ t # Prior(lost, d)
  <2>1. incidents'[<<d, t>>] = None /\ After(d, t)' = store[<<d, t>>]
        BY <1>9, <1>10, <1>14
  <2>2. t \notin acc.line => store[<<d, t>>] = None
        BY <1>6 DEF acc
  <2>3. t \in acc.line => acc.docs[t] \in Doc /\ store[<<d, t>>] = acc.docs[t] /\ t \in Starts(d)
        BY <1>5, <1>14
  <2>4. QED BY <1>14, <2>1, <2>2, <2>3, SameIs DEF acc, Sent
<1>15. QED BY <1>12, <1>13, <1>14

\* At the end of the fold a cycle has what the fold of every result has.
LEMMA TracksAtEnd ==
  ASSUME Base, NEW d, NEW acc, NEW W, NEW St, Tracks(Kan(d), acc, W, St, MaxTime)
  PROVE  /\ \A c \in acc.line : Same(acc.docs[c], Fin(d).docs[c])
         /\ \A c \in acc.line, x \in Fin(d).line : IsOpen(acc.docs[c]) => x <= c
<1>1. ASSUME NEW c \in acc.line PROVE Same(acc.docs[c], Fin(d).docs[c])
  <2>1. PICK q \in Stamp : NearAt(Kan(d), c, acc.docs[c], W, MaxTime, q)
        BY DEF Tracks, Near
  <2>2. q = MaxTime
        BY <2>1, MaxIs, StampOrder DEF NearAt
  <2>3. QED BY <2>1, <2>2 DEF NearAt, Fin
<1>2. ASSUME NEW c \in acc.line, NEW x \in Fin(d).line, IsOpen(acc.docs[c]) PROVE x <= c
  <2>1. c \in Fin(d).line /\ InLine(Fin(d), MaxTime) /\ c \in Stamp /\ x \in Stamp
        BY KanIs, MaxIs, StampOrder DEF Tracks, Fin, Exact
  <2>2. IsOpen(Fin(d).docs[c])
        BY <1>1, <1>2, SameReads
  <2>3. QED BY <2>1, <2>2, StampOrder DEF InLine, Covers
<1>3. QED BY <1>1, <1>2

\* What the cycle projects for a detector whose names it has.
ProjectedOf(lost) ==
  /\ lost \in SUBSET Faults
  /\ incidents' = [e \in Episode |-> IncidentOf(lost, RunsOf(lost), FoldedOf(lost), e)]
  /\ rows' = [s \in Source |-> RowOf(lost, RunsOf(lost), FoldedOf(lost), s)]
  /\ unnamed' = unnamed \cup {<<r.key, r.window>> : r \in Scanned \ Named(lost)}

LEMMA ProjectNamed ==
  ASSUME Base, NEW d \in Detector, NEW lost, ProjectedOf(lost), d \notin Nameless'
  PROVE  "names" \in lost => \A r \in Scanned : r.key # d
<1> SUFFICES ASSUME "names" \in lost, NEW r \in Scanned, r.key = d PROVE FALSE
    OBVIOUS
<1>1. <<r.key, r.window>> \in unnamed'
      BY DEF ProjectedOf, Named
<1>2. <<r.key, r.window>>[1] = d
      OBVIOUS
<1>3. QED BY <1>1, <1>2 DEF Nameless

LEMMA ProjectAfter ==
  ASSUME Base, NEW d \in Detector, NEW lost, ProjectedOf(lost), "timelines" \notin Faults, Project,
         Tracks(Kan(d), FoldedOf(lost)[d], Old(d), Starts(d), MaxTime)
  PROVE  AfterOK(d)' /\ LastOpen(d)'
<1> DEFINE acc == FoldedOf(lost)[d]
<1>1. /\ AccOK(acc) /\ Starts(d) \subseteq acc.line /\ acc.line \subseteq Fin(d).line
      /\ acc.line \subseteq Time
      BY KanIs DEF Tracks, Fin, AccOK, AccT
<1>2. /\ UNCHANGED <<store, results, mark>> /\ lost \in SUBSET Faults
      /\ incidents' = [e \in Episode |-> IncidentOf(lost, RunsOf(lost), FoldedOf(lost), e)]
      BY ProjectIs DEF ProjectedOf
<1>3. ASSUME NEW t \in Time
      PROVE  /\ t \in acc.line => After(d, t)' \in Doc /\ Same(After(d, t)', acc.docs[t])
             /\ t \notin acc.line => After(d, t)' = None
             /\ Sent(d, t)' => t \in acc.line
             /\ t \in acc.touched \/ t = Prior(lost, d) => Sent(d, t)'
             /\ t \in acc.line \ acc.touched => t \in Starts(d) /\ store[<<d, t>>] = acc.docs[t]
      BY <1>1, <1>2, ProjectDocs
<1>4. /\ \A c \in acc.line : Same(acc.docs[c], Fin(d).docs[c])
      /\ \A c \in acc.line, x \in Fin(d).line : IsOpen(acc.docs[c]) => x <= c
      BY TracksAtEnd
<1>5. /\ \A c \in Fin(d).line : c \in acc.line \/ (LostIn(acc.line, c) /\ Starts(d) # {})
      /\ \A c \in acc.line \ Starts(d) : \A w \in Old(d) : w < c
      BY DEF Tracks, Fin
<1>6. Fin(d)' = Fin(d) /\ Old(d)' = Old(d) /\ Starts(d)' = Starts(d)
      BY <1>2, FoldUnchanged DEF Starts
<1> HIDE DEF acc
<1>7. ASSUME NEW t \in Time, t \in acc.line
      PROVE  /\ After(d, t)' \in Doc /\ After(d, t)' # None
             /\ Same(After(d, t)', Fin(d).docs[t])
             /\ IsOpen(After(d, t)') <=> IsOpen(acc.docs[t])
  <2> DEFINE x == After(d, t)'
  <2>1. x \in Doc /\ Same(x, acc.docs[t]) /\ Same(acc.docs[t], Fin(d).docs[t])
        BY <1>3, <1>4, <1>7
  <2> HIDE DEF x
  <2>2. x # None /\ Same(x, Fin(d).docs[t])
        BY <2>1, SameIs, OpenIs
  <2>3. IsOpen(x) <=> IsOpen(acc.docs[t])
        BY <2>1, SameReads
  <2>4. QED BY <2>1, <2>2, <2>3 DEF x
<1>8. Lasting(d)' = acc.line
  <2>1. \A t \in Time : After(d, t)' # None <=> t \in acc.line
        BY <1>3, <1>7
  <2>2. QED BY <1>1, <2>1 DEF Lasting
<1>9. AfterOK(d)'
  <2>1. \A c \in acc.line : c \in Fin(d).line /\ Same(After(d, c)', Fin(d).docs[c])
        BY <1>1, <1>7
  <2>2. QED BY <1>5, <1>6, <1>8, <2>1 DEF AfterOK
<1>10. LastOpen(d)'
  <2> SUFFICES ASSUME NEW t \in Time, IsOpen(After(d, t)')
               PROVE  Sent(d, t)' /\ \A u \in Time : Sent(d, u)' => u <= t
      BY DEF LastOpen
  <2>1. t \in acc.line /\ IsOpen(acc.docs[t])
        BY <1>3, <1>7 DEF IsOpen
  <2>2. \A u \in acc.line : u <= t
        BY <1>1, <1>4, <2>1
  <2>3. CASE t \in acc.touched
        BY <1>3, <2>2, <2>3
  <2>4. CASE t \notin acc.touched
    <3>1. t \in Starts(d) /\ IsOpen(store[<<d, t>>])
          BY <1>3, <2>1, <2>4
    <3>2. Latest(d) = t
      <4>1. /\ Latest(d) \in Starts(d) /\ \A u \in Starts(d) : u <= Latest(d)
            /\ Starts(d) \subseteq Time
            BY <3>1, Stored DEF Base, Key
      <4>2. Latest(d) <= t /\ t <= Latest(d) /\ Latest(d) \in Stamp /\ t \in Stamp
            BY <1>1, <2>2, <3>1, <4>1, StampOrder
      <4>3. QED BY <4>2, StampOrder
    <3>3. Prior(lost, d) = t
      <4>1. Timeline(lost, d) = Starts(d)
            BY <1>2 DEF Timeline
      <4>2. QED BY <3>1, <3>2, <4>1 DEF Prior
    <3>4. QED BY <1>3, <2>2, <3>3
  <2>5. QED BY <2>3, <2>4
<1>11. QED BY <1>9, <1>10

LEMMA ProjectRows ==
  ASSUME Base, NEW d \in Detector, NEW lost, ProjectedOf(lost), Project, SignalOK(d),
         Tracks(Kan(d), FoldedOf(lost)[d], Old(d), Starts(d), MaxTime),
         Owners(Kan(d), FoldedOf(lost)[d], Scanned, d, Starts(d), MaxTime)
  PROVE  SignalOK(d)'
<1> DEFINE acc == FoldedOf(lost)[d]
<1>1. UNCHANGED <<store, results, mark, signals>>
      BY ProjectIs
<1>2. /\ Fin(d)' = Fin(d) /\ Starts(d)' = Starts(d)
      /\ \A w : HasResult(d, w)' <=> HasResult(d, w)
      BY <1>1, FoldUnchanged DEF Starts
<1>3. \A w, row : Names(d, w, row)' <=> Names(d, w, row)
      BY <1>2 DEF Names
<1> SUFFICES ASSUME NEW w \in Time, rows'[<<d, w>>] # None
             PROVE  /\ HasResult(d, w) /\ Names(d, w, rows'[<<d, w>>])
                    /\ Fin(d).owner[w] \in Starts(d) => rows'[<<d, w>>] = <<d, Fin(d).owner[w]>>
    BY <1>1, <1>2, <1>3 DEF SignalOK
<1> DEFINE s == <<d, w>>
<1>4. s \in Reading /\ s \in Source /\ s[1] = d /\ s[2] = w /\ s \notin current \cup past
      BY InputsAssumption DEF Reading, Source, Base, TypeOK
<1>5. rows'[s] = RowOf(lost, RunsOf(lost), FoldedOf(lost), s)
      BY <1>4 DEF ProjectedOf
<1> HIDE DEF s
<1>6. w \in BreachedAt(lost, d) /\ rows'[s] = <<d, acc.owner[w]>>
      BY <1>4, <1>5 DEF RowOf, s
<1>7. PICK r \in Scanned : r.key = d /\ r.grade = "breach" /\ r.window = w
      BY <1>6 DEF BreachedAt, Named
<1>8. OwnerIs(Kan(d), acc, Starts(d), w)
      BY <1>7, MaxIs, StampOrder DEF Owners
<1>9. HasResult(d, w)
      BY <1>7 DEF HasResult, Scanned
<1>10. QED BY <1>6, <1>8, <1>9 DEF OwnerIs, Names, Fin, s

LEMMA ProjectExact ==
  ASSUME Base, ResultsInTurn, NEW d \in Detector, ExactInv(d), "timelines" \notin Faults, Project,
         d \notin Nameless'
  PROVE  ExactInv(d)' /\ LastOpen(d)'
<1>1. PICK lost : ProjectedOf(lost)
      BY ProjectIs DEF ProjectedOf
<1>2. "timelines" \notin lost /\ ("names" \in lost => \A r \in Scanned : r.key # d)
      BY <1>1, ProjectNamed DEF ProjectedOf
<1>3. StoreOK(d) /\ SignalOK(d) /\ NoStartless(d)
      BY DEF ExactInv
<1>4. /\ Tracks(Kan(d), FoldedOf(lost)[d], Old(d), Starts(d), MaxTime)
      /\ Owners(Kan(d), FoldedOf(lost)[d], Scanned, d, Starts(d), MaxTime)
      BY <1>2, <1>3, CycleTracks
<1>5. AfterOK(d)' /\ LastOpen(d)' /\ SignalOK(d)'
      BY <1>1, <1>3, <1>4, ProjectAfter, ProjectRows
<1>6. UNCHANGED <<store, results, mark>>
      BY ProjectIs
<1>7. StoreOK(d)'
  <2>1. /\ Kan(d)' = Kan(d) /\ Fin(d)' = Fin(d) /\ Starts(d)' = Starts(d) /\ Old(d)' = Old(d)
        BY <1>6, FoldUnchanged DEF Starts
  <2>2. QED BY <1>3, <1>6, <2>1 DEF StoreOK, Missing
<1>8. NoStartless(d)'
  <2>1. d \in Key /\ d \notin Monitor /\ <<d, Never>> \in Episode /\ TypeOK
        BY InputsAssumption DEF Key, Episode, Stamp, Base
  <2>2. incidents'[<<d, Never>>] = IncidentOf(lost, RunsOf(lost), FoldedOf(lost), <<d, Never>>)
        BY <1>1, <2>1 DEF ProjectedOf
  <2>3. Never \notin Time /\ Never # None
        BY BoundsAssumption, InputsAssumption DEF Time, Never, Stamp
  <2>4. Never \notin FoldedOf(lost)[d].touched
        BY <1>4, <2>3 DEF Tracks, AccOK, AccT
  <2>5. Prior(lost, d) # Never
        BY <2>1, <2>3, PriorIs, Stored
  <2>6. incidents'[<<d, Never>>] = None
        BY <2>1, <2>2, <2>4, <2>5, IncidentIs
  <2>7. QED BY <1>3, <1>6, <2>6 DEF NoStartless
<1>9. QED BY <1>5, <1>7, <1>8 DEF ExactInv

\* More results, all of them later than the ones there were.
Grown(f, h, n) ==
  /\ f[MaxTime].line \subseteq h[MaxTime].line
  /\ \A c \in h[MaxTime].line : c \in f[MaxTime].line \/ n < c
  /\ \A w \in Time : w <= n => h[MaxTime].owner[w] = f[MaxTime].owner[w]
  /\ \A c, doc, W : (\A w \in W : w <= n) /\ Near(f, c, doc, W, Never)
                    => Near(h, c, doc, W, Never)

LEMMA FoldGrows ==
  ASSUME NEW d, NEW R, OneAWindow(R), NEW f, FoldOf(f, d, R),
         NEW Q, OneAWindow(Q), NEW h, FoldOf(h, d, Q), NEW n \in Stamp,
         \A t \in Time : t <= n => ResultsAt(R, d, t) = ResultsAt(Q, d, t),
         \A r \in R : r.key = d => r.window <= n
  PROVE  Grown(f, h, n)
<1>1. n <= MaxTime /\ MaxTime \in Stamp
      BY MaxIs
<1>2. \A t \in Stamp : t <= n => h[t] = f[t]
      BY FoldsAgree
<1>3. \A t \in Stamp : n <= t => f[t] = f[n]
      BY FoldStays
<1>4. f[MaxTime] = h[n]
      BY <1>1, <1>2, <1>3, StampOrder
<1>5. Later(h[n], h[MaxTime], n)
      BY <1>1, FoldLater
<1>6. h[MaxTime].line \subseteq Time
      BY <1>1, FoldIsExact DEF Exact, AccOK, AccT
<1>7. ASSUME NEW c, NEW doc, NEW W, \A w \in W : w <= n, Near(f, c, doc, W, Never)
      PROVE  Near(h, c, doc, W, Never)
  <2>1. PICK q \in Stamp : NearAt(f, c, doc, W, Never, q)
        BY <1>7 DEF Near
  <2>2. CASE q <= n
    <3>1. h[q] = f[q]
          BY <1>2, <2>2
    <3>2. NearAt(h, c, doc, W, Never, q)
          BY <2>1, <3>1 DEF NearAt
    <3>3. QED BY <3>2 DEF Near
  <2>3. CASE n <= q
    <3>1. f[q] = f[n] /\ h[n] = f[n]
          BY <1>2, <1>3, <2>3, StampOrder
    <3>2. c \in f[n].line /\ InLine(f[n], n)
          BY <2>1, <3>1, FoldIsExact DEF NearAt, Exact
    <3>3. c <= n /\ Never <= n
          BY <3>2, StampOrder DEF InLine
    <3>4. NearAt(h, c, doc, W, Never, n)
          BY <1>7, <2>1, <3>1, <3>2, <3>3 DEF NearAt
    <3>5. QED BY <3>4 DEF Near
  <2>4. QED BY <2>2, <2>3, StampOrder
<1>8. ASSUME NEW c \in h[MaxTime].line PROVE c \in f[MaxTime].line \/ n < c
  <2>1. c <= n \/ n < c
        BY <1>6, StampOrder
  <2>2. QED BY <1>4, <1>5, <2>1 DEF Later
<1>9. QED BY <1>4, <1>5, <1>7, <1>8 DEF Later, Grown

\* A result that has become searchable.
NewResult(new) ==
  /\ new \in Result /\ results' = results \cup {new} /\ EvidenceFloor <= new.exec
  /\ \A r \in results : r.key = new.key => r.window < new.window /\ r.exec <= new.exec

LEMMA EvaluateIs ==
  ASSUME Base, InWindowOrder, NEW e \in Detector, Evaluate(e)
  PROVE  \E new : NewResult(new)
<1>1. PICK exec \in Lower(now, Lag) .. now, window \in Time,
           grade \in {"breach", "unclear", "healthy"} :
        /\ exec >= 0 /\ window <= exec
        /\ \A r \in results : r.key = e =>
             r.window # window /\ (InOrder => r.window < window /\ r.exec <= exec)
        /\ results' = results \cup {[key |-> e, window |-> window,
                                     grade |-> grade, exec |-> exec]}
      BY DEF Evaluate
<1> DEFINE new == [key |-> e, window |-> window, grade |-> grade, exec |-> exec]
<1>2. now \in Stamp /\ mark.anomalies \in Stamp /\ mark.anomalies <= now /\ now \in Time
      BY StampOrder DEF Base, TypeOK, Lanes, Snapshots
<1>3. Lag \in Nat /\ EvidenceOverlap \in Nat /\ Lag <= EvidenceOverlap
      BY BoundsAssumption DEF InWindowOrder
<1>4. /\ Lower(now, Lag) \in Stamp /\ EvidenceFloor \in Stamp
      /\ EvidenceFloor <= Lower(now, Lag)
  <2>1. mark.anomalies \in Int /\ now \in Int
        BY <1>2, BoundsAssumption DEF Stamp, Time, Never
  <2>2. EvidenceFloor <= Lower(now, Lag)
        BY <1>2, <1>3, <2>1 DEF Lower, Never, EvidenceFloor
  <2>3. QED BY <1>2, <1>3, <2>2, LowerFacts DEF EvidenceFloor
<1>5. exec \in Time /\ EvidenceFloor <= exec
      BY <1>1, <1>2, <1>4, BoundsAssumption DEF Stamp, Time, Never
<1>6. new \in Result /\ new.key = e /\ new.window = window /\ new.exec = exec
      BY <1>1, <1>5 DEF Result
<1>7. NewResult(new)
      BY <1>1, <1>5, <1>6 DEF NewResult, InWindowOrder
<1>8. QED BY <1>7

LEMMA ResultsMove ==
  ASSUME Base, InWindowOrder, [Next]_vars
  PROVE  results' = results \/ \E new : NewResult(new)
<1>1. results' = results \/ \E e \in Detector : Evaluate(e)
      BY DEF Next, Environment, Cycle, Failure, Tick, Start, Complete, Refresh,
         ReadCurrent, ReadHistory, Project, WriteSignals, WriteIncidents, WriteHistoryMark,
         WriteAnomalyMark, Push, Abort, SomeSignals, SomeIncidents, env, vars
<1>2. QED BY <1>1, EvaluateIs

LEMMA StepInTurn ==
  ASSUME Base, ResultsInTurn, InWindowOrder, [Next]_vars
  PROVE  ResultsInTurn'
<1>1. CASE results' = results
      BY <1>1 DEF ResultsInTurn
<1>2. ASSUME NEW new, NewResult(new) PROVE ResultsInTurn'
  <2> SUFFICES ASSUME NEW r \in results', NEW s \in results', r.key = s.key, r.window < s.window
               PROVE  r.exec <= s.exec
      BY DEF ResultsInTurn
  <2>1. r \in results \cup {new} /\ s \in results \cup {new} /\ r \in Result /\ s \in Result
        BY <1>2 DEF NewResult, Base, TypeOK
  <2>2. ~ (s.window < r.window) /\ r # s
    <3>1. r.window \in Stamp /\ s.window \in Stamp
          BY <2>1, StampOrder DEF Result
    <3>2. QED BY <3>1, StampOrder
  <2>3. QED BY <1>2, <2>1, <2>2 DEF ResultsInTurn, NewResult
<1>3. QED BY <1>1, <1>2, ResultsMove

\* What comes of new results, when nothing else moves.
LEMMA GrowExact ==
  ASSUME Base, Base', NEW d \in Detector, ExactInv(d),
         UNCHANGED <<store, signals, mark, rows, incidents>>,
         pc' \in {"idle", "history", "project"},
         results \subseteq results', NEW n \in Stamp,
         \A r \in results : r.key = d => r.window <= n,
         \A r \in results' \ results : r.key = d => n < r.window /\ EvidenceFloor <= r.exec
  PROVE  ExactInv(d)'
<1> DEFINE f == Kan(d)
           h == Kan(d)'
<1>1. FoldOf(f, d, results) /\ OneAWindow(results)
      BY KanIs DEF FoldSetup
<1>2. OneAWindow(results')
      BY DEF Base, TypeOK, ResultsInOrder, OneAWindow
<1>3. h = CHOOSE x : FoldOf(x, d, results')
      BY DEF Kan
<1>4. FoldOf(h, d, results')
      BY <1>3, FoldExists
<1>5. /\ \A r \in results' : r.window \in Stamp /\ r.exec \in Stamp
      /\ EvidenceFloor \in Stamp /\ EvidenceFloor' = EvidenceFloor
  <2>1. \A r \in results' : r.window \in Stamp /\ r.exec \in Stamp
        BY StampOrder DEF Base, TypeOK, Result
  <2>2. EvidenceFloor \in Stamp
        BY LowerFacts, BoundsAssumption DEF EvidenceFloor, Base, TypeOK, Lanes
  <2>3. QED BY <2>1, <2>2 DEF EvidenceFloor
<1>6. ASSUME NEW t \in Time, t <= n PROVE ResultsAt(results, d, t) = ResultsAt(results', d, t)
  <2>1. \A r \in results' \ results : ~ (r.key = d /\ r.window = t)
        BY <1>5, <1>6, StampOrder
  <2>2. QED BY <2>1 DEF ResultsAt
<1> HIDE DEF f, h
<1>7. /\ f[MaxTime].line \subseteq h[MaxTime].line
      /\ \A c \in h[MaxTime].line : c \in f[MaxTime].line \/ n < c
      /\ \A w \in Time : w <= n => h[MaxTime].owner[w] = f[MaxTime].owner[w]
      /\ \A c, doc, W : (\A w \in W : w <= n) /\ Near(f, c, doc, W, Never)
                        => Near(h, c, doc, W, Never)
  <2>1. /\ \A t \in Time : t <= n => ResultsAt(results, d, t) = ResultsAt(results', d, t)
        /\ \A r \in results : r.key = d => r.window <= n
        BY <1>6
  <2>2. Grown(f, h, n)
        BY <1>1, <1>2, <1>4, <2>1, FoldGrows
  <2>3. QED BY <2>2 DEF Grown
<1>8. Fin(d) = f[MaxTime] /\ Fin(d)' = h[MaxTime] /\ Kan(d) = f /\ Kan(d)' = h
      BY DEF Fin, f, h
<1>9. Starts(d)' = Starts(d)
      BY DEF Starts
<1>10. Old(d)' = Old(d)
  <2>1. ASSUME NEW r, r.key = d
        PROVE  (r \in results /\ r \notin Scanned) <=> (r \in results' /\ r \notin Scanned')
    <3>1. r \in results => r \in results' /\ (r \in Scanned <=> r \in Scanned')
          BY <1>5 DEF Scanned
    <3>2. r \in results' \ results => r \in Scanned'
          BY <1>5, <2>1, StampOrder DEF Scanned
    <3>3. QED BY <3>1, <3>2
  <2>2. QED BY <2>1 DEF Old
<1>11. \A w \in Old(d) : w \in Stamp /\ w <= n
       BY <1>5 DEF Old
<1>12. StoreOK(d)'
  <2>1. Starts(d) \subseteq h[MaxTime].line
        BY <1>7, <1>8 DEF ExactInv, StoreOK
  <2>2. \A c \in Starts(d) : Near(h, c, store[<<d, c>>], Old(d), Never)
        BY <1>7, <1>8, <1>11 DEF ExactInv, StoreOK
  <2>3. ASSUME NEW c \in h[MaxTime].line \ Starts(d) PROVE Missing(d, Starts(d), c)
    <3>1. CASE c \in f[MaxTime].line
          BY <1>8, <3>1 DEF ExactInv, StoreOK
    <3>2. CASE n < c
      <4>1. c \in Stamp
            BY <1>2, <1>4, MaxIs, FoldIsExact DEF Exact, AccOK, AccT, Stamp
      <4>2. QED BY <1>11, <3>2, <4>1, StampOrder DEF Missing
    <3>3. QED BY <1>7, <3>1, <3>2
  <2>4. QED BY <1>8, <1>9, <1>10, <2>1, <2>2, <2>3 DEF StoreOK, Missing
<1>13. SignalOK(d)'
  <2>1. ASSUME NEW w \in Time, HasResult(d, w)
        PROVE  HasResult(d, w)' /\ \A row : Names(d, w, row) => Names(d, w, row)'
    <3>1. w <= n
          BY <2>1 DEF HasResult
    <3>2. Fin(d)'.owner[w] = Fin(d).owner[w]
          BY <1>7, <1>8, <3>1
    <3>3. QED BY <2>1, <3>2 DEF HasResult, Names
  <2>2. QED BY <2>1 DEF ExactInv, SignalOK
<1>14. QED BY <1>12, <1>13 DEF ExactInv, NoStartless

LEMMA QuietExact ==
  ASSUME Base, Base', InWindowOrder, [Next]_vars, NEW d \in Detector, ExactInv(d),
         Environment \/ ReadCurrent \/ ReadHistory
  PROVE  ExactInv(d)'
<1>1. /\ UNCHANGED <<store, signals, mark, rows, incidents>>
      /\ pc' \in {"idle", "history", "project"}
      BY DEF Environment, Tick, Start, Complete, Refresh, Evaluate, ReadCurrent, ReadHistory,
         opened, cycle, history, Quiet
<1>2. \A r \in results : r \in Result /\ r.window \in Stamp
      BY StampOrder DEF Base, TypeOK, Result
<1>3. CASE results' = results
  <2>1. /\ \A r \in results : r.key = d => r.window <= MaxTime
        /\ results' \ results = {}
        BY <1>2, <1>3, MaxIs
  <2>2. QED BY <1>1, <1>3, <2>1, MaxIs, GrowExact
<1>4. ASSUME NEW new, NewResult(new) PROVE ExactInv(d)'
  <2>1. /\ results' = results \cup {new} /\ new.window \in Time /\ EvidenceFloor <= new.exec
        /\ \A r \in results : r.key = new.key => r.window < new.window
        BY <1>4 DEF NewResult, Result
  <2>2. CASE new.key = d
    <3> DEFINE n == new.window - 1
    <3>1. /\ n \in Stamp /\ n < new.window
          /\ \A x \in Stamp : x <= n <=> x < new.window
          BY <2>1, TimeBefore
    <3> HIDE DEF n
    <3>2. \A r \in results : r.key = d => r.window <= n
          BY <1>2, <2>1, <2>2, <3>1
    <3>3. \A r \in results' \ results : r.key = d => n < r.window /\ EvidenceFloor <= r.exec
          BY <2>1, <3>1
    <3>4. QED BY <1>1, <2>1, <3>1, <3>2, <3>3, GrowExact
  <2>3. CASE new.key # d
    <3>1. \A r \in results : r.key = d => r.window <= MaxTime
          BY <1>2, MaxIs
    <3>2. \A r \in results' \ results : r.key = d => MaxTime < r.window /\ EvidenceFloor <= r.exec
          BY <2>1, <2>3
    <3>3. QED BY <1>1, <2>1, <3>1, <3>2, MaxIs, GrowExact
  <2>4. QED BY <2>2, <2>3
<1>5. QED BY <1>3, <1>4, ResultsMove

\* The signals and the rows after a write.
LEMMA SignalWritten ==
  ASSUME NEW d, SignalOK(d), results' = results, pc' # "signals",
         \A w \in Time : signals'[<<d, w>>] = signals[<<d, w>>] \/ signals'[<<d, w>>] = rows[<<d, w>>],
         \A w \in Time : rows'[<<d, w>>] = rows[<<d, w>>] \/ rows'[<<d, w>>] = None
  PROVE  SignalOK(d)'
<1>1. Fin(d)' = Fin(d) /\ \A w : HasResult(d, w)' <=> HasResult(d, w)
      BY FoldUnchanged
<1>2. \A w, row : Names(d, w, row)' <=> Names(d, w, row)
      BY <1>1 DEF Names
<1>3. QED BY <1>1, <1>2 DEF SignalOK

\* The index after some, or all, of the documents of a cycle are written.
LEMMA StoreWritten ==
  ASSUME Base, NEW d \in Detector, StoreOK(d), AfterOK(d), NoStartless(d),
         results' = results, mark' = mark,
         NEW E \in SUBSET Touched, store' = IncidentsWith(E)
  PROVE  /\ StoreOK(d)' /\ store'[<<d, Never>>] = None
         /\ Starts(d)' \subseteq Lasting(d)
         /\ E = Touched => \A t \in Time : store'[<<d, t>>] = After(d, t)
<1>1. /\ Kan(d)' = Kan(d) /\ Fin(d)' = Fin(d) /\ Old(d)' = Old(d)
      BY FoldUnchanged
<1>2. \A t \in Stamp : <<d, t>> \in Episode
      BY DEF Episode, Key
<1>3. ASSUME NEW t \in Time
      PROVE  /\ <<d, t>> \in E => store'[<<d, t>>] = After(d, t) /\ After(d, t) # None
             /\ <<d, t>> \notin E => store'[<<d, t>>] = store[<<d, t>>]
             /\ store[<<d, t>>] # None => After(d, t) # None
             /\ E = Touched => store'[<<d, t>>] = After(d, t)
  <2>1. <<d, t>> \in Episode
        BY <1>2, StampOrder
  <2>2. QED BY <2>1 DEF IncidentsWith, After, Sent, Touched
<1>4. store'[<<d, Never>>] = None
  <2>1. <<d, Never>> \in Episode /\ <<d, Never>> \notin E
        BY <1>2 DEF Stamp, Touched, NoStartless
  <2>2. QED BY <2>1 DEF IncidentsWith, NoStartless
<1>5. Starts(d) \subseteq Starts(d)' /\ Starts(d)' \subseteq Lasting(d)
      BY <1>3 DEF Starts, Lasting
<1>6. Starts(d)' \subseteq Fin(d).line
      BY <1>5 DEF AfterOK
<1>7. ASSUME NEW c \in Starts(d)'
      PROVE  Near(Kan(d), c, store'[<<d, c>>], Old(d), Never)
  <2>1. c \in Time /\ store'[<<d, c>>] # None /\ c \in Lasting(d)
        BY <1>5, <1>7 DEF Starts
  <2>2. CASE <<d, c>> \in E
    <3>1. store'[<<d, c>>] = After(d, c) /\ Same(After(d, c), Fin(d).docs[c]) /\ c \in Fin(d).line
          BY <1>3, <2>1, <2>2 DEF AfterOK
    <3>2. \A w \in Old(d) : w <= MaxTime
          BY MaxIs, StampOrder DEF Old, Base, TypeOK, Result
    <3>3. MaxTime \in Stamp /\ Never <= MaxTime /\ c <= MaxTime
          BY <2>1, MaxIs, StampOrder
    <3>4. NearAt(Kan(d), c, store'[<<d, c>>], Old(d), Never, MaxTime)
          BY <3>1, <3>2, <3>3 DEF NearAt, Fin
    <3>5. QED BY <3>3, <3>4 DEF Near
  <2>3. CASE <<d, c>> \notin E
    <3>1. store'[<<d, c>>] = store[<<d, c>>] /\ c \in Starts(d)
          BY <1>3, <2>1, <2>3 DEF Starts
    <3>2. QED BY <3>1 DEF StoreOK
  <2>4. QED BY <2>2, <2>3
<1>8. ASSUME NEW c \in Fin(d).line \ Starts(d)'
      PROVE  Missing(d, Starts(d)', c)
  <2>1. CASE c \in Lasting(d)
    <3>1. c \notin Starts(d)
          BY <1>5, <1>8
    <3>2. QED BY <2>1, <3>1 DEF AfterOK, Missing
  <2>2. CASE LostIn(Lasting(d), c) /\ Starts(d) # {}
    <3>1. LostIn(Starts(d)', c)
          BY <1>5, <1>8, <2>2 DEF LostIn
    <3>2. QED BY <3>1 DEF Missing
  <2>3. QED BY <2>1, <2>2 DEF AfterOK
<1>9. StoreOK(d)'
      BY <1>1, <1>6, <1>7, <1>8 DEF StoreOK, Missing
<1>10. QED BY <1>3, <1>4, <1>5, <1>9

\* The store, and what is about to be written to it, after a write of something else.
LEMMA StoreKept ==
  ASSUME NEW d, results' = results, store' = store, mark'.anomalies = mark.anomalies
  PROVE  /\ StoreOK(d)' <=> StoreOK(d)
         /\ incidents' = incidents => (AfterOK(d)' <=> AfterOK(d))
<1>1. /\ Kan(d)' = Kan(d) /\ Fin(d)' = Fin(d) /\ Old(d)' = Old(d) /\ Starts(d)' = Starts(d)
      BY FoldUnchanged DEF Starts
<1>2. StoreOK(d)' <=> StoreOK(d)
      BY <1>1 DEF StoreOK, Missing
<1>3. ASSUME incidents' = incidents PROVE AfterOK(d)' <=> AfterOK(d)
  <2>1. (\A t : After(d, t)' = After(d, t)) /\ Lasting(d)' = Lasting(d)
        BY <1>3 DEF After, Sent, Lasting
  <2>2. QED BY <1>1, <2>1 DEF AfterOK
<1>4. QED BY <1>2, <1>3

\* A cycle writes its signals, its documents and its marks.
LEMMA WriteExact ==
  ASSUME Base, NEW d \in Detector, ExactInv(d), PushInv(d),
         WriteSignals \/ WriteIncidents \/ WriteHistoryMark \/ WriteAnomalyMark
  PROVE  ExactInv(d)'
<1>1. /\ UNCHANGED <<results, rows, incidents>> /\ pc' # "signals"
      /\ pc \notin {"idle", "history", "project"}
      BY DEF WriteSignals, WriteIncidents, WriteHistoryMark, WriteAnomalyMark, env, cycle
<1>2. StoreOK(d) /\ SignalOK(d) /\ NoStartless(d) /\ AfterOK(d)
      BY <1>1 DEF ExactInv
<1>3. SignalOK(d)'
  <2>1. \A w \in Time : <<d, w>> \in Source
        BY DEF Source, Reading
  <2>2. \A w \in Time : \/ signals'[<<d, w>>] = signals[<<d, w>>]
                        \/ signals'[<<d, w>>] = rows[<<d, w>>]
        BY <2>1 DEF WriteSignals, WriteIncidents, WriteHistoryMark, WriteAnomalyMark, SignalsWith
  <2>3. QED BY <1>1, <1>2, <2>2, SignalWritten
<1>4. CASE WriteSignals \/ WriteHistoryMark
  <2>1. store' = store /\ mark'.anomalies = mark.anomalies
        BY <1>4 DEF WriteSignals, WriteHistoryMark, Base, TypeOK, Lanes
  <2>2. StoreOK(d)' /\ AfterOK(d)'
        BY <1>1, <1>2, <2>1, StoreKept
  <2>3. QED BY <1>1, <1>2, <1>3, <2>1, <2>2 DEF ExactInv, NoStartless
<1>5. CASE WriteIncidents
  <2>1. store' = IncidentsWith(Touched) /\ mark' = mark
        BY <1>5 DEF WriteIncidents
  <2>2. /\ StoreOK(d)' /\ store'[<<d, Never>>] = None
        /\ \A t \in Time : store'[<<d, t>>] = After(d, t)
        BY <1>1, <1>2, <2>1, StoreWritten
  <2>3. \A t \in Time : After(d, t)' = After(d, t)
        BY <1>1, <2>2 DEF After, Sent
  <2>4. Lasting(d)' = Lasting(d) /\ Starts(d)' = Lasting(d) /\ Fin(d)' = Fin(d)
        BY <1>1, <2>2, <2>3, FoldUnchanged DEF Lasting, Starts
  <2>5. Lasting(d) \subseteq Time
        BY DEF Lasting
  <2>6. AfterOK(d)'
        BY <1>2, <2>3, <2>4, <2>5 DEF AfterOK, LostIn
  <2>7. QED BY <1>1, <1>2, <1>3, <2>2, <2>6 DEF ExactInv, NoStartless
<1>6. CASE WriteAnomalyMark
  <2>1. store' = store /\ pc = "anomalyMark"
        BY <1>6 DEF WriteAnomalyMark
  <2>2. \A t \in Time : store[<<d, t>>] = After(d, t)
        BY <2>1 DEF PushInv, Written, After, Sent
  <2>3. Starts(d) = Lasting(d)
        BY <2>2 DEF Lasting, Starts
  <2>4. /\ Kan(d)' = Kan(d) /\ Fin(d)' = Fin(d) /\ Starts(d)' = Starts(d)
        /\ Lasting(d)' = Lasting(d) /\ \A t : After(d, t)' = After(d, t)
        BY <1>1, <2>1, FoldUnchanged DEF Starts, Lasting, After, Sent
  <2>5. \A w \in Old(d)' : w <= MaxTime
        BY <1>1, MaxIs, StampOrder DEF Old, Base, TypeOK, Result
  <2>6. ASSUME NEW c \in Starts(d)
        PROVE  Near(Kan(d), c, store[<<d, c>>], Old(d)', Never)
    <3>1. c \in Time /\ Same(store[<<d, c>>], Fin(d).docs[c]) /\ c \in Fin(d).line
          BY <1>2, <2>2, <2>3, <2>6 DEF AfterOK, Lasting
    <3>2. MaxTime \in Stamp /\ Never <= MaxTime /\ c <= MaxTime
          BY <3>1, MaxIs, StampOrder
    <3>3. NearAt(Kan(d), c, store[<<d, c>>], Old(d)', Never, MaxTime)
          BY <2>5, <3>1, <3>2 DEF NearAt, Fin
    <3>4. QED BY <3>2, <3>3 DEF Near
  <2>7. StoreOK(d)'
        BY <1>2, <2>1, <2>3, <2>4, <2>6 DEF AfterOK, StoreOK, Missing
  <2>8. AfterOK(d)'
        BY <1>2, <2>3, <2>4 DEF AfterOK
  <2>9. QED BY <1>1, <1>2, <1>3, <2>1, <2>7, <2>8 DEF ExactInv, NoStartless
<1>7. QED BY <1>4, <1>5, <1>6

\* A cycle ends, and what it has not written is forgotten.
LEMMA EndExact ==
  ASSUME Base, NEW d \in Detector, ExactInv(d), Failure \/ Push
  PROVE  ExactInv(d)'
<1>1. /\ EndCycle /\ UNCHANGED <<results, mark>> /\ pc' = "idle"
      /\ rows' = NoRows /\ incidents' = NoEpisodes
      BY DEF Failure, Abort, SomeSignals, SomeIncidents, Push, env, opened, EndCycle
<1>2. StoreOK(d) /\ SignalOK(d) /\ NoStartless(d)
      BY DEF ExactInv
<1>3. incidents'[<<d, Never>>] = None
      BY <1>1 DEF NoEpisodes, Episode, Stamp, Key
<1>4. SignalOK(d)'
  <2>1. \A w \in Time : <<d, w>> \in Source
        BY DEF Source, Reading
  <2>2. \A w \in Time : \/ signals'[<<d, w>>] = signals[<<d, w>>]
                        \/ signals'[<<d, w>>] = rows[<<d, w>>]
        BY <2>1 DEF Failure, Abort, SomeSignals, SomeIncidents, Push, SignalsWith, opened
  <2>3. \A w \in Time : rows'[<<d, w>>] = None
        BY <1>1, <2>1 DEF NoRows
  <2>4. QED BY <1>1, <1>2, <2>2, <2>3, SignalWritten
<1>5. CASE store' = store
  <2>1. StoreOK(d)'
        BY <1>1, <1>2, <1>5, StoreKept
  <2>2. QED BY <1>1, <1>2, <1>3, <1>4, <1>5, <2>1 DEF ExactInv, NoStartless
<1>6. CASE SomeIncidents
  <2>1. PICK E \in SUBSET Touched : pc = "incidents" /\ store' = IncidentsWith(E)
        BY <1>6 DEF SomeIncidents
  <2>2. AfterOK(d)
        BY <2>1 DEF ExactInv
  <2>3. StoreOK(d)' /\ store'[<<d, Never>>] = None
        BY <1>1, <1>2, <2>1, <2>2, StoreWritten
  <2>4. QED BY <1>1, <1>3, <1>4, <2>3 DEF ExactInv, NoStartless
<1>7. QED BY <1>5, <1>6 DEF Failure, Abort, SomeSignals, Push, opened

LEMMA StepExact ==
  ASSUME Base, Base', ResultsInTurn, InWindowOrder, [Next]_vars,
         NEW d \in Detector, d \notin Nameless', ExactInv(d), PushInv(d)
  PROVE  ExactInv(d)' /\ (Project => LastOpen(d)')
<1>1. Project => LastOpen(d)'
      BY ProjectExact DEF InWindowOrder
<1> SUFFICES ExactInv(d)'
    BY <1>1
<1>2. CASE Environment \/ ReadCurrent \/ ReadHistory
      BY <1>2, QuietExact
<1>3. CASE Project
      BY <1>3, ProjectExact DEF InWindowOrder
<1>4. CASE WriteSignals \/ WriteIncidents \/ WriteHistoryMark \/ WriteAnomalyMark
      BY <1>4, WriteExact
<1>5. CASE Failure \/ Push
      BY <1>5, EndExact
<1>6. CASE UNCHANGED vars
  <2>1. UNCHANGED <<results, store, signals, mark, pc, rows, incidents>>
        BY <1>6 DEF vars, env, opened, cycle
  <2>2. StoreOK(d)' <=> StoreOK(d)
        BY <2>1, StoreKept
  <2>3. AfterOK(d)' <=> AfterOK(d)
        BY <2>1, StoreKept
  <2>4. SignalOK(d)'
    <3>1. Fin(d)' = Fin(d) /\ Starts(d)' = Starts(d) /\ \A w : HasResult(d, w)' <=> HasResult(d, w)
          BY <2>1, FoldUnchanged DEF Starts
    <3>2. \A w, row : Names(d, w, row)' <=> Names(d, w, row)
          BY <3>1 DEF Names
    <3>3. QED BY <2>1, <3>1, <3>2 DEF ExactInv, SignalOK
  <2>5. QED BY <2>1, <2>2, <2>3, <2>4 DEF ExactInv, NoStartless
<1>7. QED BY <1>2, <1>3, <1>4, <1>5, <1>6 DEF Next, Cycle

\* What holds of the detectors whose names no cycle has missed.
DetectorInv ==
  /\ ResultsInTurn
  /\ \A d \in Detector : d \notin Nameless => ExactInv(d) /\ PushInv(d)

LEMMA InitDetector ==
  ASSUME Init
  PROVE  DetectorInv
<1>1. /\ pc = "idle" /\ results = {} /\ ~ told
      /\ store = NoEpisodes /\ incidents = NoEpisodes /\ signals = NoRows /\ rows = NoRows
      BY DEF Init
<1>2. ResultsInTurn
      BY <1>1 DEF ResultsInTurn
<1>3. ASSUME NEW d \in Detector PROVE ExactInv(d) /\ PushInv(d)
  <2>1. \A t \in Stamp : store[<<d, t>>] = None /\ incidents[<<d, t>>] = None
        BY <1>1 DEF NoEpisodes, Episode, Key
  <2>2. \A w \in Time : signals[<<d, w>>] = None /\ rows[<<d, w>>] = None
        BY <1>1 DEF NoRows, Source, Reading
  <2>3. Starts(d) = {} /\ Old(d) = {}
        BY <1>1, <2>1, StampOrder DEF Starts, Old
  <2>4. StoreOK(d)
        BY <2>3 DEF StoreOK, Missing
  <2>5. SignalOK(d) /\ NoStartless(d)
        BY <2>1, <2>2 DEF SignalOK, NoStartless, Stamp
  <2>6. QED BY <1>1, <2>4, <2>5 DEF ExactInv, PushInv
<1>4. QED BY <1>2, <1>3 DEF DetectorInv

LEMMA StepDetector ==
  ASSUME Base, Base', DetectorInv, InWindowOrder, [Next]_vars
  PROVE  DetectorInv'
<1>1. ResultsInTurn'
      BY StepInTurn DEF DetectorInv
<1>2. unnamed \subseteq unnamed'
      BY DEF Next, Environment, Cycle, Failure, Tick, Start, Complete, Refresh, Evaluate,
         ReadCurrent, ReadHistory, Project, WriteSignals, WriteIncidents, WriteHistoryMark,
         WriteAnomalyMark, Push, Abort, SomeSignals, SomeIncidents, history, vars
<1>3. Nameless \subseteq Nameless'
      BY <1>2 DEF Nameless
<1>4. ASSUME NEW d \in Detector, d \notin Nameless' PROVE ExactInv(d)' /\ PushInv(d)'
  <2>1. ExactInv(d) /\ PushInv(d) /\ ResultsInTurn /\ d \in Key
        BY <1>3, <1>4 DEF DetectorInv, Key
  <2>2. ExactInv(d)' /\ (Project => LastOpen(d)')
        BY <1>4, <2>1, StepExact
  <2>3. QED BY <2>1, <2>2, StepPush
<1>5. QED BY <1>1, <1>4 DEF DetectorInv

\* A signal of a detector is written again with the episode it has.
LEMMA SignalStays ==
  ASSUME Base, NEW d \in Detector, ExactInv(d), [Next]_vars, NEW w \in Time
  PROVE  KeepsEpisode(<<d, w>>)
<1> DEFINE s == <<d, w>>
<1> SUFFICES ASSUME signals[s] # None, store[signals[s]] # None, signals'[s] # signals[s]
             PROVE  FALSE
    BY DEF KeepsEpisode
<1>1. s \in Source
      BY DEF Source, Reading
<1>2. pc = "signals" /\ signals'[s] = rows[s] /\ rows[s] # None
  <2>1. CASE WriteSignals \/ SomeSignals
        BY <1>1, <2>1 DEF WriteSignals, SomeSignals, SignalsWith, Rows
  <2>2. CASE ~ WriteSignals /\ ~ SomeSignals
    <3>1. signals' = signals
          BY <2>2 DEF Next, Environment, Cycle, Failure, Tick, Start, Complete, Refresh, Evaluate,
             ReadCurrent, ReadHistory, Project, WriteIncidents, WriteHistoryMark,
             WriteAnomalyMark, Push, Abort, SomeIncidents, opened, vars
    <3>2. QED BY <3>1
  <2>3. QED BY <2>1, <2>2
<1>3. SignalOK(d) /\ NoStartless(d)
      BY DEF ExactInv
<1>4. signals[s] = <<d, Fin(d).owner[w]>> /\ Fin(d).owner[w] # Never
      BY <1>3 DEF SignalOK, NoStartless, Names
<1>5. Fin(d).owner[w] \in Time
      BY <1>4, KanIs DEF AccOK, AccT, Stamp
<1>6. Fin(d).owner[w] \in Starts(d)
      BY <1>4, <1>5 DEF Starts
<1>7. rows[s] = <<d, Fin(d).owner[w]>>
      BY <1>2, <1>3, <1>6 DEF SignalOK
<1>8. QED BY <1>2, <1>4, <1>7

\* Whatever cycles fail or stop half-way, after one that pushed Alertmanager fires
\* every open episode and none is open beside it, where an alert clears its monitor,
\* the results of a detector come in order and no timeline query fails unseen.
THEOREM OpenEpisodesStayPushed ==
  ASSUME OneClear, InWindowOrder
  PROVE  Spec => []EveryOpenEpisodeIsPushed
<1> DEFINE Detectors == Base /\ DetectorInv
<1>1. Init => Detectors
      BY InitBase, InitDetector
<1>2. Detectors /\ [Next]_vars => Detectors'
      BY InWindowOrder, StepBase, StepDetector
<1>3. Detectors => (told => \A d \in Detector \ Nameless : Pushed(d))
      BY DEF DetectorInv, PushInv
<1>4. Spec => [](told => \A m \in Monitor : Pushed(m))
      BY OneClear, InWindowOrder, OpenAlertsStayPushed DEF InWindowOrder
<1>5. (told => \A d \in Detector \ Nameless : Pushed(d))
        /\ (told => \A m \in Monitor : Pushed(m)) => EveryOpenEpisodeIsPushed
      BY DEF EveryOpenEpisodeIsPushed, Key
<1> HIDE DEF Detectors
<1>6. QED BY <1>1, <1>2, <1>3, <1>4, <1>5, PTL DEF Spec

\* Under the same conditions a signal that names an episode of the index names it for
\* good: no overlap, retry or half-written cycle moves it to another.
THEOREM SignalsKeepTheirEpisode ==
  ASSUME OneClear, InWindowOrder
  PROVE  Spec => SignalKeepsEpisode
<1> DEFINE Detectors == Base /\ DetectorInv
           Alerts    == \A a \in Alert : KeepsEpisode(a)
           All       == \A s \in Source : (s \in Alert \/ s[1] \notin Nameless) => KeepsEpisode(s)
<1>1. Init => Detectors
      BY InitBase, InitDetector
<1>2. Detectors /\ [Next]_vars => Detectors'
      BY InWindowOrder, StepBase, StepDetector
<1>3. Spec => [][Alerts]_vars
      BY OneClear, AlertSignalsKeepTheirEpisode
<1>4. Detectors /\ [Next]_vars /\ [Alerts]_vars => [All]_vars
  <2> SUFFICES ASSUME Base, DetectorInv, [Next]_vars, [Alerts]_vars, vars' # vars,
                      NEW s \in Source, s \in Alert \/ s[1] \notin Nameless
               PROVE  KeepsEpisode(s)
      OBVIOUS
  <2>1. CASE s \in Alert
        BY <2>1
  <2>2. CASE s \notin Alert
    <3>1. s \in Reading
          BY <2>2 DEF Source
    <3>2. PICK d \in Detector, w \in Time : s = <<d, w>>
          BY <3>1 DEF Reading
    <3>3. ExactInv(d)
          BY <2>2, <3>2 DEF DetectorInv
    <3>4. QED BY <3>2, <3>3, SignalStays
  <2>3. QED BY <2>1, <2>2
<1> HIDE DEF Detectors, Alerts
<1>5. QED BY <1>1, <1>2, <1>3, <1>4, PTL DEF Spec, SignalKeepsEpisode
=============================================================================
