------------------------- MODULE TrendRollupProofs -------------------------
(***************************************************************************)
(* Theorems about TrendRollup for every value of its constants: however    *)
(* many buckets, entities, records, copies of the index and failures.      *)
(***************************************************************************)
EXTENDS TrendRollup, FiniteSetTheorems, SequenceTheorems, WellFoundedInduction, TLAPS

USE DEF history

\* The log indices hold finitely many records.
TypeInv == TypeOK /\ IsFiniteSet(raw) /\ Cardinality(raw) <= MaxRecords

-----------------------------------------------------------------------------
(***************************************************************************)
(* Records and entities that are counted.                                  *)
(***************************************************************************)
\* More records count no less.
LEMMA LoggedGrows ==
  ASSUME NEW records, IsFiniteSet(records), NEW some \in SUBSET records, NEW b, NEW e
  PROVE  /\ Logged(some, b, e) \in Nat /\ Logged(records, b, e) \in Nat
         /\ Logged(some, b, e) <= Logged(records, b, e)
         /\ Logged(records, b, e) <= Cardinality(records)
<1> DEFINE A == {r \in records : r[1] = b /\ r[2] = e}
           B == {r \in some : r[1] = b /\ r[2] = e}
<1>1. A \in SUBSET records /\ B \in SUBSET A
      OBVIOUS
<1> HIDE DEF A, B
<1>2. IsFiniteSet(A) /\ Cardinality(A) <= Cardinality(records)
      BY <1>1, FS_Subset
<1>3. IsFiniteSet(B) /\ Cardinality(B) <= Cardinality(A)
      BY <1>1, <1>2, FS_Subset
<1>4. Cardinality(A) \in Nat /\ Cardinality(B) \in Nat
      BY <1>2, <1>3, FS_CardinalityType
<1>5. QED  BY <1>2, <1>3, <1>4 DEF Logged, A, B

LEMMA LoggedType ==
  ASSUME TypeInv, NEW b, NEW e
  PROVE  Logged(raw, b, e) \in Count
<1>1. raw \in SUBSET raw /\ Cardinality(raw) \in Nat
      BY FS_CardinalityType DEF TypeInv
<1>2. QED  BY <1>1, LoggedGrows, BoundsAssumption DEF TypeInv, Count

\* A set of numbers has a lowest.
LEMMA Lowest ==
  ASSUME NEW S \in SUBSET Nat, S # {}
  PROVE  \E e \in S : \A d \in S : ~(d < e)
<1>1. PICK e \in S : \A d \in S : ~(<<d, e>> \in OpToRel(<, Nat))
      BY NatLessThanWellFounded, WFMin
<1>2. \A d \in S : ~(d < e)
      BY <1>1 DEF OpToRel
<1>3. QED  BY <1>2

\* The first n of at most n entities are all of them.
LEMMA FirstIsAll ==
  ASSUME NEW S \in SUBSET Entity, NEW n \in Nat, Cardinality(S) <= n
  PROVE  First(n, S) = S
<1>1. IsFiniteSet(S)
      BY FS_Subset, InputsAssumption
<1>2. ASSUME NEW e \in S PROVE Cardinality({d \in S : d < e}) < n
  <2>1. {d \in S : d < e} \in SUBSET (S \ {e})
        BY InputsAssumption
  <2>2. IsFiniteSet(S \ {e}) /\ Cardinality(S \ {e}) = Cardinality(S) - 1
        BY <1>1, FS_RemoveElement
  <2>3. Cardinality({d \in S : d < e}) <= Cardinality(S \ {e}) /\ IsFiniteSet({d \in S : d < e})
        BY <2>1, <2>2, FS_Subset
  <2>4. Cardinality({d \in S : d < e}) \in Nat /\ Cardinality(S) \in Nat
        BY <1>1, <2>3, FS_CardinalityType
  <2>5. QED  BY <2>2, <2>3, <2>4
<1>3. QED  BY <1>2 DEF First

\* When the first n leave an entity out, they are n at least: the entities below
\* the lowest that is left out are among them.
LEMMA FirstAreMany ==
  ASSUME NEW S \in SUBSET Entity, NEW n \in Nat, First(n, S) # S
  PROVE  Cardinality(First(n, S)) >= n
<1> DEFINE F == First(n, S)
<1>1. F \subseteq S /\ S \subseteq Nat /\ S \ F # {} /\ S \ F \subseteq Nat
      BY InputsAssumption DEF First
<1>2. PICK e \in S \ F : \A d \in S \ F : ~(d < e)
  <2> HIDE DEF F
  <2>1. QED  BY <1>1, Lowest
<1>3. {d \in S : d < e} \in SUBSET F
      BY <1>2
<1>4. IsFiniteSet(F) /\ IsFiniteSet(S)
      BY <1>1, FS_Subset, InputsAssumption
<1>5. Cardinality({d \in S : d < e}) <= Cardinality(F)
      BY <1>3, <1>4, FS_Subset
<1>6. ~(Cardinality({d \in S : d < e}) < n)
      BY <1>2 DEF First
<1>7. Cardinality({d \in S : d < e}) \in Nat /\ Cardinality(F) \in Nat
      BY <1>3, <1>4, FS_Subset, FS_CardinalityType
<1>8. QED  BY <1>5, <1>6, <1>7

LEMMA FirstOfNoRoom ==
  ASSUME NEW S \in SUBSET Entity, NEW n \in Int, n <= 0
  PROVE  First(n, S) = {}
<1>1. IsFiniteSet(S)
      BY FS_Subset, InputsAssumption
<1>2. ASSUME NEW e \in S PROVE ~(Cardinality({d \in S : d < e}) < n)
  <2>1. {d \in S : d < e} \in SUBSET S
        OBVIOUS
  <2>2. Cardinality({d \in S : d < e}) \in Nat
        BY <1>1, <2>1, FS_Subset, FS_CardinalityType
  <2>3. QED  BY <2>2
<1>3. QED  BY <1>2 DEF First

-----------------------------------------------------------------------------
(***************************************************************************)
(* What the steps write.                                                   *)
(***************************************************************************)
LEMMA WithoutType ==
  ASSUME NEW docs \in Index, NEW seen \in Index, NEW S
  PROVE  Without(docs, seen, S) \in Index
BY DEF Without, Index, Counts, Row

LEMMA RowsWithIs ==
  ASSUME TypeInv, NEW S \in SUBSET Entity
  PROVE  /\ RowsWith(S) \in Index
         /\ RowsWith(S).metas = stored.metas /\ RowsWith(S).commits = stored.commits
         /\ \A b \in Bucket \ {bucket} : RowsWith(S).rows[b] = stored.rows[b]
         /\ \A e \in Entity : RowsWith(S).rows[bucket][e] =
              IF e \in S /\ found[e] # None THEN found[e] ELSE stored.rows[bucket][e]
<1>1. /\ stored \in Index /\ bucket \in Bucket /\ found \in [Entity -> Row]
      /\ stored.rows \in [Bucket -> Counts] /\ stored.rows[bucket] \in [Entity -> Row]
      BY DEF TypeInv, TypeOK, Index, Counts
<1> DEFINE n == [e \in Entity |-> IF e \in S /\ found[e] # None THEN found[e]
                                    ELSE stored.rows[bucket][e]]
<1>2. n \in Counts /\ \A e \in Entity : n[e] =
        IF e \in S /\ found[e] # None THEN found[e] ELSE stored.rows[bucket][e]
      BY <1>1 DEF Counts
<1>3. RowsWith(S) = [stored EXCEPT !.rows = [stored.rows EXCEPT ![bucket] = n]]
      BY <1>1 DEF RowsWith, Index
<1> HIDE DEF n
<1>4. QED  BY <1>1, <1>2, <1>3 DEF Index

LEMMA MetasWithIs ==
  ASSUME TypeInv, NEW C \in SUBSET Cohort
  PROVE  /\ MetasWith(C) \in Index
         /\ MetasWith(C).rows = stored.rows /\ MetasWith(C).commits = stored.commits
         /\ \A b \in Bucket \ {bucket} : MetasWith(C).metas[b] = stored.metas[b]
         /\ \A e \in Entity : MetasWith(C).metas[bucket][e] =
              IF CohortOf[e] \in C THEN found[e] ELSE stored.metas[bucket][e]
<1>1. /\ stored \in Index /\ bucket \in Bucket /\ found \in [Entity -> Row]
      /\ stored.metas \in [Bucket -> Counts] /\ stored.metas[bucket] \in [Entity -> Row]
      BY DEF TypeInv, TypeOK, Index, Counts
<1> DEFINE n == [e \in Entity |-> IF CohortOf[e] \in C THEN found[e]
                                    ELSE stored.metas[bucket][e]]
<1>2. n \in Counts /\ \A e \in Entity : n[e] =
        IF CohortOf[e] \in C THEN found[e] ELSE stored.metas[bucket][e]
      BY <1>1 DEF Counts
<1>3. MetasWith(C) = [stored EXCEPT !.metas = [stored.metas EXCEPT ![bucket] = n]]
      BY <1>1 DEF MetasWith, Index
<1> HIDE DEF n
<1>4. QED  BY <1>1, <1>2, <1>3 DEF Index

LEMMA CommitIs ==
  ASSUME TypeInv
  PROVE  /\ Commit \in Index
         /\ Commit.rows = stored.rows /\ Commit.metas = stored.metas
         /\ \A b \in Bucket \ {bucket} : Commit.commits[b] = stored.commits[b]
         /\ Commit.commits[bucket] # None
         /\ Commit.commits[bucket].complete = whole /\ Commit.commits[bucket].counts = found
         /\ \A e \in Entity :
              Commit.commits[bucket].floor[e] = IF sound THEN floor[e] ELSE 0
<1> DEFINE least == [e \in Entity |-> IF sound THEN floor[e] ELSE 0]
           n     == [complete |-> whole, counts |-> found, floor |-> least]
<1>1. /\ stored \in Index /\ bucket \in Bucket /\ found \in Counts /\ whole \in BOOLEAN
      /\ floor \in [Entity -> Count] /\ 0 \in Count
      BY BoundsAssumption DEF TypeInv, TypeOK, Counts, Count
<1>2. least \in [Entity -> Count]
      BY <1>1
<1>3. Commit = [stored EXCEPT !.commits = [stored.commits EXCEPT ![bucket] = n]]
      BY <1>1 DEF Commit, Index
<1> HIDE DEF least
<1>4. n \in CommitOf
      BY <1>1, <1>2 DEF CommitOf
<1>5. n # None
      BY <1>4, InputsAssumption
<1>6. QED  BY <1>1, <1>3, <1>4, <1>5 DEF Index, least

\* What one cohort adds: an entity that logged is counted in full or left out, and is
\* left out only of a truncated cohort.
LEMMA CollectIs ==
  ASSUME TypeInv, left # <<>>, NEW unseen \in SUBSET Asked, NEW roster \in SUBSET Asked,
         Collect(unseen, roster)
  PROVE  /\ left' = Tail(left) /\ left' \in Seq(Cohort)
         /\ pc' \in {"rows", "collect"} /\ (pc' = "collect" <=> left' # <<>>)
         /\ found' \in [Entity -> Row] /\ whole' \in BOOLEAN /\ (whole' => whole)
         /\ \A e \in Entity \ Asked : found'[e] = found[e]
         /\ \A e \in Asked : found'[e] \in {Logged(raw, bucket, e), 0, found[e]}
         /\ unseen = {} => \A e \in Asked :
              /\ found'[e] \in {Logged(raw, bucket, e), found[e]}
              /\ whole' => \/ found'[e] = Logged(raw, bucket, e)
                           \/ Logged(raw, bucket, e) = 0
<1> DEFINE present == {e \in Asked : Logged(raw, bucket, e) > 0} \ unseen
           kept    == IF present = {} THEN {} ELSE First(MaxEntities, present)
           absent  == IF kept = {} THEN {} ELSE roster \ kept
           room    == MaxEntities - Cardinality(kept)
<1>1. /\ left \in Seq(Cohort) /\ found \in [Entity -> Row] /\ whole \in BOOLEAN
      /\ MaxEntities \in Nat /\ Asked \subseteq Entity /\ present \subseteq Asked
      BY BoundsAssumption DEF TypeInv, TypeOK, Asked
<1>2. /\ kept \subseteq present /\ absent \subseteq Asked /\ absent \cap kept = {}
      BY DEF First
<1>3. room \in Int /\ Cardinality(kept) \in Nat
  <2>1. IsFiniteSet(kept)
        BY <1>1, <1>2, FS_Subset, InputsAssumption
  <2> HIDE DEF kept
  <2>2. QED  BY <1>1, <2>1, FS_CardinalityType
<1>4. kept # present => First(room, absent) = {}
  <2>1. SUFFICES ASSUME kept # present PROVE First(room, absent) = {}
        OBVIOUS
  <2>2. kept = First(MaxEntities, present) /\ present \in SUBSET Entity
        BY <1>1, <2>1
  <2>3. Cardinality(kept) >= MaxEntities
        BY <1>1, <2>1, <2>2, FirstAreMany
  <2>4. room <= 0
        BY <1>1, <1>3, <2>3
  <2>5. absent \in SUBSET Entity
        BY <1>1, <1>2
  <2> HIDE DEF room, absent
  <2>6. QED  BY <1>3, <2>4, <2>5, FirstOfNoRoom
<1>5. ~Truncated(present) => kept = present
  <2>1. SUFFICES ASSUME ~Truncated(present), present # {} PROVE kept = present
        OBVIOUS
  <2>2. present \in SUBSET Entity /\ Cardinality(present) < MaxEntities
    <3>1. IsFiniteSet(present)
          BY <1>1, FS_Subset, InputsAssumption
    <3> HIDE DEF present
    <3>2. Cardinality(present) \in Nat
          BY <3>1, FS_CardinalityType
    <3>3. QED  BY <1>1, <2>1, <3>2 DEF Truncated
  <2>3. IsFiniteSet(present)
        BY <1>1, FS_Subset, InputsAssumption
  <2> HIDE DEF present
  <2>4. Cardinality(present) <= MaxEntities
        BY <1>1, <2>2, <2>3, FS_CardinalityType
  <2>5. QED  BY <1>1, <2>1, <2>2, <2>4, FirstIsAll
<1>6. /\ pc' = (IF Tail(left) = <<>> THEN "rows" ELSE "collect") /\ left' = Tail(left)
      /\ found' = [e \in Entity |->
                     IF e \in kept THEN Logged(raw, bucket, e)
                     ELSE IF e \in First(room, absent) THEN 0 ELSE found[e]]
      /\ whole' = (whole /\ ~Truncated(present) /\ Cardinality(absent) <= room)
      BY DEF Collect
<1>7. First(room, absent) \subseteq absent
      BY DEF First
<1> HIDE DEF kept, absent, room
<1>8. left' \in Seq(Cohort)
      BY <1>1, <1>6, HeadTailProperties
<1>9. found' \in [Entity -> Row]
      BY <1>1, <1>6, LoggedType, BoundsAssumption DEF Row, Count
<1>10. whole' \in BOOLEAN /\ (whole' => whole /\ ~Truncated(present))
       BY <1>1, <1>6
<1>11. \A e \in Entity \ Asked : found'[e] = found[e]
       BY <1>1, <1>2, <1>6, <1>7
<1>12. \A e \in Asked : found'[e] \in {Logged(raw, bucket, e), 0, found[e]}
       BY <1>1, <1>6
<1>13. ASSUME unseen = {}, NEW e \in Asked
       PROVE  /\ found'[e] \in {Logged(raw, bucket, e), found[e]}
              /\ whole' => \/ found'[e] = Logged(raw, bucket, e)
                           \/ Logged(raw, bucket, e) = 0
  <2>1. Logged(raw, bucket, e) \in Nat /\ e \in Entity
        BY <1>1, LoggedType, BoundsAssumption DEF Count
  <2>2. e \notin present => Logged(raw, bucket, e) = 0
        BY <1>13, <2>1
  <2> HIDE DEF present
  <2>3. e \in kept => found'[e] = Logged(raw, bucket, e)
        BY <1>6, <2>1
  <2>4. e \notin kept => found'[e] = found[e] \/ (e \in First(room, absent) /\ found'[e] = 0)
        BY <1>6, <2>1
  <2>5. e \in First(room, absent) => e \notin present
        BY <1>2, <1>4, <1>7
  <2>6. QED  BY <1>5, <1>10, <2>2, <2>3, <2>4, <2>5
<1>14. QED  BY <1>6, <1>8, <1>9, <1>10, <1>11, <1>12, <1>13

-----------------------------------------------------------------------------
(***************************************************************************)
(* Types.                                                                  *)
(***************************************************************************)
LEMMA EmptyType == Empty \in Index /\ Nothing \in [Entity -> Count] /\ NoRows \in [Entity -> Row]
BY BoundsAssumption DEF Empty, Index, Counts, Row, NoRows, Nothing, Count

LEMMA FailsType ==
  ASSUME TypeInv, Fails
  PROVE  failures' \in 0 .. MaxFailures
BY BoundsAssumption DEF TypeInv, TypeOK, Fails

LEMMA TypeInit == Init => TypeInv
<1> SUFFICES ASSUME Init PROVE TypeInv
    OBVIOUS
<1>1. raw = {} /\ IsFiniteSet(raw) /\ Cardinality(raw) <= MaxRecords
      BY FS_EmptySet, BoundsAssumption DEF Init
<1>2. now \in Bucket /\ bucket \in Bucket /\ 0 \in 0 .. MaxFailures
      BY BoundsAssumption DEF Init, Bucket
<1>3. left \in Seq(Cohort)
      BY EmptySeq DEF Init
<1>4. QED  BY <1>1, <1>2, <1>3, EmptyType DEF Init, TypeInv, TypeOK

LEMMA TypeLog ==
  ASSUME TypeInv, NEW b \in Bucket, NEW e \in Entity, Log(b, e)
  PROVE  TypeInv'
<1> DEFINE n == Logged(raw, b, e)
<1>1. /\ IsFiniteSet(raw) /\ Cardinality(raw) < MaxRecords /\ raw' = raw \cup {<<b, e, n + 1>>}
      /\ UNCHANGED <<now, index, pc, todo, attempt, failures, history>>
      BY DEF TypeInv, Log
<1>2. n \in Nat /\ n <= Cardinality(raw) /\ Cardinality(raw) \in Nat
      BY <1>1, LoggedGrows, FS_CardinalityType
<1> HIDE DEF n
<1>3. n + 1 \in Count
      BY <1>1, <1>2, BoundsAssumption DEF Count
<1>4. raw' \subseteq Bucket \X Entity \X Count
      BY <1>1, <1>3 DEF TypeInv, TypeOK
<1>5. IsFiniteSet(raw') /\ Cardinality(raw') <= MaxRecords
  <2> DEFINE r == <<b, e, n + 1>>
  <2>1. IsFiniteSet(raw) /\ raw' = raw \cup {r}
        BY <1>1
  <2> HIDE DEF r
  <2>2. IsFiniteSet(raw') /\ Cardinality(raw') \in {Cardinality(raw), Cardinality(raw) + 1}
        BY <2>1, FS_AddElement
  <2>3. Cardinality(raw) \in Nat /\ Cardinality(raw) < MaxRecords /\ MaxRecords \in Nat
        BY <1>1, <1>2, BoundsAssumption
  <2>4. QED  BY <2>2, <2>3
<1>6. QED  BY <1>1, <1>4, <1>5 DEF TypeInv, TypeOK, index, attempt

\* The oldest of the buckets of a set is one of them.
LEMMA OldestIs ==
  ASSUME NEW S \in SUBSET Bucket, S # {}
  PROVE  Oldest(S) \in S /\ \A b \in S : Oldest(S) <= b
<1>1. S \subseteq Nat
      BY BoundsAssumption DEF Bucket
<1>2. PICK b \in S : \A a \in S : ~(a < b)
      BY <1>1, Lowest
<1>3. \A a \in S : b <= a
      BY <1>1, <1>2
<1>4. QED  BY <1>3 DEF Oldest

LEMMA TypeEnvironment ==
  ASSUME TypeInv, Environment
  PROVE  TypeInv'
<1>1. CASE Tick
  <2>1. now' \in Bucket
        BY <1>1, BoundsAssumption DEF TypeInv, TypeOK, Tick, Bucket
  <2>2. QED  BY <1>1, <2>1 DEF TypeInv, TypeOK, Tick, index, attempt
<1>2. ASSUME NEW c \in Copy, Refresh(c) PROVE TypeInv'
  <2>1. visible' \in [Copy -> Index]
        BY <1>2 DEF TypeInv, TypeOK, Refresh
  <2>2. QED  BY <1>2, <2>1 DEF TypeInv, TypeOK, Refresh, attempt
<1>3. ASSUME NEW c \in Copy, Purge(c) PROVE TypeInv'
  <2>1. stored \in Index /\ visible[c] \in Index
        BY DEF TypeInv, TypeOK
  <2>2. stored' \in Index /\ visible' \in [Copy -> Index]
        BY <1>3, <2>1, WithoutType DEF Purge
  <2>3. sound' \in BOOLEAN
    <3>1. sound' = (pc \in {"idle", "next"})
          BY <1>3 DEF Purge
    <3>2. (pc \in {"idle", "next"}) \in BOOLEAN
          OBVIOUS
    <3>3. QED  BY <3>1, <3>2, Zenon
  <2>4. QED  BY <1>3, <2>2, <2>3, FailsType DEF TypeInv, TypeOK, Purge
<1>4. QED  BY <1>1, <1>2, <1>3, TypeLog DEF Environment

\* What an attempt forgets.
LEMMA ForgetType ==
  ASSUME TypeInv, Forget
  PROVE  /\ bucket' \in Bucket /\ left' \in Seq(Cohort) /\ found' = NoRows
         /\ found' \in [Entity -> Row] /\ whole' \in BOOLEAN /\ floor' \in [Entity -> Count]
         /\ sound' \in BOOLEAN
<1>1. 0 \in Bucket /\ <<>> \in Seq(Cohort)
      BY EmptySeq, BoundsAssumption DEF Bucket
<1>2. QED  BY <1>1, EmptyType DEF Forget

LEMMA TypeCollect ==
  ASSUME TypeInv, CollectCohort \/ CollectPart
  PROVE  TypeInv'
<1>1. PICK unseen \in SUBSET Asked, roster \in SUBSET Asked :
        Collect(unseen, roster) /\ (sound' => sound /\ (sound \in BOOLEAN => unseen = {}))
  <2>1. \A c \in Copy : Rosters(c) \subseteq SUBSET Asked
        BY DEF Rosters, Recent
  <2>2. QED  BY <2>1 DEF CollectCohort, CollectPart
<1>2. left # <<>>
      BY DEF TypeInv, TypeOK, CollectCohort, CollectPart
<1>3. /\ left' \in Seq(Cohort) /\ pc' \in {"rows", "collect"}
      /\ (pc' = "collect" <=> left' # <<>>)
      /\ found' \in [Entity -> Row] /\ whole' \in BOOLEAN
      BY <1>1, <1>2, CollectIs
<1>4. /\ UNCHANGED <<now, raw, index, todo, bucket, floor, window, doubt, behind>>
      /\ sound' \in BOOLEAN /\ clean' \in BOOLEAN /\ failures' \in 0 .. MaxFailures
      BY FailsType DEF TypeInv, TypeOK, CollectCohort, CollectPart
<1>5. cut' \subseteq Bucket \X Cohort
  <2>1. Head(left) \in Cohort /\ bucket \in Bucket /\ cut \subseteq Bucket \X Cohort
        BY <1>2 DEF TypeInv, TypeOK
  <2>2. cut' = cut \/ cut' = cut \cup {<<bucket, Head(left)>>}
        BY DEF CollectCohort, CollectPart
  <2>3. QED  BY <2>1, <2>2
<1>6. QED  BY <1>3, <1>4, <1>5 DEF TypeInv, TypeOK, index

LEMMA TypePass ==
  ASSUME TypeInv, Pass
  PROVE  TypeInv'
<1>1. CASE BeginPass
      BY <1>1 DEF TypeInv, TypeOK, BeginPass, Due, index, attempt
<1>2. CASE BeginAttempt
  <2>1. bucket' \in Bucket /\ todo' \subseteq Bucket
        BY <1>2, OldestIs DEF TypeInv, TypeOK, BeginAttempt
  <2>2. /\ left' \in Seq(Cohort) /\ left' # <<>> /\ found' \in [Entity -> Row]
        BY <1>2, EmptyType, InputsAssumption DEF BeginAttempt
  <2>3. floor' \in [Entity -> Count]
        BY <1>2, LoggedType DEF BeginAttempt
  <2>4. QED  BY <1>2, <2>1, <2>2, <2>3 DEF TypeInv, TypeOK, BeginAttempt, index
<1>3. CASE WriteRows
      BY <1>3, RowsWithIs DEF TypeInv, TypeOK, WriteRows, attempt, Doubted
<1>4. CASE WriteMetas
      BY <1>4, MetasWithIs DEF TypeInv, TypeOK, WriteMetas, attempt, Doubted
<1>5. CASE RefreshRollup
      BY <1>5 DEF TypeInv, TypeOK, RefreshRollup, attempt, Refreshed
<1>6. CASE WriteCommit
  <2>1. clean' \in BOOLEAN /\ doubt' \subseteq Bucket /\ stored' \in Index
        BY <1>6, CommitIs DEF TypeInv, TypeOK, WriteCommit
  <2>2. Forget /\ pc' = "next" /\ UNCHANGED <<now, raw, visible, todo, failures, window, behind, cut>>
        BY <1>6 DEF WriteCommit
  <2>3. QED  BY <2>1, <2>2, ForgetType DEF TypeInv, TypeOK
<1>7. CASE EndPass
      BY <1>7 DEF TypeInv, TypeOK, EndPass, index, attempt
<1>8. QED  BY <1>1, <1>2, <1>3, <1>4, <1>5, <1>6, <1>7, TypeCollect DEF Pass

LEMMA TypeFailures ==
  ASSUME TypeInv, Prune \/ RefreshPart \/ AttemptFails \/ Restart
  PROVE  TypeInv'
<1>1. CASE Prune
  <2>1. stored' \in Index
        BY <1>1, WithoutType DEF TypeInv, TypeOK, Prune
  <2>2. QED  BY <1>1, <2>1 DEF TypeInv, TypeOK, Prune, attempt
<1>2. CASE AttemptFails
  <2>1. stored' \in Index
        BY <1>2, RowsWithIs, MetasWithIs, CommitIs DEF TypeInv, TypeOK, AttemptFails
  <2>2. doubt' \subseteq Bucket
        BY <1>2 DEF TypeInv, TypeOK, AttemptFails, Doubted
  <2>3. /\ Forget /\ pc' = "next" /\ clean' = FALSE /\ failures' \in 0 .. MaxFailures
        /\ UNCHANGED <<now, raw, visible, todo, window, behind, cut>>
        BY <1>2, FailsType DEF AttemptFails
  <2>4. QED  BY <2>1, <2>2, <2>3, ForgetType DEF TypeInv, TypeOK
<1>3. CASE Restart
  <2>1. /\ Forget /\ pc' = "idle" /\ clean' = FALSE /\ failures' \in 0 .. MaxFailures
        /\ todo' = {} /\ UNCHANGED <<now, raw, index, window, doubt, behind, cut>>
        BY <1>3, FailsType DEF Restart
  <2>2. QED  BY <2>1, ForgetType DEF TypeInv, TypeOK, index
<1>4. CASE RefreshPart
  <2>1. visible' \in [Copy -> Index] /\ behind' \subseteq Copy /\ failures' \in 0 .. MaxFailures
        BY <1>4, FailsType DEF TypeInv, TypeOK, RefreshPart
  <2>2. /\ pc' = "commit" /\ clean' = FALSE
        /\ UNCHANGED <<now, raw, stored, todo, attempt, window, doubt, cut>>
        BY <1>4 DEF RefreshPart
  <2>3. QED  BY <2>1, <2>2 DEF TypeInv, TypeOK, attempt
<1>5. QED  BY <1>1, <1>2, <1>3, <1>4

LEMMA TypeStep == TypeInv /\ [Next]_vars => TypeInv'
<1> SUFFICES ASSUME TypeInv, [Next]_vars PROVE TypeInv'
    OBVIOUS
<1>1. CASE UNCHANGED vars
      BY <1>1 DEF TypeInv, TypeOK, vars, index, attempt
<1>2. QED  BY <1>1, TypeEnvironment, TypePass, TypeCollect, TypeFailures DEF Next

LEMMA TypeAlways == Spec => []TypeInv
BY TypeInit, TypeStep, PTL DEF Spec

-----------------------------------------------------------------------------
(***************************************************************************)
(* The window of a pass, from its oldest bucket to its newest.             *)
(***************************************************************************)
Attempting == pc \in {"collect", "rows", "metas", "refresh", "commit"}
Written    == pc \in {"metas", "refresh", "commit"}
Pending    == IF Attempting THEN todo \cup {bucket} ELSE todo
Done       == window \ Pending

WindowInv ==
  /\ pc = "idle" => todo = {}
  /\ pc # "idle" => \E t \in Bucket : t <= now /\ window = Due(t)
  /\ todo \subseteq window
  /\ Attempting => bucket \in window /\ \A p \in todo : bucket < p
  /\ \A b \in Done, p \in Pending : b < p

LEMMA WindowInit == Init => WindowInv
BY DEF Init, WindowInv, Attempting, Pending, Done

\* prune comes before the first attempt of a pass, and in the bucket it began in.
LEMMA PruneIsFirst ==
  ASSUME TypeInv, WindowInv, Prune
  PROVE  window = Due(now) /\ Done = {}
<1>1. PICK t \in Bucket : t <= now /\ window = Due(t)
      BY DEF WindowInv, Prune
<1>2. Due(now) \subseteq Due(t) /\ pc = "next"
      BY <1>1 DEF WindowInv, Prune
<1>3. now \in Bucket /\ t \in Nat /\ now \in Nat
      BY <1>1, BoundsAssumption DEF TypeInv, TypeOK, Bucket
<1>4. t = now
  <2>1. SUFFICES ASSUME t < now PROVE FALSE
        BY <1>1, <1>3
  <2>2. now - 1 \in Due(now)
        BY <1>3, <2>1, BoundsAssumption DEF Due, Bucket
  <2>3. now - 1 < t
        BY <1>2, <2>2 DEF Due
  <2>4. QED  BY <1>3, <2>1, <2>3
<1>5. QED  BY <1>1, <1>2, <1>4 DEF Done, Pending, Prune, Attempting

LEMMA WindowStep == TypeInv /\ WindowInv /\ [Next]_vars => WindowInv'
<1> SUFFICES ASSUME TypeInv, WindowInv, [Next]_vars PROVE WindowInv'
    OBVIOUS
<1>1. now \in Nat /\ todo \subseteq Bucket /\ window \subseteq Bucket /\ Bucket \subseteq Nat
      BY BoundsAssumption DEF TypeInv, TypeOK, Bucket
<1>2. ASSUME UNCHANGED <<pc, todo, bucket, window>>, now' = now \/ now' = now + 1
      PROVE  WindowInv'
  <2>1. /\ Attempting' = Attempting /\ Pending' = Pending /\ Done' = Done
        BY <1>2 DEF Attempting, Pending, Done
  <2>2. \A t \in Bucket : t <= now => t <= now'
        BY <1>1, <1>2
  <2>3. QED  BY <1>2, <2>1, <2>2 DEF WindowInv, Due
<1>3. CASE Environment \/ Prune \/ UNCHANGED vars
      BY <1>2, <1>3 DEF Environment, Tick, Log, Refresh, Purge, Prune, vars, attempt
<1>4. ASSUME UNCHANGED <<now, todo, bucket, window>>, Attempting, Attempting'
      PROVE  WindowInv'
  <2>1. Pending' = Pending /\ Done' = Done /\ pc # "idle" /\ pc' # "idle"
        BY <1>4 DEF Pending, Done, Attempting
  <2>2. QED  BY <1>4, <2>1 DEF WindowInv
<1>5. CASE CollectCohort \/ CollectPart
  <2>1. pc' \in {"rows", "collect"} /\ pc = "collect"
        BY <1>5 DEF CollectCohort, CollectPart, Collect
  <2>2. UNCHANGED <<now, todo, bucket, window>>
        BY <1>5 DEF CollectCohort, CollectPart
  <2>3. QED  BY <1>4, <2>1, <2>2 DEF Attempting
<1>6. CASE WriteRows \/ WriteMetas \/ RefreshRollup \/ RefreshPart
      BY <1>4, <1>6 DEF WriteRows, WriteMetas, RefreshRollup, RefreshPart, attempt, Attempting
<1>7. CASE WriteCommit \/ AttemptFails
  <2>1. Attempting /\ ~Attempting' /\ pc # "idle" /\ pc' = "next" /\ UNCHANGED <<now, todo, window>>
        BY <1>7 DEF WriteCommit, AttemptFails, Attempting
  <2>2. Pending' = todo /\ Pending = todo \cup {bucket}
        BY <2>1 DEF Pending
  <2>3. Done' \subseteq Done \cup {bucket}
        BY <2>1, <2>2 DEF Done
  <2>4. \A b \in Done', p \in Pending' : b < p
        BY <2>1, <2>2, <2>3 DEF WindowInv
  <2>5. QED  BY <2>1, <2>4 DEF WindowInv
<1>8. CASE BeginPass
  <2>1. now \in Bucket /\ now <= now
        BY BoundsAssumption DEF TypeInv, TypeOK, Bucket
  <2>2. /\ pc' = "next" /\ todo' = Due(now) /\ window' = Due(now) /\ now' = now
        BY <1>8 DEF BeginPass, Due
  <2>3. ~Attempting' /\ Pending' = todo' /\ Done' = {}
        BY <2>2 DEF Attempting, Pending, Done
  <2>4. QED  BY <2>1, <2>2, <2>3 DEF WindowInv, Due
<1>9. CASE BeginAttempt
  <2>1. /\ pc = "next" /\ pc' = "collect" /\ todo # {} /\ UNCHANGED <<now, window>>
        /\ bucket' = Oldest(todo) /\ todo' = todo \ {bucket'}
        BY <1>9 DEF BeginAttempt
  <2>2. bucket' \in todo /\ \A b \in todo : bucket' <= b
        BY <1>1, <2>1, OldestIs
  <2>3. Pending' = todo /\ Pending = todo /\ Done' = Done /\ Attempting' /\ ~Attempting
        BY <2>1, <2>2 DEF Pending, Done, Attempting
  <2>4. \A p \in todo' : bucket' < p
        BY <1>1, <2>1, <2>2
  <2>5. QED  BY <2>1, <2>2, <2>3, <2>4 DEF WindowInv
<1>10. CASE EndPass
  <2>1. pc = "next" /\ pc' = "idle" /\ todo = {} /\ UNCHANGED <<now, todo, window>>
        BY <1>10 DEF EndPass
  <2>2. QED  BY <2>1 DEF WindowInv, Attempting, Pending, Done
<1>11. CASE Restart
  <2>1. pc' = "idle" /\ todo' = {}
        BY <1>11 DEF Restart
  <2>2. QED  BY <2>1 DEF WindowInv, Attempting, Pending, Done
<1>12. QED  BY <1>3, <1>5, <1>6, <1>7, <1>8, <1>9, <1>10, <1>11 DEF Next, Pass

-----------------------------------------------------------------------------
(***************************************************************************)
(* Commits are backed.                                                     *)
(***************************************************************************)
\* What the index holds and what its copies show, and what those show that the last
\* refresh has reached.
Docs  == {stored} \cup {visible[c] : c \in Copy}
Fresh == {stored} \cup {visible[c] : c \in Copy \ behind}

Says(D, b)  == D.commits[b] # None
Whole(D, b) == Says(D, b) /\ D.commits[b].complete
Waiting     == {left[i] : i \in DOMAIN left}

\* Buckets that are kept, in the memory of one that is rolled or for the rest of
\* their time, and not in doubt.
Kept == {b \in Bucket : \/ b \notin Pruned
                        \/ pc # "idle" /\ \E w \in window : b >= w - Memory}
Sure == Kept \ doubt

\* No commit counts more than was logged, and a complete one counts what there was
\* when its attempt began.
Truthful(D) ==
  \A b \in Bucket, e \in Entity : Says(D, b) =>
    /\ D.commits[b].counts[e] # None => D.commits[b].counts[e] <= Logged(raw, b, e)
    /\ D.commits[b].complete => AtLeast(D.commits[b].counts[e], D.commits[b].floor[e])

\* The commit of D for b is backed by the rows and the metadata of E.
Backs(D, E, b) == Whole(D, b) =>
  \A e \in Entity : /\ AtLeast(E.rows[b][e], D.commits[b].counts[e])
                    /\ AtLeast(E.metas[b][e], D.commits[b].counts[e])

\* What a sound attempt found is not below a commit there is, nor, once the cohort
\* is collected, below what there was when it began.
Above(D) == Attempting /\ sound => \A e \in Entity :
  /\ found[e] # None /\ Whole(D, bucket) => AtLeast(found[e], D.commits[bucket].counts[e])
  /\ whole /\ CohortOf[e] \notin Waiting =>
       /\ AtLeast(found[e], floor[e])
       /\ Whole(D, bucket) => AtLeast(found[e], D.commits[bucket].counts[e])

\* What a sound attempt has written stands.
Stands(e) == Attempting /\ sound /\ found[e] # None =>
  /\ Written => stored.rows[bucket][e] = found[e]
  /\ pc \in {"refresh", "commit"} => stored.metas[bucket][e] = found[e]
  /\ pc = "commit" => \A c \in Copy \ behind :
       visible[c].rows[bucket][e] = found[e] /\ visible[c].metas[bucket][e] = found[e]

AttemptInv ==
  /\ Attempting => \A e \in Entity :
       /\ floor[e] <= Logged(raw, bucket, e)
       /\ found[e] # None => found[e] <= Logged(raw, bucket, e)
  /\ Attempting /\ pc # "collect" => left = <<>>
  /\ Written /\ ~sound => bucket \in doubt

BackInv ==
  /\ AttemptInv
  /\ \A D \in Docs : Truthful(D) /\ Above(D)
  /\ \A D \in Docs, E \in Fresh, b \in Sure : Backs(D, E, b)
  /\ \A e \in Entity : Stands(e)

\* What is not due to be pruned later is not now.
LEMMA StillAfter ==
  ASSUME NEW b \in Int, NEW r \in Int, NEW s \in Int, NEW t \in Int, s <= t, ~(b <= t - r + 1)
  PROVE  ~(b <= s - r + 1)
OBVIOUS

\* No step brings a bucket back: a pass begins with buckets whose memory is kept.
LEMMA KeptShrinks ==
  ASSUME TypeInv, TypeInv', [Next]_vars
  PROVE  Kept' \subseteq Kept
<1>1. now \in Nat /\ now' \in Nat /\ window \subseteq Nat /\ window' \subseteq Nat /\ Bucket \subseteq Nat
      BY BoundsAssumption DEF TypeInv, TypeOK, Bucket
<1>2. now <= now'
      BY <1>1 DEF Next, Environment, Pass, Tick, Log, Refresh, Purge, BeginPass, BeginAttempt,
                  CollectCohort, CollectPart, WriteRows, WriteMetas, RefreshRollup, RefreshPart,
                  WriteCommit, EndPass, Prune, AttemptFails, Restart, vars
<1>3. \/ pc' = "idle" \/ (pc # "idle" /\ window' = window)
      \/ (window' = Due(now) /\ now' = now)
      BY DEF Next, Environment, Pass, Tick, Log, Refresh, Purge, BeginPass, BeginAttempt,
             CollectCohort, CollectPart, WriteRows, WriteMetas, RefreshRollup, RefreshPart,
             WriteCommit, EndPass, Prune, AttemptFails, Restart, vars, Due
<1> SUFFICES ASSUME NEW b \in Kept' PROVE b \in Kept
    OBVIOUS
<1>4. b \in Bucket /\ b \in Nat
      BY <1>1 DEF Kept
<1>5. Backfill \in Nat /\ Memory \in Nat /\ Retention \in Nat /\ Backfill + Memory + 2 <= Retention
      BY BoundsAssumption
<1>6. CASE b \notin Pruned'
  <2>1. b \notin Pruned
    <3>1. ~(b <= now' - Retention + 1)
          BY <1>4, <1>6 DEF Pruned
    <3>2. now \in Int /\ now' \in Int /\ b \in Int /\ Retention \in Int
          BY <1>1, <1>4, <1>5
    <3>3. ~(b <= now - Retention + 1)
          BY <1>2, <3>1, <3>2, StillAfter
    <3>4. QED  BY <3>3 DEF Pruned
  <2>2. QED  BY <1>4, <2>1 DEF Kept
<1>7. ASSUME NEW w \in window', pc' # "idle", b >= w - Memory
      PROVE  b \in Kept
  <2>1. CASE pc # "idle" /\ window' = window
        BY <1>4, <1>7, <2>1 DEF Kept
  <2>2. CASE window' = Due(now) /\ now' = now
    <3>1. w \in Nat /\ now - Backfill <= w
          BY <1>1, <1>7, <2>2 DEF Due
    <3>2. b \notin Pruned
          BY <1>1, <1>4, <1>5, <1>7, <3>1 DEF Pruned
    <3>3. QED  BY <1>4, <3>2 DEF Kept
  <2>3. QED  BY <1>3, <1>7, <2>1, <2>2
<1>8. QED  BY <1>6, <1>7 DEF Kept

LEMMA BackInit == Init => BackInv
<1> SUFFICES ASSUME Init PROVE BackInv
    OBVIOUS
<1>1. ~Attempting /\ ~Written
      BY DEF Init, Attempting, Written
<1>2. \A D \in Docs : D = Empty
      BY DEF Init, Docs
<1>3. \A D \in Docs, b \in Bucket : ~Says(D, b)
      BY <1>2 DEF Says, Empty
<1>4. QED  BY <1>1, <1>3 DEF BackInv, AttemptInv, Truthful, Above, Backs, Stands, Whole, Sure, Kept

\* Commits that were truthful are so of more records.
LEMMA TruthfulGrows ==
  ASSUME TypeInv, TypeInv', raw \subseteq raw', NEW D \in Index, Truthful(D)
  PROVE  Truthful(D)'
<1>1. \A b \in Bucket, e \in Entity :
        /\ Logged(raw, b, e) \in Nat /\ Logged(raw', b, e) \in Nat
        /\ Logged(raw, b, e) <= Logged(raw', b, e)
      BY LoggedGrows DEF TypeInv
<1>2. \A b \in Bucket, e \in Entity :
        Says(D, b) => D.commits[b].counts[e] \in Nat \cup {None}
      BY BoundsAssumption DEF Says, Index, CommitOf, Counts, Row, Count
<1>3. QED  BY <1>1, <1>2 DEF Truthful, Says

LEMMA DocsType ==
  ASSUME TypeInv
  PROVE  Docs \subseteq Index
BY DEF TypeInv, TypeOK, Docs

\* A step that shows nothing new and leaves the attempt as it is.
LEMMA QuietKeeps ==
  ASSUME TypeInv, TypeInv', BackInv, Docs' \subseteq Docs, Fresh' \subseteq Fresh,
         Kept' \subseteq Kept, raw \subseteq raw',
         doubt \subseteq doubt', UNCHANGED <<pc, attempt>>,
         \A e \in Entity : Stands(e)'
  PROVE  BackInv'
<1>1. UNCHANGED <<pc, bucket, left, found, whole, floor, sound>>
      BY DEF attempt
<1>2. AttemptInv'
  <2>1. \A e \in Entity :
          /\ Logged(raw, bucket, e) \in Nat /\ Logged(raw', bucket, e) \in Nat
          /\ Logged(raw, bucket, e) <= Logged(raw', bucket, e)
        BY LoggedGrows DEF TypeInv
  <2>2. floor \in [Entity -> Nat] /\ found \in [Entity -> Nat \cup {None}]
        BY BoundsAssumption DEF TypeInv, TypeOK, Count, Row
  <2>3. QED  BY <1>1, <2>1, <2>2 DEF BackInv, AttemptInv, Attempting, Written
<1>3. \A D \in Docs' : Truthful(D)' /\ Above(D)'
  <2> SUFFICES ASSUME NEW D \in Docs' PROVE Truthful(D)' /\ Above(D)'
      OBVIOUS
  <2>1. D \in Docs /\ D \in Index /\ Truthful(D) /\ Above(D)
        BY DocsType DEF BackInv
  <2>2. Above(D)'
        BY <1>1, <2>1 DEF Above, Attempting, Waiting, Whole, Says
  <2>3. QED  BY <2>1, <2>2, TruthfulGrows
<1>4. Sure' \subseteq Sure
      BY DEF Sure
<1>5. \A D \in Docs', E \in Fresh', b \in Sure' : Backs(D, E, b)
      BY <1>4 DEF BackInv
<1>6. QED  BY <1>2, <1>3, <1>5 DEF BackInv, Backs, Whole, Says

\* A step after which no attempt is on its way.
LEMMA RestKeeps ==
  ASSUME ~Attempting', \A D \in Docs' : Truthful(D)',
         \A D \in Docs', E \in Fresh', b \in Sure' : Backs(D, E, b)
  PROVE  BackInv'
<1>1. ~Written'
      BY DEF Attempting, Written
<1>2. \A D \in Docs', E \in Fresh', b \in Sure' : Backs(D, E, b)'
      BY DEF Backs, Whole, Says
<1>3. QED  BY <1>1, <1>2 DEF BackInv, AttemptInv, Above, Stands

\* Such a step that also shows nothing new.
LEMMA StillKeeps ==
  ASSUME BackInv, ~Attempting', Docs' \subseteq Docs, Fresh' \subseteq Fresh,
         Kept' \subseteq Kept, raw' = raw, doubt \subseteq doubt'
  PROVE  BackInv'
<1>1. Sure' \subseteq Sure
      BY DEF Sure
<1>2. \A D \in Docs' : Truthful(D)'
      BY DEF BackInv, Truthful, Says
<1>3. QED  BY <1>1, <1>2, RestKeeps DEF BackInv

LEMMA BackEnvironment ==
  ASSUME TypeInv, TypeInv', Kept' \subseteq Kept, BackInv, Environment
  PROVE  BackInv'
<1>1. CASE Tick
  <2>1. UNCHANGED <<raw, index, pc, attempt, doubt, behind>>
        BY <1>1 DEF Tick
  <2>2. Docs' = Docs /\ Fresh' = Fresh /\ \A e \in Entity : Stands(e)'
        BY <2>1 DEF BackInv, Docs, Fresh, Stands, Attempting, Written, index, attempt
  <2>3. QED  BY <2>1, <2>2, QuietKeeps
<1>2. ASSUME NEW b \in Bucket, NEW e \in Entity, Log(b, e) PROVE BackInv'
  <2>1. raw \subseteq raw' /\ UNCHANGED <<index, pc, attempt, doubt, behind>>
        BY <1>2 DEF Log
  <2>2. Docs' = Docs /\ Fresh' = Fresh /\ \A d \in Entity : Stands(d)'
        BY <2>1 DEF BackInv, Docs, Fresh, Stands, Attempting, Written, index, attempt
  <2>3. QED  BY <2>1, <2>2, QuietKeeps
<1>3. ASSUME NEW c \in Copy, Refresh(c) PROVE BackInv'
  <2>1. /\ UNCHANGED <<raw, stored, pc, attempt, doubt>>
        /\ visible \in [Copy -> Index] /\ visible' = [visible EXCEPT ![c] = stored]
        /\ behind' = behind \ {c}
        BY <1>3 DEF Refresh, TypeInv, TypeOK
  <2>2. Docs' \subseteq Docs /\ Fresh' \subseteq Fresh
        BY <2>1 DEF Docs, Fresh
  <2>3. ASSUME NEW e \in Entity PROVE Stands(e)'
        BY <2>1 DEF BackInv, Stands, Attempting, Written, attempt
  <2>4. QED  BY <2>1, <2>2, <2>3, QuietKeeps
<1>4. ASSUME NEW c \in Copy, Purge(c) PROVE BackInv'
  <2>1. /\ doubt' = Bucket /\ sound' = (pc \in {"idle", "next"})
        /\ stored' = Without(stored, visible[c], Bucket)
        /\ visible' = [d \in Copy |-> stored']
        /\ UNCHANGED <<raw, pc, bucket, left, found, whole, floor>>
        BY <1>4 DEF Purge
  <2>2. Sure' = {}
        BY <2>1 DEF Sure, Kept
  <2>3. ~(Attempting /\ sound)'
        BY <2>1 DEF Attempting
  <2>4. \A b \in Bucket : stored'.commits[b] \in {None, stored.commits[b]}
        BY <2>1 DEF Without
  <2>5. Truthful(stored)'
        BY <2>1, <2>4 DEF BackInv, Docs, Truthful, Says
  <2>6. \A D \in Docs' : D = stored'
        BY <2>1 DEF Docs
  <2>7. AttemptInv'
        BY <2>1 DEF TypeInv, TypeOK, BackInv, AttemptInv, Attempting, Written
  <2>8. QED  BY <2>2, <2>3, <2>5, <2>6, <2>7 DEF BackInv, Above, Stands, Truthful, Says
<1>5. QED  BY <1>1, <1>2, <1>3, <1>4 DEF Environment

LEMMA BackPrune ==
  ASSUME TypeInv, WindowInv, Kept' \subseteq Kept, BackInv, Prune
  PROVE  BackInv'
<1>1. PICK c \in Copy, gone \in SUBSET Pruned :
        stored' = Without(stored, visible[c], gone)
      BY DEF Prune
<1>2. ~Attempting' /\ UNCHANGED <<raw, visible, doubt, behind>>
      BY DEF Prune, Attempting
<1>3. /\ \A b \in Bucket : stored'.commits[b] \in {None, stored.commits[b]}
      /\ \A b \in Sure, e \in Entity : /\ stored'.rows[b][e] = stored.rows[b][e]
                                       /\ stored'.metas[b][e] = stored.metas[b][e]
  <2>1. now \in Nat /\ Bucket \subseteq Nat /\ window = Due(now)
        BY PruneIsFirst, BoundsAssumption DEF TypeInv, TypeOK, Bucket
  <2>2. ASSUME NEW b \in Kept PROVE b \notin Pruned
    <3>1. b \in Nat /\ (b \notin Pruned \/ \E w \in Due(now) : w \in Nat /\ b >= w - Memory)
          BY <2>1 DEF Kept, Due
    <3>2. QED  BY <2>1, <3>1, BoundsAssumption DEF Pruned, Due
  <2>3. \A b \in Sure : b \in Bucket /\ b \notin gone
        BY <1>1, <2>2 DEF Sure, Kept
  <2>4. QED  BY <1>1, <2>3 DEF Without
<1>4. Sure' \subseteq Sure /\ Docs' \subseteq Docs \cup {stored'} /\ Fresh' \subseteq Fresh \cup {stored'}
      BY <1>2 DEF Sure, Docs, Fresh
<1>5. \A D \in Docs' : Truthful(D)'
      BY <1>2, <1>3, <1>4 DEF BackInv, Docs, Truthful, Says
<1>6. ASSUME NEW D \in Docs', NEW E \in Fresh', NEW b \in Sure' PROVE Backs(D, E, b)
  <2>1. PICK C \in Docs : Whole(D, b) => Whole(C, b) /\ D.commits[b] = C.commits[b]
    <3>1. stored \in Docs /\ b \in Bucket
          BY <1>4 DEF Docs, Sure, Kept
    <3>2. CASE D \in Docs
          BY <3>2
    <3>3. CASE D = stored'
          BY <1>3, <3>1, <3>3 DEF Whole, Says
    <3>4. QED  BY <1>4, <3>2, <3>3
  <2>2. PICK F \in Fresh : \A e \in Entity :
          E.rows[b][e] = F.rows[b][e] /\ E.metas[b][e] = F.metas[b][e]
    <3>1. stored \in Fresh /\ b \in Sure
          BY <1>4 DEF Fresh
    <3>2. CASE E \in Fresh
          BY <3>2
    <3>3. CASE E = stored'
          BY <1>3, <3>1, <3>3
    <3>4. QED  BY <1>4, <3>2, <3>3
  <2>3. Backs(C, F, b)
        BY <1>4 DEF BackInv
  <2>4. QED  BY <2>1, <2>2, <2>3 DEF Backs
<1>7. QED  BY <1>2, <1>5, <1>6, RestKeeps

LEMMA BackBegins ==
  ASSUME TypeInv, TypeInv', Kept' \subseteq Kept, BackInv,
         BeginPass \/ BeginAttempt \/ EndPass \/ Restart
  PROVE  BackInv'
<1>1. CASE BeginPass \/ EndPass \/ Restart
  <2>1. UNCHANGED <<raw, stored, visible, doubt, behind>> /\ ~Attempting'
        BY <1>1 DEF BeginPass, EndPass, Restart, index, Attempting
  <2>2. QED  BY <2>1, StillKeeps DEF Docs, Fresh
<1>2. CASE BeginAttempt
  <2>1. /\ pc' = "collect" /\ left' = Combos /\ found' = NoRows
        /\ floor' = [e \in Entity |-> Logged(raw, bucket', e)]
        /\ UNCHANGED <<raw, stored, visible, doubt, behind>>
        BY <1>2 DEF BeginAttempt, index
  <2>2. Docs' = Docs /\ Fresh' = Fresh /\ Sure' \subseteq Sure /\ ~Written'
        BY <2>1 DEF Docs, Fresh, Sure, Written
  <2>3. AttemptInv'
    <3>1. \A e \in Entity : Logged(raw, bucket', e) \in Nat
          BY LoggedType, BoundsAssumption DEF Count
    <3>2. QED  BY <2>1, <2>2, <3>1 DEF AttemptInv, NoRows
  <2>4. \A e \in Entity : CohortOf[e] \in Waiting' /\ found'[e] = None
    <3>1. \A e \in Entity : CohortOf[e] \in Cohort
          BY InputsAssumption
    <3>2. QED  BY <2>1, <3>1 DEF Cohort, Waiting, NoRows
  <2>5. \A D \in Docs' : Truthful(D)' /\ Above(D)'
        BY <2>1, <2>2, <2>4 DEF BackInv, Truthful, Says, Above
  <2>6. \A D \in Docs', E \in Fresh', b \in Sure' : Backs(D, E, b)'
        BY <2>2 DEF BackInv, Backs, Whole, Says
  <2>7. \A e \in Entity : Stands(e)'
        BY <2>4 DEF Stands
  <2>8. QED  BY <2>3, <2>5, <2>6, <2>7 DEF BackInv
<1>3. QED  BY <1>1, <1>2

\* The cohort that is collected is above every commit there is, as that counts no
\* more than was logged.
\* Who waits no longer was asked.
LEMMA StillWaiting ==
  ASSUME left # <<>>, left \in Seq(Cohort), left' = Tail(left)
  PROVE  \A e \in Entity : CohortOf[e] \notin Waiting' => CohortOf[e] \notin Waiting \/ e \in Asked
<1>1. \A i \in DOMAIN left : i = 1 \/ (i - 1 \in DOMAIN Tail(left) /\ left[i] = Tail(left)[i - 1])
      OBVIOUS
<1>2. Head(left) = left[1]
      OBVIOUS
<1>3. ASSUME NEW e \in Entity, CohortOf[e] \in Waiting, e \notin Asked
      PROVE  CohortOf[e] \in Waiting'
  <2>1. PICK i \in DOMAIN left : left[i] = CohortOf[e]
        BY <1>3 DEF Waiting
  <2>2. i # 1
        BY <1>2, <1>3, <2>1 DEF Asked
  <2>3. i - 1 \in DOMAIN left' /\ left'[i - 1] = CohortOf[e]
        BY <1>1, <2>1, <2>2
  <2>4. QED  BY <2>3 DEF Waiting
<1>4. QED  BY <1>3

LEMMA BackCollect ==
  ASSUME TypeInv, TypeInv', Kept' \subseteq Kept, BackInv, CollectCohort \/ CollectPart
  PROVE  BackInv'
<1>1. PICK unseen \in SUBSET Asked, roster \in SUBSET Asked :
        Collect(unseen, roster) /\ (sound' => sound /\ unseen = {})
  <2>1. \A c \in Copy : Rosters(c) \subseteq SUBSET Asked
        BY DEF Rosters, Recent
  <2>2. QED  BY <2>1 DEF CollectCohort, CollectPart, TypeInv, TypeOK
<1>2. /\ pc = "collect" /\ left # <<>> /\ left \in Seq(Cohort) /\ bucket \in Bucket
      /\ UNCHANGED <<raw, stored, visible, bucket, floor, doubt, behind>>
      BY DEF TypeInv, TypeOK, CollectCohort, CollectPart, index
<1>3. /\ left' = Tail(left) /\ pc' \in {"rows", "collect"} /\ (pc' = "collect" <=> left' # <<>>)
      /\ (whole' => whole)
      /\ \A e \in Entity \ Asked : found'[e] = found[e]
      /\ \A e \in Asked : found'[e] \in {Logged(raw, bucket, e), 0, found[e]}
      /\ unseen = {} => \A e \in Asked :
           /\ found'[e] \in {Logged(raw, bucket, e), found[e]}
           /\ whole' => found'[e] = Logged(raw, bucket, e) \/ Logged(raw, bucket, e) = 0
      BY <1>1, <1>2, CollectIs
<1>4. /\ Docs' = Docs /\ Fresh' = Fresh /\ Sure' \subseteq Sure
      /\ ~Written' /\ Attempting /\ Attempting'
      BY <1>2, <1>3 DEF Docs, Fresh, Sure, Written, Attempting
<1>5. \A e \in Entity : CohortOf[e] \notin Waiting' => CohortOf[e] \notin Waiting \/ e \in Asked
      BY <1>2, <1>3, StillWaiting
<1>6. /\ \A e \in Entity : Logged(raw, bucket, e) \in Nat /\ floor[e] \in Nat
      /\ \A e \in Entity : found[e] \in Nat \cup {None} /\ found'[e] \in Nat \cup {None}
      /\ Asked \subseteq Entity
      BY LoggedType, BoundsAssumption DEF TypeInv, TypeOK, Count, Row, Asked
<1>7. AttemptInv'
  <2>1. \A e \in Entity : found'[e] # None => found'[e] <= Logged(raw, bucket, e)
        BY <1>3, <1>4, <1>6 DEF BackInv, AttemptInv
  <2>2. \A e \in Entity : floor[e] <= Logged(raw, bucket, e)
        BY <1>4 DEF BackInv, AttemptInv
  <2>3. pc' # "collect" => left' = <<>>
        BY <1>3
  <2>4. QED  BY <1>2, <1>4, <2>1, <2>2, <2>3 DEF AttemptInv
<1>8. ASSUME NEW D \in Docs PROVE Above(D)'
  <2> SUFFICES ASSUME sound', NEW e \in Entity
               PROVE  /\ found'[e] # None /\ Whole(D, bucket) =>
                           AtLeast(found'[e], D.commits[bucket].counts[e])
                      /\ whole' /\ CohortOf[e] \notin Waiting' =>
                           /\ AtLeast(found'[e], floor[e])
                           /\ Whole(D, bucket) =>
                                AtLeast(found'[e], D.commits[bucket].counts[e])
      BY <1>2 DEF Above, Whole, Says
  <2> DEFINE n == D.commits[bucket].counts[e]
             l == Logged(raw, bucket, e)
  <2>1. sound /\ unseen = {}
        BY <1>1
  <2>2. /\ found[e] # None /\ Whole(D, bucket) => AtLeast(found[e], n)
        /\ whole /\ CohortOf[e] \notin Waiting =>
             AtLeast(found[e], floor[e]) /\ (Whole(D, bucket) => AtLeast(found[e], n))
        BY <1>4, <2>1 DEF BackInv, Above
  <2>3. Whole(D, bucket) => n = None \/ (n \in Nat /\ n <= l)
    <3>1. D \in Index /\ Truthful(D)
          BY DocsType DEF BackInv
    <3>2. Whole(D, bucket) => n \in Nat \cup {None}
          BY <1>2, <3>1, BoundsAssumption DEF Whole, Says, Index, CommitOf, Counts, Row, Count
    <3>3. QED  BY <1>2, <3>1, <3>2 DEF Truthful, Whole, Says
  <2>4. floor[e] <= l /\ l \in Nat /\ floor[e] \in Nat
        BY <1>4, <1>6 DEF BackInv, AttemptInv
  <2>5. \A m : m = None \/ (m \in Nat /\ m <= l) => AtLeast(l, m) /\ (l = 0 => AtLeast(found'[e], m))
        BY <2>4, InputsAssumption DEF AtLeast
  <2> HIDE DEF n, l
  <2>6. CASE e \in Asked
    <3>1. found'[e] \in {l, found[e]} /\ (whole' => found'[e] = l \/ l = 0)
          BY <1>3, <2>1, <2>6 DEF l
    <3>2. QED  BY <2>2, <2>3, <2>4, <2>5, <3>1 DEF n
  <2>7. CASE e \notin Asked
        BY <1>3, <1>5, <2>2, <2>7 DEF n
  <2>8. QED  BY <2>6, <2>7
<1>9. \A D \in Docs' : Truthful(D)' /\ Above(D)'
      BY <1>2, <1>4, <1>8 DEF BackInv, Truthful, Says
<1>10. \A D \in Docs', E \in Fresh', b \in Sure' : Backs(D, E, b)'
       BY <1>4 DEF BackInv, Backs, Whole, Says
<1>11. \A e \in Entity : Stands(e)'
       BY <1>3, <1>4 DEF Stands
<1>12. QED  BY <1>7, <1>9, <1>10, <1>11 DEF BackInv

-----------------------------------------------------------------------------
(***************************************************************************)
(* What an attempt writes keeps every commit backed, also in part.         *)
(***************************************************************************)
\* Documents X with the commits of the index, and with rows that keep or raise what
\* a commit counts, are backed and back.
LEMMA StoreBacks ==
  ASSUME TypeInv, BackInv, NEW X \in Index, X.commits = stored.commits,
         NEW sure \in SUBSET Sure,
         \A D \in Docs, b \in sure : Backs(D, X, b)
  PROVE  /\ Truthful(X)
         /\ \A D \in Docs \cup {X}, E \in Fresh \cup {X}, b \in sure : Backs(D, E, b)
<1>1. stored \in Docs
      BY DEF Docs
<1>2. Truthful(X)
      BY <1>1 DEF BackInv, Truthful, Says
<1>3. ASSUME NEW D \in Docs \cup {X}, NEW E \in Fresh \cup {X}, NEW b \in sure
      PROVE  Backs(D, E, b)
  <2>1. PICK C \in Docs : C.commits = D.commits
        BY <1>1
  <2>2. Backs(C, E, b)
        BY DEF BackInv
  <2>3. QED  BY <2>1, <2>2 DEF Backs, Whole, Says
<1>4. QED  BY <1>2, <1>3

LEMMA RowsBack ==
  ASSUME TypeInv, BackInv, pc = "rows", NEW S \in SUBSET Entity,
         NEW sure \in SUBSET Sure, ~sound => bucket \notin sure
  PROVE  /\ Truthful(RowsWith(S))
         /\ \A D \in Docs \cup {RowsWith(S)}, E \in Fresh \cup {RowsWith(S)}, b \in sure : Backs(D, E, b)
<1> DEFINE X == RowsWith(S)
<1>1. /\ X \in Index /\ X.metas = stored.metas /\ X.commits = stored.commits
      /\ \A b \in Bucket \ {bucket} : X.rows[b] = stored.rows[b]
      /\ \A e \in Entity : X.rows[bucket][e] =
           IF e \in S /\ found[e] # None THEN found[e] ELSE stored.rows[bucket][e]
      BY RowsWithIs
<1> HIDE DEF X
<1>2. ASSUME NEW D \in Docs, NEW b \in sure PROVE Backs(D, X, b)
  <2>1. Backs(D, stored, b) /\ b \in Bucket /\ Above(D)
        BY DEF BackInv, Fresh, Sure, Kept
  <2>2. CASE b # bucket
        BY <1>1, <2>1, <2>2 DEF Backs
  <2>3. CASE b = bucket
    <3>1. sound /\ Attempting
          BY <2>3 DEF TypeInv, TypeOK, Attempting
    <3>2. QED  BY <1>1, <2>1, <2>3, <3>1 DEF Backs, Above
  <2>4. QED  BY <2>2, <2>3
<1>3. QED  BY <1>1, <1>2, StoreBacks DEF X

LEMMA MetasBack ==
  ASSUME TypeInv, BackInv, pc = "metas", NEW C \in SUBSET Cohort,
         NEW sure \in SUBSET Sure, ~(sound /\ whole) => bucket \notin sure
  PROVE  /\ Truthful(MetasWith(C))
         /\ \A D \in Docs \cup {MetasWith(C)}, E \in Fresh \cup {MetasWith(C)}, b \in sure : Backs(D, E, b)
<1> DEFINE X == MetasWith(C)
<1>1. /\ X \in Index /\ X.rows = stored.rows /\ X.commits = stored.commits
      /\ \A b \in Bucket \ {bucket} : X.metas[b] = stored.metas[b]
      /\ \A e \in Entity : X.metas[bucket][e] =
           IF CohortOf[e] \in C THEN found[e] ELSE stored.metas[bucket][e]
      BY MetasWithIs
<1> HIDE DEF X
<1>2. ASSUME NEW D \in Docs, NEW b \in sure PROVE Backs(D, X, b)
  <2>1. Backs(D, stored, b) /\ b \in Bucket /\ Above(D)
        BY DEF BackInv, Fresh, Sure, Kept
  <2>2. CASE b # bucket
        BY <1>1, <2>1, <2>2 DEF Backs
  <2>3. CASE b = bucket
    <3>1. sound /\ whole /\ Attempting /\ Waiting = {}
          BY <2>3 DEF BackInv, AttemptInv, Attempting, Waiting
    <3>2. Whole(D, bucket) => \A e \in Entity : AtLeast(found[e], D.commits[bucket].counts[e])
          BY <2>1, <3>1 DEF Above
    <3>3. QED  BY <1>1, <2>1, <2>3, <3>2 DEF Backs
  <2>4. QED  BY <2>2, <2>3
<1>3. QED  BY <1>1, <1>2, StoreBacks DEF X

\* The commit of a sound attempt is backed on every copy, as the index was refreshed
\* after its rows and its metadata; so are those before it.
LEMMA CommitBack ==
  ASSUME TypeInv, BackInv, pc = "commit", NEW sure \in SUBSET Bucket,
         sure \subseteq Sure \/ (sound /\ whole /\ sure \subseteq Sure \cup {bucket})
  PROVE  /\ Truthful(Commit)
         /\ \A D \in Docs \cup {Commit}, E \in Fresh \cup {Commit}, b \in sure : Backs(D, E, b)
<1> DEFINE X == Commit
<1>1. /\ X \in Index /\ X.rows = stored.rows /\ X.metas = stored.metas
      /\ \A b \in Bucket \ {bucket} : X.commits[b] = stored.commits[b]
      /\ Says(X, bucket)
      /\ X.commits[bucket].complete = whole /\ X.commits[bucket].counts = found
      /\ \A e \in Entity : X.commits[bucket].floor[e] = IF sound THEN floor[e] ELSE 0
      BY CommitIs DEF Says
<1> HIDE DEF X
<1>2. /\ stored \in Docs /\ stored \in Fresh /\ bucket \in Bucket /\ Attempting /\ Written /\ Waiting = {}
      /\ whole \in BOOLEAN /\ sound \in BOOLEAN
      BY DEF TypeInv, TypeOK, BackInv, AttemptInv, Docs, Fresh, Attempting, Written, Waiting
<1>3. sound /\ whole => \A e \in Entity :
        /\ AtLeast(found[e], floor[e])
        /\ \A D \in Docs : Whole(D, bucket) => AtLeast(found[e], D.commits[bucket].counts[e])
      BY <1>2 DEF BackInv, Above
<1>4. Truthful(X)
  <2>1. ASSUME NEW e \in Entity
        PROVE  /\ found[e] # None => found[e] <= Logged(raw, bucket, e)
               /\ whole => AtLeast(found[e], X.commits[bucket].floor[e])
        BY <1>1, <1>2, <1>3 DEF BackInv, AttemptInv, AtLeast
  <2>2. \A b \in Bucket \ {bucket}, e \in Entity : Says(X, b) =>
          /\ X.commits[b].counts[e] # None => X.commits[b].counts[e] <= Logged(raw, b, e)
          /\ X.commits[b].complete => AtLeast(X.commits[b].counts[e], X.commits[b].floor[e])
        BY <1>1, <1>2 DEF BackInv, Truthful, Says
  <2>3. QED  BY <1>1, <2>1, <2>2 DEF Truthful
<1>5. ASSUME NEW D \in Docs \cup {X}, NEW E \in Fresh \cup {X}, NEW b \in sure
      PROVE  Backs(D, E, b)
  <2>1. PICK F \in Fresh : F.rows = E.rows /\ F.metas = E.metas
        BY <1>1, <1>2
  <2>2. SUFFICES Backs(D, F, b)
        BY <2>1 DEF Backs
  <2>3. CASE b # bucket
    <3>1. b \in Sure
          BY <2>3
    <3>2. PICK C \in Docs : C.commits[b] = D.commits[b]
          BY <1>1, <1>2, <2>3
    <3>3. Backs(C, F, b)
          BY <3>1 DEF BackInv
    <3>4. QED  BY <3>2, <3>3 DEF Backs, Whole, Says
  <2>4. CASE b = bucket /\ bucket \in Sure /\ D \in Docs
        BY <2>4 DEF BackInv
  <2>5. CASE b = bucket /\ ~(bucket \in Sure /\ D \in Docs)
    <3>1. SUFFICES ASSUME Whole(D, bucket) PROVE Backs(D, F, bucket)
          BY <2>5 DEF Backs
    <3>2. sound /\ whole
          BY <1>1, <1>2, <2>5, <3>1 DEF Whole, BackInv, AttemptInv, Sure
    <3>3. ASSUME NEW e \in Entity
          PROVE  /\ found[e] # None => F.rows[bucket][e] = found[e] /\ F.metas[bucket][e] = found[e]
                 /\ AtLeast(found[e], D.commits[bucket].counts[e])
      <4>1. found[e] # None => F.rows[bucket][e] = found[e] /\ F.metas[bucket][e] = found[e]
            BY <1>2, <3>2 DEF BackInv, Stands, Fresh
      <4>2. AtLeast(found[e], found[e])
            BY BoundsAssumption DEF TypeInv, TypeOK, Row, Count, AtLeast
      <4>3. QED  BY <1>1, <1>3, <3>1, <3>2, <4>1, <4>2
    <3>4. QED  BY <3>3 DEF Backs, AtLeast
  <2>6. QED  BY <2>3, <2>4, <2>5
<1>6. QED  BY <1>4, <1>5 DEF X

\* A write that goes on with its attempt.
LEMMA WriteKeeps ==
  ASSUME TypeInv, BackInv, Attempting, Attempting', pc' # "collect", left = <<>>,
         UNCHANGED <<raw, bucket, left, found, whole, floor, sound>>,
         \A D \in Docs' : Truthful(D) /\ \E C \in Docs : C.commits = D.commits,
         \A D \in Docs', E \in Fresh', b \in Sure' : Backs(D, E, b),
         Written' /\ ~sound => bucket \in doubt',
         \A e \in Entity : Stands(e)'
  PROVE  BackInv'
<1>1. AttemptInv'
      BY DEF BackInv, AttemptInv
<1>2. ASSUME NEW D \in Docs' PROVE Truthful(D)' /\ Above(D)'
  <2>1. PICK C \in Docs : C.commits = D.commits
        OBVIOUS
  <2>2. Above(C)
        BY DEF BackInv
  <2>3. QED  BY <2>1, <2>2 DEF Truthful, Says, Above, Whole, Waiting
<1>3. \A D \in Docs', E \in Fresh', b \in Sure' : Backs(D, E, b)'
      BY DEF Backs, Whole, Says
<1>4. QED  BY <1>1, <1>2, <1>3 DEF BackInv

LEMMA BackWrites ==
  ASSUME TypeInv, TypeInv', Kept' \subseteq Kept, BackInv,
         WriteRows \/ WriteMetas \/ RefreshRollup \/ RefreshPart
  PROVE  BackInv'
<1>1. left = <<>> /\ Attempting /\ Attempting' /\ pc' # "collect"
      /\ UNCHANGED <<raw, bucket, left, found, whole, floor, sound>>
      BY DEF WriteRows, WriteMetas, RefreshRollup, RefreshPart, attempt, BackInv, AttemptInv, Attempting
<1>2. stored \in Docs /\ stored \in Fresh
      BY DEF Docs, Fresh
<1>3. CASE WriteRows
  <2>1. /\ pc = "rows" /\ pc' = "metas" /\ stored' = RowsWith(Entity) /\ visible' = visible
        /\ doubt' = (IF sound THEN doubt ELSE doubt \cup {bucket}) /\ behind' = behind
        BY <1>3 DEF WriteRows, Doubted
  <2>2. Docs' \subseteq Docs \cup {RowsWith(Entity)} /\ Fresh' \subseteq Fresh \cup {RowsWith(Entity)}
        BY <2>1 DEF Docs, Fresh
  <2>3. Sure' \in SUBSET Sure /\ (~sound => bucket \notin Sure')
        BY <1>1, <2>1 DEF Sure
  <2>4. /\ Truthful(RowsWith(Entity)) /\ RowsWith(Entity).commits = stored.commits
        /\ \A D \in Docs \cup {RowsWith(Entity)}, E \in Fresh \cup {RowsWith(Entity)}, b \in Sure' :
             Backs(D, E, b)
        BY <2>1, <2>3, RowsBack, RowsWithIs
  <2>5. ASSUME NEW e \in Entity PROVE Stands(e)'
    <3>1. found[e] # None => RowsWith(Entity).rows[bucket][e] = found[e]
          BY RowsWithIs
    <3>2. QED  BY <1>1, <2>1, <3>1 DEF Stands
  <2>6. \A D \in Docs' : Truthful(D) /\ \E C \in Docs : C.commits = D.commits
        BY <1>2, <2>2, <2>4 DEF BackInv
  <2>7. bucket \in doubt' \/ sound
        BY <2>1
  <2>8. QED  BY <1>1, <2>2, <2>4, <2>5, <2>6, <2>7, WriteKeeps
<1>4. CASE WriteMetas
  <2>1. /\ pc = "metas" /\ pc' = "refresh" /\ stored' = MetasWith(Cohort) /\ visible' = visible
        /\ doubt' = (IF sound /\ whole THEN doubt ELSE doubt \cup {bucket}) /\ behind' = behind
        BY <1>4 DEF WriteMetas, Doubted
  <2>2. /\ Docs' \subseteq Docs \cup {MetasWith(Cohort)} /\ Fresh' \subseteq Fresh \cup {MetasWith(Cohort)}
        /\ Sure' \in SUBSET Sure /\ (~(sound /\ whole) => bucket \notin Sure')
        BY <1>1, <2>1 DEF Docs, Fresh, Sure
  <2>3. /\ Truthful(MetasWith(Cohort)) /\ MetasWith(Cohort).commits = stored.commits
        /\ \A D \in Docs \cup {MetasWith(Cohort)}, E \in Fresh \cup {MetasWith(Cohort)}, b \in Sure' :
             Backs(D, E, b)
        BY <2>1, <2>2, MetasBack, MetasWithIs
  <2>4. ASSUME NEW e \in Entity PROVE Stands(e)'
    <3>1. /\ MetasWith(Cohort).metas[bucket][e] = found[e]
          /\ MetasWith(Cohort).rows = stored.rows
          BY MetasWithIs, InputsAssumption
    <3>2. Attempting /\ sound /\ found[e] # None => stored.rows[bucket][e] = found[e]
          BY <2>1 DEF BackInv, Stands, Written
    <3>3. QED  BY <1>1, <2>1, <3>1, <3>2 DEF Stands
  <2>5. \A D \in Docs' : Truthful(D) /\ \E C \in Docs : C.commits = D.commits
        BY <1>2, <2>2, <2>3 DEF BackInv
  <2>6. bucket \in doubt' \/ sound
        BY <2>1 DEF BackInv, AttemptInv, Written
  <2>7. QED  BY <1>1, <2>2, <2>3, <2>4, <2>5, <2>6, WriteKeeps
<1>5. CASE RefreshRollup \/ RefreshPart
  <2>1. /\ pc = "refresh" /\ pc' = "commit" /\ stored' = stored /\ doubt' = doubt
        /\ \A c \in Copy : visible'[c] \in {visible[c], stored}
        /\ \A c \in Copy \ behind' : visible'[c] = stored
        BY <1>5 DEF RefreshRollup, RefreshPart, Refreshed
  <2>2. Docs' \subseteq Docs /\ Fresh' \subseteq Fresh /\ Sure' \subseteq Sure
        BY <1>1, <2>1 DEF Docs, Fresh, Sure
  <2>3. ASSUME NEW e \in Entity PROVE Stands(e)'
        BY <1>1, <2>1 DEF BackInv, Stands, Written
  <2>4. /\ \A D \in Docs' : Truthful(D) /\ \E C \in Docs : C.commits = D.commits
        /\ \A D \in Docs', E \in Fresh', b \in Sure' : Backs(D, E, b)
        BY <2>2 DEF BackInv
  <2>5. bucket \in doubt' \/ sound
        BY <2>1 DEF BackInv, AttemptInv, Written
  <2>6. QED  BY <1>1, <2>2, <2>3, <2>4, <2>5, WriteKeeps
<1>6. QED  BY <1>3, <1>4, <1>5

LEMMA BackEnds ==
  ASSUME TypeInv, TypeInv', Kept' \subseteq Kept, BackInv, WriteCommit \/ AttemptFails
  PROVE  BackInv'
<1>1. ~Attempting' /\ UNCHANGED <<raw, visible, behind>>
      BY DEF WriteCommit, AttemptFails, Attempting
<1>2. ASSUME NEW X \in Index, stored' = X, Truthful(X), doubt' \subseteq Bucket,
             \A D \in Docs \cup {X}, E \in Fresh \cup {X}, b \in Sure' : Backs(D, E, b)
      PROVE  BackInv'
  <2>1. Docs' \subseteq Docs \cup {X} /\ Fresh' \subseteq Fresh \cup {X}
        BY <1>1, <1>2 DEF Docs, Fresh
  <2>2. \A D \in Docs' : Truthful(D)'
        BY <1>1, <1>2, <2>1 DEF BackInv, Truthful, Says
  <2>3. \A D \in Docs', E \in Fresh', b \in Sure' : Backs(D, E, b)
        BY <1>2, <2>1
  <2>4. QED  BY <1>1, <2>2, <2>3, RestKeeps
<1>3. doubt' \subseteq Bucket /\ stored \in Index
      BY DEF TypeInv, TypeOK
<1>4. CASE stored' = stored /\ doubt' = doubt
  <2>1. Docs' \subseteq Docs /\ Fresh' \subseteq Fresh
        BY <1>1, <1>4 DEF Docs, Fresh
  <2>2. QED  BY <1>1, <1>4, <2>1, StillKeeps
<1>5. CASE pc = "commit" /\ stored' = Commit
           /\ (doubt' = doubt \/ (sound /\ whole /\ doubt' = doubt \ {bucket}))
  <2>1. Sure' \subseteq Sure \/ (sound /\ whole /\ Sure' \subseteq Sure \cup {bucket})
        BY <1>1, <1>5 DEF Sure
  <2>2. Sure' \in SUBSET Bucket
        BY DEF Sure, Kept
  <2>3. QED  BY <1>2, <1>3, <1>5, <2>1, <2>2, CommitBack, CommitIs
<1>6. ASSUME pc = "rows", NEW S \in SUBSET Entity, stored' = RowsWith(S), doubt' = Doubted(sound)
      PROVE  BackInv'
  <2>1. Sure' \in SUBSET Sure /\ (~sound => bucket \notin Sure')
        BY <1>1, <1>6 DEF Sure, Doubted
  <2>2. QED  BY <1>2, <1>3, <1>6, <2>1, RowsBack, RowsWithIs
<1>7. ASSUME pc = "metas", NEW C \in SUBSET Cohort, stored' = MetasWith(C),
             doubt' = Doubted(sound /\ whole)
      PROVE  BackInv'
  <2>1. Sure' \in SUBSET Sure /\ (~(sound /\ whole) => bucket \notin Sure')
        BY <1>1, <1>7 DEF Sure, Doubted
  <2>2. QED  BY <1>2, <1>3, <1>7, <2>1, MetasBack, MetasWithIs
<1>8. CASE WriteCommit
      BY <1>5, <1>8 DEF WriteCommit
<1>9. CASE AttemptFails
      BY <1>4, <1>5, <1>6, <1>7, <1>9 DEF AttemptFails
<1>10. QED  BY <1>8, <1>9

LEMMA BackStep == TypeInv /\ TypeInv' /\ WindowInv /\ BackInv /\ [Next]_vars => BackInv'
<1> SUFFICES ASSUME TypeInv, TypeInv', WindowInv, BackInv, [Next]_vars PROVE BackInv'
    OBVIOUS
<1> Kept' \subseteq Kept
    BY KeptShrinks
<1>1. CASE UNCHANGED vars
  <2>1. UNCHANGED <<raw, index, pc, attempt, doubt, behind>>
        BY <1>1 DEF vars
  <2>2. Docs' = Docs /\ Fresh' = Fresh /\ \A e \in Entity : Stands(e)'
        BY <2>1 DEF BackInv, Docs, Fresh, Stands, Attempting, Written, index, attempt
  <2>3. QED  BY <2>1, <2>2, QuietKeeps
<1>2. QED  BY <1>1, BackEnvironment, BackPrune, BackBegins, BackCollect, BackWrites, BackEnds
           DEF Next, Pass

-----------------------------------------------------------------------------
(***************************************************************************)
(* What is done in a pass nothing went wrong in.                           *)
(***************************************************************************)
HealInv ==
  /\ clean => behind = {}
  /\ clean /\ Attempting => sound
  /\ clean => \A b \in Done : Says(stored, b) /\ b \notin doubt

LEMMA HealInit == Init => HealInv
BY DEF Init, HealInv

LEMMA HealStep == TypeInv /\ WindowInv /\ HealInv /\ [Next]_vars => HealInv'
<1> SUFFICES ASSUME TypeInv, WindowInv, HealInv, [Next]_vars PROVE HealInv'
    OBVIOUS
<1>1. CASE clean' = FALSE
      BY <1>1 DEF HealInv
<1>2. CASE (\E c \in Copy : Purge(c)) \/ CollectPart \/ RefreshPart \/ AttemptFails \/ Restart
      BY <1>1, <1>2 DEF Purge, CollectPart, RefreshPart, AttemptFails, Restart
<1>3. ASSUME UNCHANGED <<clean, sound, todo, bucket, window, doubt>>, stored'.commits = stored.commits,
             Attempting' <=> Attempting, behind' \subseteq behind
      PROVE  HealInv'
  <2>1. Done' = Done
        BY <1>3 DEF Done, Pending
  <2>2. QED  BY <1>3, <2>1 DEF HealInv, Says
<1>4. CASE UNCHANGED vars \/ Tick \/ (\E b \in Bucket, e \in Entity : Log(b, e)) \/ (\E c \in Copy : Refresh(c))
      BY <1>3, <1>4 DEF vars, index, attempt, Tick, Log, Refresh, Attempting
<1>5. CASE CollectCohort \/ RefreshRollup \/ EndPass
  <2>1. UNCHANGED <<clean, sound, todo, bucket, window, doubt>>
        BY <1>5 DEF CollectCohort, RefreshRollup, EndPass, attempt, index
  <2>2. stored'.commits = stored.commits
        BY <1>5 DEF CollectCohort, RefreshRollup, EndPass, index
  <2>3. (Attempting' <=> Attempting) /\ behind' \subseteq behind
        BY <1>5 DEF CollectCohort, Collect, RefreshRollup, EndPass, Attempting
  <2>4. QED  BY <1>3, <2>1, <2>2, <2>3
<1>6. CASE WriteRows \/ WriteMetas
  <2>1. stored'.commits = stored.commits /\ Attempting /\ Attempting' /\ doubt' \subseteq doubt \cup {bucket}
        BY <1>6, RowsWithIs, MetasWithIs DEF WriteRows, WriteMetas, Attempting, Doubted
  <2>2. UNCHANGED <<clean, sound, todo, bucket, window, behind>>
        BY <1>6 DEF WriteRows, WriteMetas, attempt
  <2>3. Done' = Done /\ bucket \notin Done
        BY <2>1, <2>2 DEF Done, Pending
  <2>4. QED  BY <2>1, <2>2, <2>3 DEF HealInv, Says
<1>7. CASE BeginPass
  <2>1. ~Attempting' /\ Done' = {} /\ (clean' => behind' = {})
        BY <1>7 DEF BeginPass, Due, Attempting, Done, Pending
  <2>2. QED  BY <2>1 DEF HealInv
<1>8. CASE BeginAttempt
  <2>1. sound' = TRUE /\ UNCHANGED <<stored, window, clean, doubt, behind>>
        BY <1>8 DEF BeginAttempt, index
  <2>2. todo' \cup {bucket'} = todo
        BY <1>8, OldestIs DEF BeginAttempt, TypeInv, TypeOK
  <2>3. Done' = Done
        BY <1>8, <2>1, <2>2 DEF BeginAttempt, Done, Pending, Attempting
  <2>4. QED  BY <2>1, <2>3 DEF HealInv, Says
<1>9. CASE WriteCommit
  <2>1. /\ Attempting /\ ~Attempting' /\ UNCHANGED <<todo, window, behind>> /\ (clean' => clean /\ whole)
        /\ stored' = Commit /\ doubt' = IF sound /\ whole THEN doubt \ {bucket} ELSE doubt
        BY <1>9 DEF WriteCommit, Attempting
  <2>2. Done' \subseteq Done \cup {bucket}
        BY <2>1 DEF Done, Pending
  <2>3. \A b \in Bucket : Says(stored, b) \/ b = bucket => stored'.commits[b] # None
        BY <2>1, CommitIs DEF Says
  <2>4. Done' \subseteq Bucket
        BY <2>1 DEF Done, TypeInv, TypeOK
  <2>5. QED  BY <2>1, <2>2, <2>3, <2>4 DEF HealInv, Says
<1>10. CASE Prune
  <2>1. Done = {} /\ ~Attempting' /\ UNCHANGED <<pc, todo, bucket, window, clean, behind>>
        BY <1>10, PruneIsFirst DEF Prune, Attempting, attempt
  <2>2. Done' = {}
        BY <2>1 DEF Done, Pending, Attempting
  <2>3. QED  BY <2>1, <2>2 DEF HealInv
<1>11. QED  BY <1>2, <1>4, <1>5, <1>6, <1>7, <1>8, <1>9, <1>10 DEF Next, Environment, Pass

-----------------------------------------------------------------------------
(***************************************************************************)
(* Who is silent in a bucket has a row there.                              *)
(***************************************************************************)
RowsAreLogged ==
  \A b \in Bucket, e \in Entity :
    stored.rows[b][e] # None => stored.rows[b][e] <= Logged(raw, b, e)

\* The memory of b holds e, and the roster of its cohort is whole.
Remembers(b, e) ==
  /\ <<b, CohortOf[e]>> \notin cut
  /\ \E a \in (b - Memory .. b - 1) \cap (Bucket \ doubt) : Whole(stored, a) /\ stored.commits[a].floor[e] > 0

\* The cohort of e logged: what is stored says so, or what this attempt found.
Loud(b, e)  == \E d \in Entity : CohortOf[d] = CohortOf[e] /\ stored.rows[b][d] \notin {None, 0}
Heard(e)    == \E d \in Entity : CohortOf[d] = CohortOf[e] /\ found[d] \notin {None, 0}

SilentInv ==
  /\ RowsAreLogged
  /\ clean => \A b \in Done, e \in Entity : Loud(b, e) /\ Remembers(b, e) => stored.rows[b][e] # None
  /\ clean /\ Attempting /\ whole => \A e \in Entity :
       CohortOf[e] \notin Waiting /\ (Loud(bucket, e) \/ Heard(e)) /\ Remembers(bucket, e) => found[e] # None

LEMMA SilentInit == Init => SilentInv
BY DEF Init, SilentInv, RowsAreLogged, Empty, NoRows

\* An attempt that leaves nobody out gives a row to all of the roster once one of
\* their cohort logged.
LEMMA CollectSees ==
  ASSUME TypeInv, left # <<>>, NEW roster \in SUBSET Asked, Collect({}, roster), whole',
         NEW d \in Asked, Logged(raw, bucket, d) > 0, NEW e \in roster
  PROVE  found'[e] # None
<1> DEFINE present == {a \in Asked : Logged(raw, bucket, a) > 0} \ {}
           kept    == IF present = {} THEN {} ELSE First(MaxEntities, present)
           absent  == IF kept = {} THEN {} ELSE roster \ kept
           room    == MaxEntities - Cardinality(kept)
<1>1. MaxEntities \in Nat /\ Asked \subseteq Entity /\ present \in SUBSET Entity /\ d \in present
      BY BoundsAssumption DEF Asked
<1>2. /\ found' = [a \in Entity |-> IF a \in kept THEN Logged(raw, bucket, a)
                                    ELSE IF a \in First(room, absent) THEN 0 ELSE found[a]]
      /\ ~Truncated(present) /\ Cardinality(absent) <= room
      BY DEF Collect
<1>3. kept = present
  <2>1. Cardinality(present) < MaxEntities
    <3>1. IsFiniteSet(present)
          BY <1>1, FS_Subset, InputsAssumption
    <3>2. ~(Cardinality(present) >= MaxEntities) /\ Cardinality(present) \in Nat
          BY <1>1, <1>2, <3>1, FS_CardinalityType DEF Truncated
    <3> HIDE DEF present
    <3>3. QED  BY <1>1, <3>2
  <2>2. IsFiniteSet(present)
        BY <1>1, FS_Subset, InputsAssumption
  <2> HIDE DEF present
  <2>3. Cardinality(present) <= MaxEntities
        BY <1>1, <2>1, <2>2, FS_CardinalityType
  <2>4. QED  BY <1>1, <2>3, FirstIsAll
<1>4. absent = roster \ kept
      BY <1>1, <1>3
<1>5. First(room, absent) = absent
  <2>1. absent \in SUBSET Entity /\ IsFiniteSet(absent) /\ IsFiniteSet(kept)
        BY <1>1, <1>3, <1>4, FS_Subset, InputsAssumption
  <2> HIDE DEF absent, kept, present
  <2>2. Cardinality(absent) \in Nat /\ Cardinality(kept) \in Nat
        BY <2>1, FS_CardinalityType
  <2>3. room \in Nat
        BY <1>1, <1>2, <2>2
  <2> HIDE DEF room
  <2>4. QED  BY <1>2, <2>1, <2>3, FirstIsAll
<1>6. e \in Entity /\ Logged(raw, bucket, e) \in Int /\ None \notin Int
      BY <1>1, LoggedType, InputsAssumption, BoundsAssumption DEF Count
<1> HIDE DEF present, kept, absent, room
<1>7. found'[e] = IF e \in kept THEN Logged(raw, bucket, e)
                  ELSE IF e \in First(room, absent) THEN 0 ELSE found[e]
      BY <1>2, <1>6
<1>8. e \in kept \/ e \in First(room, absent)
      BY <1>4, <1>5
<1>9. QED  BY <1>6, <1>7, <1>8

LEMMA RowsStayLogged ==
  TypeInv /\ TypeInv' /\ BackInv /\ RowsAreLogged /\ [Next]_vars => RowsAreLogged'
<1> SUFFICES ASSUME TypeInv, TypeInv', BackInv, RowsAreLogged, [Next]_vars PROVE RowsAreLogged'
    OBVIOUS
<1>1. raw \in SUBSET raw' /\ IsFiniteSet(raw')
      BY DEF TypeInv, Next, Environment, Pass, Tick, Log, Refresh, Purge, BeginPass, BeginAttempt,
             CollectCohort, CollectPart, WriteRows, WriteMetas, RefreshRollup, RefreshPart,
             WriteCommit, EndPass, Prune, AttemptFails, Restart, vars
<1> DEFINE Stays(b, e) == stored'.rows[b][e] \in {None, stored.rows[b][e]}
           Found(b, e) == Attempting /\ b = bucket /\ stored'.rows[b][e] = found[e]
<1>2. \A b \in Bucket, e \in Entity : Stays(b, e) \/ Found(b, e)
  <2>1. CASE stored'.rows = stored.rows
        BY <2>1
  <2>2. ASSUME NEW docs, NEW S, stored' = Without(stored, docs, S)
        PROVE  \A b \in Bucket, e \in Entity : Stays(b, e)
        BY <2>2 DEF Without
  <2>3. ASSUME NEW S \in SUBSET Entity, pc = "rows", stored' = RowsWith(S)
        PROVE  \A b \in Bucket, e \in Entity : Stays(b, e) \/ Found(b, e)
    <3>1. Attempting
          BY <2>3 DEF Attempting
    <3>2. QED  BY <2>3, <3>1, RowsWithIs
  <2>4. CASE UNCHANGED vars \/ Tick \/ (\E b \in Bucket, e \in Entity : Log(b, e)) \/ (\E c \in Copy : Refresh(c))
        BY <2>1, <2>4 DEF vars, index, Tick, Log, Refresh
  <2>5. CASE BeginPass \/ BeginAttempt \/ EndPass \/ Restart \/ CollectCohort \/ CollectPart
             \/ RefreshRollup \/ RefreshPart
        BY <2>1, <2>5 DEF index, BeginPass, BeginAttempt, EndPass, Restart, CollectCohort, CollectPart,
                          RefreshRollup, RefreshPart
  <2>6. CASE (\E c \in Copy : Purge(c)) \/ Prune
        BY <2>2, <2>6 DEF Purge, Prune
  <2>7. CASE WriteRows
        BY <2>3, <2>7 DEF WriteRows
  <2>8. CASE WriteMetas \/ WriteCommit
        BY <2>1, <2>8, MetasWithIs, CommitIs DEF WriteMetas, WriteCommit
  <2>9. CASE AttemptFails
        BY <2>1, <2>3, <2>9, MetasWithIs, CommitIs DEF AttemptFails
  <2>10. QED  BY <2>4, <2>5, <2>6, <2>7, <2>8, <2>9 DEF Next, Environment, Pass
<1>3. ASSUME NEW b \in Bucket, NEW e \in Entity, stored'.rows[b][e] # None
      PROVE  stored'.rows[b][e] <= Logged(raw, b, e)
      BY <1>2, <1>3 DEF RowsAreLogged, BackInv, AttemptInv
<1>4. ASSUME NEW b \in Bucket, NEW e \in Entity
      PROVE  /\ Logged(raw, b, e) \in Nat /\ Logged(raw', b, e) \in Nat
             /\ Logged(raw, b, e) <= Logged(raw', b, e)
             /\ stored'.rows[b][e] # None => stored'.rows[b][e] \in Nat
  <2>1. stored'.rows[b][e] # None => stored'.rows[b][e] \in Count
        BY DEF TypeInv, TypeOK, Index, Counts, Row
  <2>2. QED  BY <1>1, <2>1, LoggedGrows, BoundsAssumption DEF Count
<1>5. QED  BY <1>3, <1>4 DEF RowsAreLogged

\* What is done stays as it is while the process goes on to later buckets.
LEMMA DoneStays ==
  ASSUME TypeInv, WindowInv, SilentInv, clean, Done' \subseteq Done,
         \A b \in Done, e \in Entity : stored'.rows[b][e] = stored.rows[b][e],
         \A b \in Done, e \in Entity : Remembers(b, e)' => Remembers(b, e)
  PROVE  \A b \in Done', e \in Entity : Loud(b, e)' /\ Remembers(b, e)' => stored'.rows[b][e] # None
<1> SUFFICES ASSUME NEW b \in Done', NEW e \in Entity, Loud(b, e)', Remembers(b, e)'
             PROVE  stored'.rows[b][e] # None
    OBVIOUS
<1>1. Loud(b, e)
      BY DEF Loud
<1>2. QED  BY <1>1 DEF SilentInv

LEMMA SilentQuiet ==
  ASSUME TypeInv, WindowInv, SilentInv, RowsAreLogged',
         UNCHANGED <<clean, todo, bucket, window, left, found, whole, cut>>, doubt \subseteq doubt',
         stored'.rows = stored.rows, stored'.commits = stored.commits, Attempting' <=> Attempting
  PROVE  SilentInv'
<1>1. Done' = Done /\ Waiting' = Waiting
      BY DEF Done, Pending, Waiting
<1>2. ASSUME NEW b, NEW e
      PROVE  (Loud(b, e)' <=> Loud(b, e)) /\ (Remembers(b, e)' => Remembers(b, e)) /\ (Heard(e)' <=> Heard(e))
      BY DEF Loud, Remembers, Heard, Whole, Says
<1>3. QED  BY <1>1, <1>2 DEF SilentInv

\* A cohort that is collected: who is remembered is on the roster.
LEMMA SilentCollect ==
  ASSUME TypeInv, TypeInv', WindowInv, HealInv, BackInv, SilentInv, RowsAreLogged', CollectCohort
  PROVE  SilentInv'
<1>1. PICK c \in Copy, roster \in SUBSET Asked :
        /\ roster \in Rosters(c) /\ Collect({}, roster)
        /\ cut' = IF Crowded(c) THEN cut \cup {<<bucket, Head(left)>>} ELSE cut
      BY DEF CollectCohort, Rosters, Recent
<1>2. /\ pc = "collect" /\ left # <<>> /\ left \in Seq(Cohort) /\ bucket \in Bucket
      /\ roster \in SUBSET Asked /\ {} \in SUBSET Asked /\ Asked \subseteq Entity
      /\ UNCHANGED <<raw, stored, visible, todo, bucket, window, sound, clean, doubt, behind>>
      BY <1>1 DEF TypeInv, TypeOK, CollectCohort, index, Rosters, Recent, Asked
<1>3. /\ left' = Tail(left) /\ pc' \in {"rows", "collect"} /\ (whole' => whole)
      /\ \A e \in Entity \ Asked : found'[e] = found[e]
      /\ \A e \in Asked : found'[e] \in {Logged(raw, bucket, e), found[e]}
      BY <1>1, <1>2, CollectIs
<1>4. Attempting /\ Attempting' /\ Done' = Done
      BY <1>2, <1>3 DEF Attempting, Done, Pending
<1>5. ASSUME NEW b, NEW e
      PROVE  (Loud(b, e)' <=> Loud(b, e)) /\ (Remembers(b, e)' => Remembers(b, e) /\ <<b, CohortOf[e]>> \notin cut')
      BY <1>1, <1>2 DEF Loud, Remembers, Whole, Says
<1>6. clean' => \A b \in Done', e \in Entity : Loud(b, e)' /\ Remembers(b, e)' => stored'.rows[b][e] # None
      BY <1>2, <1>4, <1>5 DEF SilentInv
<1>7. ASSUME clean', whole', NEW e \in Entity, CohortOf[e] \notin Waiting',
             Loud(bucket, e) \/ Heard(e)', Remembers(bucket, e),
             <<bucket, CohortOf[e]>> \notin cut'
      PROVE  found'[e] # None
  <2>1. clean /\ whole
        BY <1>2, <1>3, <1>7
  <2>2. CASE e \notin Asked
    <3>1. CohortOf[e] \notin Waiting
          BY <1>2, <1>3, <1>7, <2>2, StillWaiting
    <3>2. \A d \in Entity : CohortOf[d] = CohortOf[e] => found'[d] = found[d]
          BY <1>3, <2>2 DEF Asked
    <3>3. Loud(bucket, e) \/ Heard(e)
          BY <1>7, <3>2 DEF Heard
    <3>4. QED  BY <1>3, <1>4, <1>5, <1>7, <2>1, <2>2, <3>1, <3>3 DEF SilentInv
  <2>3. CASE e \in Asked
    <3>1. PICK d \in Entity : /\ CohortOf[d] = CohortOf[e]
                              /\ found'[d] \notin {None, 0} \/ stored.rows[bucket][d] \notin {None, 0}
          BY <1>7 DEF Loud, Heard
    <3>2. d \in Asked
          BY <2>3, <3>1 DEF Asked
    <3>3. Logged(raw, bucket, d) > 0
      <4>1. Logged(raw, bucket, d) \in Nat /\ found[d] \in Nat \cup {None}
            /\ stored.rows[bucket][d] \in Nat \cup {None}
            BY <1>2, LoggedType, BoundsAssumption DEF TypeInv, TypeOK, Index, Counts, Row, Count
      <4>2. found[d] # None => found[d] <= Logged(raw, bucket, d)
            BY <1>4 DEF BackInv, AttemptInv
      <4>3. stored.rows[bucket][d] # None => stored.rows[bucket][d] <= Logged(raw, bucket, d)
            BY <1>2 DEF SilentInv, RowsAreLogged
      <4>4. found'[d] \in {Logged(raw, bucket, d), found[d]}
            BY <1>3, <3>2
      <4>5. QED  BY <3>1, <4>1, <4>2, <4>3, <4>4
    <3>4. PICK a \in (bucket - Memory .. bucket - 1) \cap (Bucket \ doubt) :
            Whole(stored, a) /\ stored.commits[a].floor[e] > 0
          BY <1>7 DEF Remembers
    <3>5. visible[c].rows[a][e] \notin {None, 0}
      <4>1. a \in Bucket /\ a \in Sure
        <5>1. a >= bucket - Memory /\ bucket \in window
              BY <1>2, <1>4, <3>4, BoundsAssumption DEF WindowInv, Bucket
        <5>2. QED  BY <1>2, <3>4, <5>1 DEF Sure, Kept
      <4>2. Truthful(stored) /\ Backs(stored, visible[c], a) /\ stored \in Docs
        <5>1. c \in Copy \ behind
              BY <2>1 DEF HealInv
        <5>2. QED  BY <4>1, <5>1 DEF BackInv, Docs, Fresh
      <4>3. AtLeast(stored.commits[a].counts[e], stored.commits[a].floor[e])
            BY <3>4, <4>1, <4>2 DEF Truthful, Whole, Says
      <4>4. AtLeast(visible[c].rows[a][e], stored.commits[a].counts[e])
            BY <3>4, <4>2 DEF Backs
      <4>5. stored.commits[a].counts[e] \in Nat \cup {None} /\ stored.commits[a].floor[e] \in Nat
        <5>1. stored.commits[a] \in CommitOf
              BY <3>4, <4>1 DEF TypeInv, TypeOK, Index, Whole, Says
        <5>2. QED  BY <5>1, BoundsAssumption DEF CommitOf, Counts, Row, Count
      <4>6. visible[c].rows[a][e] \in Nat \cup {None}
            BY <4>1, BoundsAssumption DEF TypeInv, TypeOK, Index, Counts, Row, Count
      <4>7. None \notin Int
            BY InputsAssumption
      <4>8. QED  BY <3>4, <4>3, <4>4, <4>5, <4>6, <4>7 DEF AtLeast
    <3>6. e \in roster
      <4>1. ~Crowded(c)
            BY <1>1, <1>2, <1>7, <2>3 DEF Asked
      <4>2. e \in Recent(c)
            BY <2>3, <3>4, <3>5 DEF Recent
      <4>3. QED  BY <1>1, <4>1, <4>2 DEF Rosters
    <3>7. QED  BY <1>1, <1>2, <1>7, <3>2, <3>3, <3>6, CollectSees
  <2>4. QED  BY <2>2, <2>3
<1>8. QED  BY <1>2, <1>5, <1>6, <1>7 DEF SilentInv

\* The rows of a sound attempt: what is heard was heard before.
LEMMA SilentRows ==
  ASSUME TypeInv, WindowInv, HealInv, SilentInv, RowsAreLogged', WriteRows
  PROVE  SilentInv'
<1>1. /\ pc = "rows" /\ stored' = RowsWith(Entity) /\ Attempting /\ Attempting' /\ doubt' = Doubted(sound)
      /\ UNCHANGED <<todo, bucket, window, sound, clean, left, found, whole, cut>>
      BY DEF WriteRows, Attempting, attempt
<1> SUFFICES ASSUME clean PROVE SilentInv'
    BY <1>1 DEF SilentInv
<1>2. doubt' = doubt
      BY <1>1 DEF HealInv, Doubted
<1>3. Done' = Done /\ Waiting' = Waiting /\ \A e \in Entity : Heard(e)' <=> Heard(e)
      BY <1>1 DEF Done, Pending, Waiting, Heard
<1>4. /\ stored'.commits = stored.commits
      /\ \A b \in Bucket \ {bucket} : stored'.rows[b] = stored.rows[b]
      /\ \A e \in Entity : stored'.rows[bucket][e] \in {found[e], stored.rows[bucket][e]}
      BY <1>1, RowsWithIs
<1>5. \A b \in Bucket, e \in Entity : Remembers(b, e)' <=> Remembers(b, e)
      BY <1>1, <1>2, <1>4 DEF Remembers, Whole, Says
<1>6. Done \subseteq Bucket \ {bucket} /\ bucket \in Bucket
      BY <1>1 DEF Done, Pending, TypeInv, TypeOK
<1>7. \A b \in Done', e \in Entity : Loud(b, e)' /\ Remembers(b, e)' => stored'.rows[b][e] # None
      BY <1>3, <1>4, <1>5, <1>6, DoneStays
<1>8. \A e \in Entity : Loud(bucket, e)' => Loud(bucket, e) \/ Heard(e)
      BY <1>1, <1>4 DEF Loud, Heard
<1>9. ASSUME whole', NEW e \in Entity, CohortOf[e] \notin Waiting', Remembers(bucket, e)',
             Loud(bucket, e)' \/ Heard(e)'
      PROVE  found'[e] # None
      BY <1>1, <1>3, <1>5, <1>6, <1>8, <1>9 DEF SilentInv
<1>10. QED  BY <1>1, <1>7, <1>9 DEF SilentInv

\* The commit: the bucket is done, and what was found of it stands.
LEMMA SilentCommit ==
  ASSUME TypeInv, WindowInv, HealInv, BackInv, SilentInv, RowsAreLogged', WriteCommit
  PROVE  SilentInv'
<1>1. /\ pc = "commit" /\ Attempting /\ ~Attempting' /\ Written /\ UNCHANGED <<todo, window, cut>>
      /\ stored' = Commit /\ (clean' => clean /\ whole)
      /\ doubt' = IF sound /\ whole THEN doubt \ {bucket} ELSE doubt
      BY DEF WriteCommit, Attempting, Written
<1> SUFFICES ASSUME clean, whole PROVE SilentInv'
    BY <1>1 DEF SilentInv
<1>2. sound /\ left = <<>> /\ bucket \in Bucket /\ Bucket \subseteq Nat
      BY <1>1, BoundsAssumption DEF HealInv, BackInv, AttemptInv, TypeInv, TypeOK, Bucket
<1>3. Done' \subseteq Done \cup {bucket} /\ \A b \in Done : b \in Bucket /\ b < bucket
      BY <1>1 DEF Done, Pending, WindowInv, TypeInv, TypeOK
<1>4. /\ stored'.rows = stored.rows
      /\ \A b \in Bucket \ {bucket} : stored'.commits[b] = stored.commits[b]
      BY <1>1, CommitIs
<1>5. ASSUME NEW b \in Bucket, b <= bucket, NEW e \in Entity, Remembers(b, e)'
      PROVE  Remembers(b, e)
  <2>1. PICK a \in (b - Memory .. b - 1) \cap (Bucket \ doubt') :
          Whole(stored', a) /\ stored'.commits[a].floor[e] > 0 /\ <<b, CohortOf[e]>> \notin cut
        BY <1>1, <1>5 DEF Remembers, Whole, Says
  <2>2. a \in Bucket /\ a < bucket
        BY <1>2, <1>5, <2>1, BoundsAssumption
  <2>3. a \notin doubt /\ stored'.commits[a] = stored.commits[a]
        BY <1>1, <1>2, <1>4, <2>1, <2>2
  <2>4. QED  BY <2>1, <2>2, <2>3 DEF Remembers, Whole, Says
<1>6. ASSUME NEW e \in Entity, Loud(bucket, e), Remembers(bucket, e)
      PROVE  stored.rows[bucket][e] # None
  <2>1. found[e] # None
        BY <1>1, <1>2, <1>6 DEF SilentInv, Waiting
  <2>2. QED  BY <1>1, <1>2, <2>1 DEF BackInv, Stands
<1>7. ASSUME NEW b \in Done', NEW e \in Entity, Loud(b, e)', Remembers(b, e)'
      PROVE  stored'.rows[b][e] # None
  <2>1. b \in Bucket /\ b <= bucket /\ (b \in Done \/ b = bucket)
    <3>1. b \in Done \/ b = bucket
          BY <1>3, <1>7
    <3>2. b \in Bucket /\ (b = bucket \/ b < bucket)
          BY <1>2, <1>3, <3>1
    <3>3. b \in Int /\ bucket \in Int
          BY <1>2, <3>2
    <3>4. QED  BY <3>1, <3>2, <3>3
  <2>2. Remembers(b, e) /\ Loud(b, e)
        BY <1>4, <1>5, <1>7, <2>1 DEF Loud
  <2>3. CASE b \in Done
        BY <1>4, <2>2, <2>3 DEF SilentInv
  <2>4. CASE b = bucket
        BY <1>4, <1>6, <2>2, <2>4
  <2>5. QED  BY <2>1, <2>3, <2>4
<1>8. QED  BY <1>1, <1>7 DEF SilentInv

LEMMA SilentStep ==
  TypeInv /\ TypeInv' /\ WindowInv /\ HealInv /\ BackInv /\ SilentInv /\ [Next]_vars => SilentInv'
<1> SUFFICES ASSUME TypeInv, TypeInv', WindowInv, HealInv, BackInv, SilentInv, [Next]_vars
             PROVE  SilentInv'
    OBVIOUS
<1>1. RowsAreLogged'
      BY RowsStayLogged DEF SilentInv
<1>2. CASE clean' = FALSE
      BY <1>1, <1>2 DEF SilentInv
<1>3. CASE (\E c \in Copy : Purge(c)) \/ CollectPart \/ RefreshPart \/ AttemptFails \/ Restart
      BY <1>2, <1>3 DEF Purge, CollectPart, RefreshPart, AttemptFails, Restart
<1>4. CASE UNCHANGED vars \/ Tick \/ (\E b \in Bucket, e \in Entity : Log(b, e)) \/ (\E c \in Copy : Refresh(c))
      BY <1>1, <1>4, SilentQuiet DEF vars, index, attempt, Tick, Log, Refresh, Attempting
<1>5. CASE WriteMetas \/ RefreshRollup \/ EndPass
  <2>1. UNCHANGED <<clean, todo, bucket, window, left, found, whole, cut>> /\ doubt \subseteq doubt'
        BY <1>5 DEF WriteMetas, RefreshRollup, EndPass, attempt, index, Doubted
  <2>2. stored'.rows = stored.rows /\ stored'.commits = stored.commits
        BY <1>5, MetasWithIs DEF WriteMetas, RefreshRollup, EndPass, index
  <2>3. Attempting' <=> Attempting
        BY <1>5 DEF WriteMetas, RefreshRollup, EndPass, Attempting
  <2>4. QED  BY <1>1, <2>1, <2>2, <2>3, SilentQuiet
<1>6. CASE BeginPass
  <2>1. ~Attempting' /\ Done' = {}
        BY <1>6 DEF BeginPass, Due, Attempting, Done, Pending
  <2>2. QED  BY <1>1, <2>1 DEF SilentInv
<1>7. CASE BeginAttempt
  <2>1. /\ pc = "next" /\ bucket' = Oldest(todo) /\ todo # {} /\ todo' = todo \ {bucket'} /\ left' = Combos
        /\ UNCHANGED <<stored, window, clean, doubt, cut>> /\ pc' = "collect"
        BY <1>7 DEF BeginAttempt, index
  <2>2. todo' \cup {bucket'} = todo
    <3>1. todo \subseteq Bucket
          BY DEF TypeInv, TypeOK
    <3>2. QED  BY <2>1, <3>1, OldestIs
  <2>3. Done' = Done
        BY <2>1, <2>2 DEF Done, Pending, Attempting
  <2>4. ASSUME NEW b, NEW e
        PROVE  (Loud(b, e)' <=> Loud(b, e)) /\ (Remembers(b, e)' <=> Remembers(b, e))
        BY <2>1 DEF Loud, Remembers, Whole, Says
  <2>5. \A e \in Entity : CohortOf[e] \in Waiting'
    <3>1. Waiting' = {Combos[i] : i \in DOMAIN Combos}
          BY <2>1 DEF Waiting
    <3>2. QED  BY <3>1, InputsAssumption DEF Cohort
  <2>6. QED  BY <1>1, <2>1, <2>3, <2>4, <2>5 DEF SilentInv
<1>8. CASE Prune
  <2>1. Done = {} /\ ~Attempting' /\ UNCHANGED <<pc, todo, bucket, window>>
        BY <1>8, PruneIsFirst DEF Prune, Attempting, attempt
  <2>2. Done' = {}
        BY <2>1 DEF Done, Pending, Attempting
  <2>3. QED  BY <1>1, <2>1, <2>2 DEF SilentInv
<1>9. QED  BY <1>1, <1>3, <1>4, <1>5, <1>6, <1>7, <1>8, SilentCollect, SilentRows, SilentCommit
           DEF Next, Environment, Pass

-----------------------------------------------------------------------------
(***************************************************************************)
(* The theorems.                                                           *)
(***************************************************************************)
\* Every variable keeps its type: what is counted of an entity is a number within
\* what was logged, in the process and in every document (trend_rollup.py, roll_bucket).
THEOREM TypeCorrect == Spec => []TypeOK
<1>1. TypeInv => TypeOK
      BY DEF TypeInv
<1>2. QED  BY <1>1, TypeAlways, PTL

\* A commit that says complete, on any copy of the index, is backed by the rows and
\* the metadata of every copy the last refresh has reached, whatever failed and
\* whenever the process ended (trend_rollup.py, roll_bucket and refresh_rollup).
THEOREM CompleteCommitsAreBacked == Spec => []CompleteCommitIsBacked
<1>1. BackInv => CompleteCommitIsBacked
  <2> SUFFICES ASSUME BackInv, NEW c \in Copy, NEW d \in Copy \ behind,
                      NEW b \in Bucket \ (doubt \cup Pruned), Whole(visible[c], b), NEW e \in Entity
               PROVE  /\ AtLeast(visible[c].commits[b].counts[e], visible[c].commits[b].floor[e])
                      /\ AtLeast(visible[d].rows[b][e], visible[c].commits[b].counts[e])
                      /\ AtLeast(visible[d].metas[b][e], visible[c].commits[b].counts[e])
      BY DEF CompleteCommitIsBacked, Whole, Says
  <2>1. visible[c] \in Docs /\ visible[d] \in Fresh /\ b \in Sure
        BY DEF Docs, Fresh, Sure, Kept
  <2>2. Truthful(visible[c]) /\ Backs(visible[c], visible[d], b)
        BY <2>1 DEF BackInv
  <2>3. QED  BY <2>2 DEF Truthful, Backs, Whole, Says
<1>2. QED  BY <1>1, BackInit, BackStep, WindowInit, WindowStep, TypeAlways, PTL DEF Spec

\* What failed attempts, cut answers and resets left of the last buckets is made good
\* by the first pass that nothing goes wrong in (trend_rollup.py, main).
THEOREM ACleanPassHeals == Spec => []BackfillHeals
<1>1. WindowInv /\ HealInv => BackfillHeals
      BY DEF WindowInv, HealInv, BackfillHeals, Done, Pending, Attempting, Says
<1>2. QED  BY <1>1, HealInit, HealStep, WindowInit, WindowStep, TypeAlways, PTL DEF Spec

\* After a pass nothing went wrong in, an entity that is remembered and silent has a
\* row in every bucket rolled in which its cohort logged, unless the cohort's roster
\* was cut at MAX_ENTITIES, and whatever had failed and been purged before
\* (trend_rollup.py, recent_entities, impute_silent and main).
THEOREM TheSilentAreSeen == Spec => []SilentHostIsSeen
<1>1. TypeInv /\ WindowInv /\ SilentInv => SilentHostIsSeen
  <2> SUFFICES ASSUME TypeInv, WindowInv, SilentInv, pc = "idle", clean,
                      NEW b \in window, NEW e \in Entity, <<b, CohortOf[e]>> \notin cut,
                      \E d \in Entity : CohortOf[d] = CohortOf[e] /\ stored.rows[b][d] \notin {None, 0},
                      \E a \in (b - Memory .. b - 1) \cap (Bucket \ doubt) :
                        stored.commits[a] # None /\ stored.commits[a].complete /\ stored.commits[a].floor[e] > 0
               PROVE  stored.rows[b][e] # None
      BY DEF SilentHostIsSeen
  <2>1. b \in Done
        BY DEF WindowInv, Done, Pending, Attempting
  <2>2. Loud(b, e) /\ Remembers(b, e)
        BY DEF Loud, Remembers, Whole, Says
  <2>3. QED  BY <2>1, <2>2 DEF SilentInv
<1>2. QED  BY <1>1, HealInit, HealStep, BackInit, BackStep, SilentInit, SilentStep,
              WindowInit, WindowStep, TypeAlways, PTL DEF Spec
=============================================================================
