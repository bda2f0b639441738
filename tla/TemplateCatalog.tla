-------------------------- MODULE TemplateCatalog --------------------------
(***************************************************************************)
(* The template catalog as the farm shares it: the stampers of the workers *)
(* publish hourly buckets, definitions and a watermark each, the hourly    *)
(* maintenance pass deletes old definitions and audits the last hour, and  *)
(* the Shifter builds its view of the window in three searches.            *)
(*                                                                         *)
(* Nothing here is atomic: a publication is three kinds of documents sent  *)
(* one after the other while records are counted, any of them may fail,    *)
(* and the searches of a view fall between them.                           *)
(*                                                                         *)
(* Abstractions.  One unit of time is one fine bucket.  A fine bucket of a *)
(* node holds at most one record of a version, so the count of an hour is  *)
(* the number of its records.  A record is counted any time after it was   *)
(* observed: it may have been buffered or sent again.  What a stamper      *)
(* keeps over a crash is module Stamper; here its ledger comes back whole  *)
(* and only the last observations may be older.                            *)
(***************************************************************************)
EXTENDS Integers, FiniteSets

CONSTANTS
  Node, Version,
  Overlong,     \* versions whose template is longer than max_message_length
  Span,         \* fine buckets in an hour
  Ledger,       \* LEDGER_MS
  Idle,         \* IDLE_NODE_MS
  Window,       \* active_ms
  Expire,       \* expire_after_ms of the view
  Retention,    \* RETENTION_MS of a definition
  MaxTime,      \* bound: last clock value
  MaxRecords,   \* bound: records ever counted
  MaxFailures,  \* bound: bulk requests that fail
  RestartUntil, \* bound: restarts come before this time
  None

Never  == -1
Time   == 0 .. MaxTime
Last   == Time \cup {Never}
Entry  == Version \X Time
Record == Node \X Entry
Hour   == 0 .. MaxTime \div Span

HourOf(t)  == t \div Span
InHour(h)  == {t \in Time : HourOf(t) = h}
EndOf(h)   == (h + 1) * Span
FloorOf(t) == Span * HourOf(t)

ASSUME OverlongAssumption == Overlong \subseteq Version
ASSUME HorizonAssumption ==
  /\ Span \in Nat \ {0} /\ Ledger \in Nat /\ Idle \in Nat
  /\ Window \in Nat \ {0} /\ Window % Span = 0
  /\ Expire \in Nat /\ Retention \in Nat
  /\ 2 * Span <= Ledger /\ Window + Span + Idle < Retention
ASSUME BoundsAssumption ==
  MaxTime \in Nat /\ MaxRecords \in Nat /\ MaxFailures \in Nat /\ RestartUntil \in Nat

VARIABLES
  now,
  counted,        \* every record ever counted in its own bucket
  late,           \* every record ever counted in a late bucket
  when,           \* when each was counted
  \* a stamper
  ledger,         \* entries of its unexpired fine buckets
  dirty,          \* fine buckets changed since they were published
  last,           \* last observation of each version it has a row of
  dirtyVersions,
  pub,            \* the publication on its way, or None
  \* OpenSearch
  coarse,         \* hourly bucket documents
  definitions,    \* last_observed of each definition document
  marks,          \* watermark documents
  failed,         \* failed checks of this fine bucket: the node, the hour and whether
                  \* its index held a record that was not counted
  \* the Shifter
  build,          \* the refresh on its way, or None
  view,           \* the view of the last refresh
  attempt,        \* _last_attempt_ms, while it is of this fine bucket
  failures

stamper == <<ledger, dirty, last, dirtyVersions, pub>>
records == <<counted, late, when>>
stored  == <<coarse, definitions, marks, failed>>
shifter == <<build, view, attempt>>
vars    == <<now, records, stamper, stored, shifter, failures>>

NoMark == [through |-> Never, at |-> Never]
NoView == [cutoff |-> None, status |-> "unknown", nodes |-> {}, counts |-> {}, rows |-> {},
           held |-> [n \in Node |-> NoMark]]

-----------------------------------------------------------------------------
(***************************************************************************)
(* A stamper.                                                              *)
(***************************************************************************)
\* Ledger.expire, and what _count calls late.
Past(t) == t + 1 <= now - Ledger

\* A record as it may arrive: it was not counted before.
Arrives(n, v, t) ==
  /\ t <= now /\ <<n, <<v, t>>>> \notin counted \cup late
  /\ Cardinality(counted \cup late) < MaxRecords
  /\ when' = [when EXCEPT ![<<n, <<v, t>>>>] = now]

\* Ledger.define: a row that only gets a later last observation is not dirty, one that
\* is new is, and one that gets a program, a host or an earlier first one is too.
Observe(n, v, t) ==
  /\ last' = [last EXCEPT ![n][v] = IF t > @ THEN t ELSE @]
  /\ \/ dirtyVersions' = [dirtyVersions EXCEPT ![n] = @ \cup {v}]
     \/ last[n][v] # Never /\ UNCHANGED dirtyVersions

\* _count: the bucket is that of the record's own time, behind the watermark or not.
Count(n, v, t) ==
  /\ Arrives(n, v, t) /\ ~Past(t)
  /\ counted' = counted \cup {<<n, <<v, t>>>>}
  /\ ledger' = [ledger EXCEPT ![n] = @ \cup {<<v, t>>}]
  /\ dirty' = [dirty EXCEPT ![n] = @ \cup {t}]
  /\ Observe(n, v, t)
  /\ UNCHANGED <<now, late, pub, stored, shifter, failures>>

\* A late bucket is a document of its own, which no view and no audit reads.
CountLate(n, v, t) ==
  /\ Arrives(n, v, t) /\ Past(t)
  /\ late' = late \cup {<<n, <<v, t>>>>}
  /\ Observe(n, v, t)
  /\ UNCHANGED <<now, counted, ledger, dirty, pub, stored, shifter, failures>>

\* bucket_lines: the hours of the dirty buckets, whole.  (mutant: the dirty
\* buckets only)
DirtyOnly(entries, keys) == {e \in entries : e[2] \in keys}
Hours(entries, keys)     == {e \in entries : \E t \in keys : HourOf(t) = HourOf(e[2])}

Rows(n)      == {<<v, last[n][v]>> : v \in dirtyVersions[n]}
After(defs)  == IF defs = {} THEN "mark" ELSE "definitions"

\* The timer publishes once in a fine bucket.
PublishBegin(n) ==
  /\ pub[n] = None /\ marks[n].at # now
  /\ LET unexpired == {e \in ledger[n] : ~Past(e[2])}
         keys      == {t \in dirty[n] : ~Past(t)}
     IN /\ ledger' = [ledger EXCEPT ![n] = unexpired]
        /\ dirty' = [dirty EXCEPT ![n] = keys]
        /\ pub' = [pub EXCEPT ![n] =
             [stage |-> IF keys # {} THEN "buckets" ELSE After(Rows(n)), keys |-> keys,
              entries |-> Hours(unexpired, keys), defs |-> Rows(n), at |-> now]]
  /\ UNCHANGED <<now, records, last, dirtyVersions, stored, shifter, failures>>

Stage(n, s)  == pub[n] # None /\ pub[n].stage = s
Advance(n, s) == pub' = [pub EXCEPT ![n].stage = s]

SendBuckets(n) ==
  /\ Stage(n, "buckets") /\ Advance(n, After(pub[n].defs))
  /\ coarse' = [coarse EXCEPT ![n] = [h \in Hour |->
       LET document == {e \in pub[n].entries : HourOf(e[2]) = h}
       IN IF document = {} THEN @[h] ELSE document]]
  /\ UNCHANGED <<now, records, ledger, dirty, last, dirtyVersions, definitions, marks,
                 failed, shifter, failures>>

\* definition_lines leaves out what is too long, DEFINITION_APPLY keeps the later
\* observation.  (mutant: the one it is sent)
Overwrites(old, new) == new
Merged(old, new)     == IF new > old THEN new ELSE old

SendDefinitions(n) ==
  /\ Stage(n, "definitions") /\ Advance(n, "mark")
  /\ definitions' = [v \in Version |->
       IF v \notin Overlong /\ \E t \in Time : <<v, t>> \in pub[n].defs
       THEN Merged(definitions[v], CHOOSE t \in Time : <<v, t>> \in pub[n].defs)
       ELSE definitions[v]]
  /\ UNCHANGED <<now, records, ledger, dirty, last, dirtyVersions, coarse, marks,
                 failed, shifter, failures>>

\* The open bucket is not published through.  (mutant: it is)
ThroughEnd(t) == t + 1
Through(t)    == t

\* The watermark is the last line.  Every answer is in, so publish forgets what it
\* sent or left out; a bucket that changed meanwhile stays dirty.  prune_versions
\* follows with the checkpoint: a row is kept for the buckets that name it.
SendMark(n) ==
  LET changed == {t \in pub[n].keys :
                    {e \in ledger[n] : e[2] = t} # {e \in pub[n].entries : e[2] = t}}
      left    == dirtyVersions[n] \ {d[1] : d \in pub[n].defs}
      held    == {e[1] : e \in ledger[n]} \cup
                 {r[2][1] : r \in {r \in late : r[1] = n /\ when[r] + 1 > pub[n].at - Ledger}}
  IN /\ Stage(n, "mark")
     /\ marks' = [marks EXCEPT ![n] = [through |-> Through(pub[n].at), at |-> pub[n].at]]
     /\ dirty' = [dirty EXCEPT ![n] = (@ \ pub[n].keys) \cup changed]
     /\ dirtyVersions' = [dirtyVersions EXCEPT ![n] = left]
     /\ last' = [last EXCEPT ![n] = [v \in Version |->
          IF v \in left \cup held THEN @[v] ELSE Never]]
     /\ pub' = [pub EXCEPT ![n] = None]
     /\ UNCHANGED <<now, records, ledger, coarse, definitions, failed, shifter,
                    failures>>

\* What was sent before stays; everything stays dirty.
PublishFails(n) ==
  /\ pub[n] # None /\ failures < MaxFailures /\ failures' = failures + 1
  /\ pub' = [pub EXCEPT ![n] = None]
  /\ UNCHANGED <<now, records, ledger, dirty, last, dirtyVersions, stored, shifter>>

\* load_state makes every bucket and version dirty.  The journal names a version
\* only when it changed, so its last observation may be an earlier one.
Restart(n) ==
  /\ now < RestartUntil
  /\ pub' = [pub EXCEPT ![n] = None]
  /\ dirty' = [dirty EXCEPT ![n] = {e[2] : e \in ledger[n]}]
  /\ dirtyVersions' = [dirtyVersions EXCEPT ![n] = {v \in Version : last[n][v] # Never}]
  /\ \E back \in [Version -> Last] :
       /\ \A v \in Version :
            IF last[n][v] = Never THEN back[v] = Never
            ELSE back[v] <= last[n][v] /\ <<n, <<v, back[v]>>>> \in counted \cup late
       /\ last' = [last EXCEPT ![n] = back]
  /\ UNCHANGED <<now, records, ledger, stored, shifter, failures>>

-----------------------------------------------------------------------------
(***************************************************************************)
(* The maintenance pass.                                                   *)
(***************************************************************************)
\* expire_catalog; a batch that fails or conflicts leaves some for the next pass.
ExpireDefinitions ==
  \E gone \in SUBSET {v \in Version :
                        definitions[v] # Never /\ definitions[v] <= now - Retention} :
    /\ gone # {}
    /\ definitions' = [v \in Version |-> IF v \in gone THEN Never ELSE definitions[v]]
    /\ UNCHANGED <<now, records, stamper, coarse, marks, failed, shifter, failures>>

\* What the index and the catalog have of a version of a node in an hour.
Indexed(shipped, returned, n, v) ==
  Cardinality({r \in shipped : r[1] = n /\ r[2][1] = v})
    + (IF <<n, v>> \in returned THEN 1 ELSE 0)
Stamped(n, h, v) == Cardinality({e \in coarse[n][h] : e[1] = v})

\* stamped_check.  (mutant: an index that lags is a failure too)
Differs(indexed, stamped) == indexed # stamped
Over(indexed, stamped)    == indexed > stamped

\* run_checks on the last completed hour.  The index has what the collectors have
\* shipped so far of the records that were counted, whenever they were, and perhaps of
\* a version one that was returned but not counted: its count is still to come, or the
\* append failed and it is sent again.
Audit ==
  LET h       == HourOf(now) - 1
      audited == {n \in Node : coarse[n][h] # {}}
      hour    == {r \in counted : r[1] \in audited /\ HourOf(r[2][2]) = h}
  IN /\ h \in Hour
     /\ \E shipped \in SUBSET hour, returned \in SUBSET (audited \X Version) :
          failed' = {<<n, h, \E v \in Version : <<n, v>> \in returned>> :
            n \in {m \in audited : \E v \in Version :
                     Over(Indexed(shipped, returned, m, v), Stamped(m, h, v))}}
     /\ UNCHANGED <<now, records, stamper, coarse, definitions, marks, shifter, failures>>

-----------------------------------------------------------------------------
(***************************************************************************)
(* The Shifter.                                                            *)
(***************************************************************************)
IsIdle(mark, at) == at - mark.at > Idle

\* choose_cutoff.
LiveNodes(held, at) == {n \in Node : held[n] # NoMark /\ ~IsIdle(held[n], at)}

Cutoff(held, at) ==
  LET through == {held[n].through : n \in LiveNodes(held, at)}
  IN IF through = {} THEN None
     ELSE FloorOf(CHOOSE t \in through : \A u \in through : t <= u)

\* window_coverage.  (mutant: an idle node does not count)
IgnoresIdle(held, at, nodes) == {}
IdleIn(held, at, nodes)      == nodes \ LiveNodes(held, at)

Behind(held, at, nodes, cutoff) ==
  {n \in nodes \cap LiveNodes(held, at) : held[n].through < cutoff}

Coverage(held, at, nodes, cutoff) ==
  IF nodes = {} THEN "unknown"
  ELSE IF Behind(held, at, nodes, cutoff) \cup IdleIn(held, at, nodes) # {} THEN "partial"
  ELSE "complete"

\* current: a view past its ceiling serves no rows.
ServedRows ==
  IF view.cutoff # None /\ now - view.cutoff > Expire THEN {} ELSE view.rows

\* _build, first search.  Without a cutoff the last view is kept while it has rows.
ReadMarks ==
  /\ build = None /\ attempt = Never /\ attempt' = now
  /\ IF Cutoff(marks, now) = None
     THEN /\ view' = IF ServedRows # {} THEN view ELSE NoView
          /\ UNCHANGED build
     ELSE /\ build' = [held |-> marks, at |-> now, counts |-> {}, read |-> FALSE]
          /\ UNCHANGED view
  /\ UNCHANGED <<now, records, stamper, stored, failures>>

Start(cutoff) == cutoff - Window

\* _volume: the hourly documents of the window.
ReadVolume ==
  /\ build # None /\ ~build.read
  /\ LET cutoff == Cutoff(build.held, build.at)
         hours  == {h \in Hour : Start(cutoff) <= h * Span /\ h * Span < cutoff}
     IN build' = [build EXCEPT !.read = TRUE, !.counts =
          UNION {{<<n, e>> : e \in UNION {coarse[n][h] : h \in hours}} : n \in Node}]
  /\ UNCHANGED <<now, records, stamper, stored, view, attempt, failures>>

\* _definitions: the versions observed since the window began; then the view is
\* installed.
Install ==
  /\ build # None /\ build.read
  /\ LET cutoff == Cutoff(build.held, build.at)
         nodes  == {r[1] : r \in build.counts}
     IN view' = [cutoff |-> cutoff, nodes |-> nodes, counts |-> build.counts,
                 status |-> Coverage(build.held, build.at, nodes, cutoff), held |-> build.held,
                 rows |-> {v \in Version : definitions[v] # Never
                                           /\ Start(cutoff) <= definitions[v]}]
  /\ build' = None
  /\ UNCHANGED <<now, records, stamper, stored, attempt, failures>>

-----------------------------------------------------------------------------
\* A request is over before the next fine bucket is.
Tick ==
  /\ now < MaxTime /\ now' = now + 1
  /\ \A n \in Node : pub[n] # None => pub[n].at = now
  /\ build # None => build.at = now
  /\ failed' = {} /\ attempt' = Never
  /\ UNCHANGED <<records, stamper, coarse, definitions, marks, build, view, failures>>

Init ==
  /\ now = 0 /\ counted = {} /\ late = {} /\ when = [r \in Record |-> Never] /\ failures = 0
  /\ ledger = [n \in Node |-> {}] /\ dirty = [n \in Node |-> {}]
  /\ last = [n \in Node |-> [v \in Version |-> Never]]
  /\ dirtyVersions = [n \in Node |-> {}] /\ pub = [n \in Node |-> None]
  /\ coarse = [n \in Node |-> [h \in Hour |-> {}]]
  /\ definitions = [v \in Version |-> Never]
  /\ marks = [n \in Node |-> NoMark] /\ failed = {}
  /\ build = None /\ view = NoView /\ attempt = Never

Next ==
  \/ \E n \in Node :
       \/ \E v \in Version, t \in Time : Count(n, v, t) \/ CountLate(n, v, t)
       \/ PublishBegin(n) \/ SendBuckets(n) \/ SendDefinitions(n) \/ SendMark(n)
       \/ PublishFails(n) \/ Restart(n)
  \/ ExpireDefinitions \/ Audit
  \/ ReadMarks \/ ReadVolume \/ Install
  \/ Tick

Spec == Init /\ [][Next]_vars

-----------------------------------------------------------------------------
TypeOK ==
  /\ now \in Time /\ counted \subseteq Record /\ late \subseteq Record
  /\ when \in [Record -> Last] /\ failures \in 0 .. MaxFailures
  /\ ledger \in [Node -> SUBSET Entry] /\ dirty \in [Node -> SUBSET Time]
  /\ last \in [Node -> [Version -> Last]]
  /\ dirtyVersions \in [Node -> SUBSET Version]
  /\ \A n \in Node : pub[n] # None =>
       /\ pub[n].keys \subseteq Time /\ pub[n].entries \subseteq Entry
       /\ pub[n].defs \subseteq Entry /\ pub[n].at \in Time
       /\ pub[n].stage \in {"buckets", "definitions", "mark"}
  /\ coarse \in [Node -> [Hour -> SUBSET Entry]]
  /\ definitions \in [Version -> Last]
  /\ marks \in [Node -> [through : Last, at : Last]]
  /\ \A n \in Node : marks[n].through <= now
  /\ failed \subseteq Node \X Hour \X BOOLEAN
  /\ build # None => build.counts \subseteq Record /\ build.at \in Time
  /\ attempt \in Last /\ view.counts \subseteq Record /\ view.rows \subseteq Version
  /\ view.nodes \subseteq Node /\ view.status \in {"unknown", "partial", "complete"}

\* Every ledger a view with this cutoff relies on holds what was counted since.
HeldSince(cutoff) == cutoff + Span + Idle - Ledger

\* The record was not counted behind the watermark that the view has read: a publication
\* says that it was through with the bucket, and was begun before the record was counted.
InTime(r) == LET mark == view.held[r[1]] IN r[2][2] < mark.through => when[r] < mark.at

\* Volume that is called complete counts nothing but what the nodes with a bucket in
\* the window counted in it, and all of that they had counted in time and their
\* ledgers still held: whatever was sent, refused, sent again or counted between the
\* three searches.  An older hour may have been sent again without its first buckets.
CompleteViewIsExact ==
  view.status = "complete" =>
    LET window == {r \in counted : /\ r[1] \in view.nodes
                                   /\ Start(view.cutoff) <= r[2][2]
                                   /\ r[2][2] < view.cutoff}
    IN /\ view.counts \subseteq window
       /\ \A r \in window : InTime(r) /\ r[2][2] >= HeldSince(view.cutoff) => r \in view.counts

\* A complete view lists a version that one of its nodes counted in time and first
\* observed inside the window: last_observed never moves back before that, whichever
\* node publishes the version next and whatever it saw of it last.  Except versions
\* that are too long to be published.
NewVersionIsListed ==
  view.status = "complete" =>
    \A r \in view.counts : InTime(r) => r[2][1] \in view.rows \cup Overlong
      \/ \E s \in counted \cup late : /\ s[1] = r[1] /\ s[2][1] = r[2][1]
                                       /\ s[2][2] < Start(view.cutoff)

\* The audit accuses a node only of records it returned and did not count, or counted
\* since it began the publication that was accepted last: an hour that is sent again,
\* refused or taken up after a restart never holds less than was published of it.
AuditIsFair ==
  [][\A c \in failed' \ failed :
       \/ c[3]
       \/ \E r \in counted : /\ r[1] = c[1] /\ HourOf(r[2][2]) = c[2]
                             /\ when[r] >= marks[c[1]].at]_vars
=============================================================================
