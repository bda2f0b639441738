-------------------------- MODULE SignalProjector --------------------------
(***************************************************************************)
(* alice-signal-projector: every cycle it reads the alerts of OpenSearch   *)
(* Alerting and the results of Anomaly Detection, folds them into episodes *)
(* (one incident document per key and start), writes signals, incidents    *)
(* and its two watermarks, and pushes the episodes to Alertmanager.        *)
(*                                                                         *)
(* The projector keeps nothing between cycles: it reads everything back    *)
(* from OpenSearch, re-reads an overlap below each watermark, and holds    *)
(* both watermarks when anything raises.  Alerts, results and time go on   *)
(* between its reads and its writes.                                       *)
(*                                                                         *)
(* Abstractions.  A key is what incident_id hashes: one monitor or one     *)
(* detector on one entity.  One unit of time is one detector window.  The  *)
(* instance lives inside EPISODE_LOOKBACK_HOURS, INITIAL_LOOKBACK_MINUTES  *)
(* and one topology version, and a search page holds every hit.  Left out: *)
(* a watermark read that fails without raising (the cycle then reads from  *)
(* the initial lookback on), episodes closed as expected, and alerts that  *)
(* get another key when their monitor turns to ERROR.                      *)
(***************************************************************************)
EXTENDS Integers, FiniteSets, Sequences

CONSTANTS
  Monitor, Detector,  \* incident keys, by source kind
  Alert,              \* alert documents
  MonitorOf,          \* the monitor each alert belongs to
  MonitorRequired,    \* healthy_windows_required of the monitors
  DetectorRequired,   \* healthy_windows_required of the detectors
  Overlap,            \* OVERLAP_MINUTES, in windows
  EvidenceOverlap,    \* EVIDENCE_OVERLAP_MINUTES, in windows
  Lag,                \* a document is searchable at most this long after its time
  InOrder,            \* a detector's results arrive in window order
  Budget,             \* expected interval + maximum lateness, in windows
  Faults,             \* reads that may fail without raising
  MaxTime,            \* bound: last clock value
  Budgets,            \* bounds: how many alerts and results an instance may have
  MaxFailures,        \* bound: cycles that raise, pushes refused, reads failed
  None

SilentReads == {"names",      \* detector_names gets no 200
                "timelines",  \* load_episode_timelines gets no 200
                "mget"}       \* fetch_episodes gets no 200

Time     == 0 .. MaxTime
Never    == -1
Stamp    == Time \cup {Never}
Key      == Monitor \cup Detector
Episode  == Key \X Stamp        \* the document id; start Never is the ".0" of no episode
Reading  == Detector \X Time
Source   == Alert \cup Reading
Terminal == {"RESOLVED"}
Doc      == [state : {"OPEN", "RECOVERING", "RESOLVED", "STALE"},
             members : SUBSET Alert, healthy : Nat, lastHealthy : Stamp,
             lastBreach : Stamp, lastEval : Stamp]
Result   == [key : Detector, window : Time,
             grade : {"breach", "unclear", "healthy"}, exec : Time]
Lanes    == [history : Stamp, anomalies : Stamp]

ASSUME InputsAssumption ==
  /\ MonitorOf \in [Alert -> Monitor]
  /\ Monitor \cap Detector = {} /\ Alert \cap Reading = {}
  /\ Faults \subseteq SilentReads /\ InOrder \in BOOLEAN
  /\ None \notin Doc \cup Episode \cup Stamp
ASSUME BoundsAssumption ==
  /\ MonitorRequired \in Nat \ {0} /\ DetectorRequired \in Nat \ {0}
  /\ Lag \in Nat /\ Overlap \in Nat /\ EvidenceOverlap \in Nat
  /\ Budget \in Nat
  /\ Budgets \subseteq [alerts : Nat, results : Nat]
  /\ MaxTime \in Nat /\ MaxFailures \in Nat

VARIABLES
  now,
  alert,      \* per alert: where its document is, its start and its end
  results,    \* anomaly results in the index
  store,      \* the incidents index
  signals,    \* the signals index: the episode each row names
  mark,       \* the watermarks of the two lanes
  am,         \* per key, the episode Alertmanager was last told of, whether it
              \* fires, and whether the last push renewed it
  \* one cycle of the projector
  pc,
  moment,     \* when the cycle began
  current,    \* alerts seen in the current index
  past,       \* alerts seen in the history index
  rows,       \* signal rows to write
  incidents,  \* incident documents to write
  high,       \* watermarks to write
  \* bounds and history
  budget,     \* alerts and results still to come
  failures,
  told,       \* the last cycle ended with a push
  unnamed     \* readings a cycle dropped because no detector had a name

env     == <<now, alert, results, budget>>
opened  == <<store, signals, mark, am>>
cycle   == <<moment, current, past, rows, incidents, high>>
history == <<failures, told, unnamed>>
vars    == <<env, opened, pc, cycle, history>>

MaxOf(S) == CHOOSE x \in S : \A y \in S : y <= x

-----------------------------------------------------------------------------
(***************************************************************************)
(* What the episode reducer computes.                                      *)
(***************************************************************************)
Blank(t) ==
  [state |-> "OPEN", members |-> {}, healthy |-> 0, lastHealthy |-> Never,
   lastBreach |-> Never, lastEval |-> t]

Starts(k)   == {t \in Time : store[<<k, t>>] # None}
Latest(k)   == MaxOf(Starts(k))
IsOpen(doc) == doc # None /\ doc.state \notin Terminal

\* The rows of one monitor first seen at t: one at most, its alerts follow each
\* other.  In order of first_seen is in order of t.
RowsAt(m, t) == {a \in current \cup past : MonitorOf[a] = m /\ alert[a].start = t}

\* One row of split_monitor_episodes: it opens a run after the last one has
\* recovered, and a cleared row recovers the run once enough were counted.
SplitRow(split, a) ==
  LET first   == split.runs = <<>>
      beyond  == ~first /\ split.end # Never /\ alert[a].start > split.end
      was     == IF beyond THEN [split EXCEPT !.end = Never, !.healthy = 0,
                                              !.lastHealthy = Never]
                 ELSE split
      counted == a \in past /\ alert[a].end > was.lastHealthy
      healthy == IF a \notin past THEN 0
                 ELSE IF counted THEN was.healthy + 1 ELSE was.healthy
      cleared == IF a \notin past THEN Never
                 ELSE IF counted THEN alert[a].end ELSE was.lastHealthy
      old     == IF first \/ beyond THEN [start |-> alert[a].start, members |-> {}]
                 ELSE split.runs[Len(split.runs)]
      run     == [start |-> old.start, members |-> old.members \cup {a},
                  healthy |-> healthy, lastHealthy |-> cleared]
  IN [runs |-> IF first \/ beyond THEN Append(split.runs, run)
               ELSE [split.runs EXCEPT ![Len(split.runs)] = run],
      end |-> IF a \notin past THEN Never
              ELSE IF healthy >= MonitorRequired THEN MaxOf({was.end, alert[a].end})
              ELSE was.end,
      healthy |-> healthy, lastHealthy |-> cleared]

\* The first run continues the key's latest episode, at `prior' while it is open.
\* (mutant: also when the run is older than that episode)
AdoptsAny(runs, prior) == runs # <<>> /\ prior # None
Adopts(runs, prior)    == runs # <<>> /\ prior # None /\ prior <= Head(runs).start

\* The rows of a monitor in the order they were first seen, split into runs.
SplitRows(split, S) == IF S = {} THEN split ELSE SplitRow(split, CHOOSE a \in S : TRUE)

Split(m, carried) ==
  LET upto[t \in Stamp] ==
        IF t = Never
        THEN [runs |-> <<>>, end |-> Never, healthy |-> carried.healthy,
              lastHealthy |-> carried.lastHealthy]
        ELSE SplitRows(upto[t - 1], RowsAt(m, t))
  IN upto[MaxTime].runs

Runs(m, prior) ==
  LET runs == Split(m, IF prior = None THEN Blank(Never) ELSE store[<<m, prior>>])
  IN IF Adopts(runs, prior)
     THEN [runs EXCEPT ![1].start = prior]
     ELSE runs

Enough(run) == run.healthy >= MonitorRequired

MonitorDoc(run, stored) ==
  [stored EXCEPT
     !.state = IF Enough(run) THEN "RESOLVED"
               ELSE IF run.healthy > 0 THEN "RECOVERING"
               ELSE IF run.members \subseteq past THEN stored.state
               ELSE "OPEN",
     !.members = @ \cup run.members,
     !.healthy = run.healthy,
     !.lastHealthy = run.lastHealthy]

\* detector_episode_start: the episode a result belongs to, None for none.
DetectorStart(line, docs, r) ==
  LET before == {t \in line : t <= r.window}
      cover  == MaxOf(before)
  IN IF before # {} /\ (IsOpen(docs[cover]) \/ r.window <= docs[cover].lastHealthy)
     THEN cover
     ELSE IF r.grade = "breach" /\ (before # {} \/ line = {}) THEN r.window
     ELSE None

Evaluated(doc, r) ==
  IF r.window > doc.lastEval
  THEN [doc EXCEPT !.lastEval = r.window,
                   !.state = IF @ = "STALE" THEN "OPEN" ELSE @]
  ELSE doc

\* (mutant: the healthy window is cleared to nothing)
BreachedToNone(doc, r) ==
  IF r.window > doc.lastBreach
  THEN [doc EXCEPT !.lastBreach = r.window, !.lastHealthy = None,
                   !.healthy = 0, !.state = "OPEN"]
  ELSE doc
Breached(doc, r) ==
  IF r.window > doc.lastBreach
  THEN [doc EXCEPT !.lastBreach = r.window, !.lastHealthy = Never,
                   !.healthy = 0, !.state = "OPEN"]
  ELSE doc

\* (mutant: a window is counted again when it is read again)
RecoveredTwice(doc, r) ==
  IF IsOpen(doc) /\ r.window > doc.lastBreach
  THEN [doc EXCEPT !.lastHealthy = r.window, !.healthy = @ + 1,
                   !.state = IF doc.healthy + 1 >= DetectorRequired
                             THEN "RESOLVED" ELSE "RECOVERING"]
  ELSE doc
Recovered(doc, r) ==
  IF IsOpen(doc) /\ r.window > doc.lastHealthy /\ r.window > doc.lastBreach
  THEN [doc EXCEPT !.lastHealthy = r.window, !.healthy = @ + 1,
                   !.state = IF doc.healthy + 1 >= DetectorRequired
                             THEN "RESOLVED" ELSE "RECOVERING"]
  ELSE doc

\* One result of apply_detector, on the episodes of its key.
ApplyResult(acc, r) ==
  LET start == DetectorStart(acc.line, acc.docs, r)
      doc   == Evaluated(IF acc.docs[start] = None THEN Blank(r.window)
                         ELSE acc.docs[start], r)
  IN IF start = None THEN acc
     ELSE [line    |-> acc.line \cup {start},
           docs    |-> [acc.docs EXCEPT ![start] =
                          CASE r.grade = "breach"  -> Breached(doc, r)
                            [] r.grade = "healthy" -> Recovered(doc, r)
                            [] OTHER               -> doc],
           touched |-> acc.touched \cup {start},
           owner   |-> [acc.owner EXCEPT ![r.window] = start]]

\* The results of one detector, one at most per window, folded in window order;
\* `line' is what of its timeline the cycle could load.
ResultsAt(scanned, d, t) == {r \in scanned : r.key = d /\ r.window = t}
ApplyResults(acc, S) == IF S = {} THEN acc ELSE ApplyResult(acc, CHOOSE r \in S : TRUE)

Applied(d, line, scanned) ==
  LET upto[t \in Stamp] ==
        IF t = Never
        THEN [line |-> line, touched |-> {}, owner |-> [w \in Time |-> Never],
              docs |-> [w \in Time |-> IF w \in line THEN store[<<d, w>>] ELSE None]]
        ELSE ApplyResults(upto[t - 1], ResultsAt(scanned, d, t))
  IN upto[MaxTime]

\* age_episodes: a detector that was not evaluated in time is STALE, and fires.
Aged(doc) ==
  IF doc.state \notin Terminal /\ moment - doc.lastEval > Budget
  THEN [doc EXCEPT !.state = "STALE"] ELSE doc

\* An open episode nothing touched is aged, written and sent again.
\* (mutant: it is left out)
CarriesNone(prior, t) == FALSE
Carries(prior, t)     == t = prior

Lower(m, overlap) == IF m - overlap < Never THEN Never ELSE m - overlap

\* (mutants: no overlap)
HistoryMark   == mark.history
HistoryFloor  == Lower(mark.history, Overlap)
EvidenceMark  == mark.anomalies
EvidenceFloor == Lower(mark.anomalies, EvidenceOverlap)

NoEpisodes        == [e \in Episode |-> None]
NoRows            == [s \in Source |-> None]

-----------------------------------------------------------------------------
(***************************************************************************)
(* Alerting, Anomaly Detection and the clock.  They act up to the last     *)
(* read of a cycle: the writes that follow touch nothing of theirs, so     *)
(* what happens beside a write happens as well before it or after the push.*)
(***************************************************************************)
Quiet == pc \in {"idle", "history", "project"}


Tick ==
  /\ Quiet /\ now < MaxTime
  /\ \A a \in Alert : alert[a].at = "moving" => now - alert[a].end < Lag
  /\ now' = now + 1
  /\ UNCHANGED <<alert, results, budget, opened, pc, cycle, history>>

\* A monitor has one active alert per bucket, and raises the next one on a
\* later run than the one that completed the last.
Start(a) ==
  /\ Quiet /\ alert[a].at = "none" /\ budget.alerts > 0
  /\ \A b \in Alert \ {a} : MonitorOf[b] = MonitorOf[a] =>
       \/ alert[b].at = "none"
       \/ alert[b].at = "history" /\ alert[b].end < now
  /\ alert' = [alert EXCEPT ![a] = [at |-> "current", start |-> now, end |-> Never]]
  /\ budget' = [budget EXCEPT !.alerts = @ - 1]
  /\ UNCHANGED <<now, results, opened, pc, cycle, history>>

\* The alert leaves the current index and is not yet searchable in the history.
Complete(a) ==
  /\ Quiet /\ alert[a].at = "current" /\ alert[a].start < now
  /\ alert' = [alert EXCEPT ![a].at = "moving", ![a].end = now]
  /\ UNCHANGED <<now, results, budget, opened, pc, cycle, history>>

Refresh(a) ==
  /\ Quiet /\ alert[a].at = "moving"
  /\ alert' = [alert EXCEPT ![a].at = "history"]
  /\ UNCHANGED <<now, results, budget, opened, pc, cycle, history>>

\* A result is searchable at `now', at most Lag after it was executed.
Evaluate(d) ==
  /\ Quiet /\ budget.results > 0
  /\ \E exec \in Lower(now, Lag) .. now, window \in Time,
        grade \in {"breach", "unclear", "healthy"} :
       /\ exec >= 0 /\ window <= exec
       /\ \A r \in results : r.key = d =>
            r.window # window /\ (InOrder => r.window < window /\ r.exec <= exec)
       /\ results' = results \cup {[key |-> d, window |-> window,
                                    grade |-> grade, exec |-> exec]}
  /\ budget' = [budget EXCEPT !.results = @ - 1]
  /\ UNCHANGED <<now, alert, opened, pc, cycle, history>>

-----------------------------------------------------------------------------
(***************************************************************************)
(* One cycle.                                                              *)
(***************************************************************************)
\* cycle: the moment, and snapshot_current_alerts.
ReadCurrent ==
  /\ pc = "idle"
  /\ moment' = now
  /\ current' = {a \in Alert : alert[a].at = "current"}
  /\ told' = FALSE
  /\ pc' = "history"
  /\ UNCHANGED <<env, opened, past, rows, incidents, high, failures, unnamed>>

\* ingest_alert_history: the rows that ended since the watermark less the
\* overlap; the next watermark is the latest end seen.
ReadHistory ==
  /\ pc = "history"
  /\ LET lower == HistoryFloor
         found == {a \in Alert : alert[a].at = "history" /\ alert[a].end >= lower}
     IN /\ past' = found
        /\ high' = [high EXCEPT !.history =
                      MaxOf({lower} \cup {alert[a].end : a \in found})]
  /\ pc' = "project"
  /\ UNCHANGED <<env, opened, moment, current, rows, incidents, history>>

\* What a cycle works on when the reads in `lost' failed: the episode of a key it
\* takes for open, the document it updates, the results it has names for, and the
\* episodes it could load of a detector.
Timeline(lost, k) == IF "timelines" \in lost THEN {} ELSE Starts(k)
Prior(lost, k)    == IF Timeline(lost, k) # {} /\ IsOpen(store[<<k, Latest(k)>>])
                     THEN Latest(k) ELSE None
Found(lost, e)    == IF {"timelines", "mget"} \subseteq lost \/ store[e] = None
                     THEN Blank(Never) ELSE store[e]
Scanned           == {r \in results : r.exec >= EvidenceFloor}
Named(lost)       == IF "names" \in lost THEN {} ELSE Scanned
BreachedAt(lost, d) ==
  {r.window : r \in {s \in Named(lost) : s.key = d /\ s.grade = "breach"}}
Loaded(lost, d) ==
  IF "timelines" \notin lost THEN Starts(d)
  ELSE IF "mget" \in lost THEN {}
  ELSE Starts(d) \cap BreachedAt(lost, d)

\* The document a cycle writes at e, and the episode the row of s names.
IncidentOf(lost, runs, folded, e) ==
  LET k == e[1]  t == e[2]
      owned == IF k \in Monitor THEN {i \in DOMAIN runs[k] : runs[k][i].start = t} ELSE {}
  IN IF owned # {} THEN MonitorDoc(runs[k][MaxOf(owned)], Found(lost, e))
     ELSE IF k \in Detector /\ t \in folded[k].touched THEN Aged(folded[k].docs[t])
     ELSE IF Carries(Prior(lost, k), t)
     THEN IF k \in Detector THEN Aged(store[e]) ELSE store[e]
     ELSE None

RowOf(lost, runs, folded, s) ==
  IF s \in current \cup past
  THEN LET m == MonitorOf[s]
           i == CHOOSE i \in DOMAIN runs[m] : s \in runs[m][i].members
       IN <<m, runs[m][i].start>>
  ELSE IF s \in Reading /\ s[2] \in BreachedAt(lost, s[1])
  THEN <<s[1], folded[s[1]].owner[s[2]]>>
  ELSE None

\* The rest of cycle up to its first write: timelines, monitor episodes,
\* anomaly results, detector episodes, open episodes nothing touched, ageing.
Project ==
  /\ pc = "project"
  /\ \E lost \in SUBSET Faults :
     /\ failures + Cardinality(lost) <= MaxFailures
     /\ failures' = failures + Cardinality(lost)
     /\ LET runs   == [m \in Monitor |-> Runs(m, Prior(lost, m))]
            folded == [d \in Detector |-> Applied(d, Loaded(lost, d), Named(lost))]
        IN /\ incidents' = [e \in Episode |-> IncidentOf(lost, runs, folded, e)]
           /\ rows' = [s \in Source |-> RowOf(lost, runs, folded, s)]
     /\ unnamed' = unnamed \cup {<<r.key, r.window>> : r \in Scanned \ Named(lost)}
  /\ high' = [high EXCEPT !.anomalies =
                MaxOf({EvidenceFloor} \cup {r.exec : r \in Scanned})]
  /\ moment' = 0 /\ current' = {} /\ past' = {}
  /\ pc' = "signals"
  /\ UNCHANGED <<env, opened, told>>

EndCycle ==
  /\ pc' = "idle"
  /\ moment' = 0 /\ current' = {} /\ past' = {}
  /\ rows' = NoRows /\ incidents' = NoEpisodes
  /\ high' = [history |-> Never, anomalies |-> Never]

\* cycle raised after its first write, or the process died there, or Alertmanager
\* refused the push: nothing of the cycle is kept.  One that raises before it has
\* written anything is as if it had not begun, and is not modelled.
\* (mutant: main does not go on after it)
AbortForGood ==
  /\ pc \in {"incidents", "historyMark", "anomalyMark", "push"}
  /\ failures < MaxFailures
  /\ failures' = failures + 1
  /\ pc' = "stopped"
  /\ UNCHANGED <<env, opened, cycle, told, unnamed>>
Abort ==
  /\ pc \in {"incidents", "historyMark", "anomalyMark", "push"}
  /\ failures < MaxFailures
  /\ failures' = failures + 1
  /\ EndCycle
  /\ UNCHANGED <<env, opened, told, unnamed>>

SignalsWith(S)   == [s \in Source |-> IF s \in S THEN rows[s] ELSE signals[s]]
IncidentsWith(E) == [e \in Episode |-> IF e \in E THEN incidents[e] ELSE store[e]]
Rows             == {s \in Source : rows[s] # None}
Touched          == {e \in Episode : incidents[e] # None}

WriteSignals ==
  /\ pc = "signals"
  /\ signals' = SignalsWith(Rows)
  /\ pc' = "incidents"
  /\ UNCHANGED <<env, store, mark, am, cycle, history>>

\* Some items of a bulk request were accepted; checked_bulk raises.
SomeSignals ==
  /\ pc = "signals" /\ failures < MaxFailures
  /\ \E S \in SUBSET Rows \ {{}} : signals' = SignalsWith(S)
  /\ failures' = failures + 1
  /\ EndCycle
  /\ UNCHANGED <<env, store, mark, am, told, unnamed>>

WriteIncidents ==
  /\ pc = "incidents"
  /\ store' = IncidentsWith(Touched)
  /\ pc' = "historyMark"
  /\ UNCHANGED <<env, signals, mark, am, cycle, history>>

SomeIncidents ==
  /\ pc = "incidents" /\ failures < MaxFailures
  /\ \E E \in SUBSET Touched \ {{}} : store' = IncidentsWith(E)
  /\ failures' = failures + 1
  /\ EndCycle
  /\ UNCHANGED <<env, signals, mark, am, told, unnamed>>

WriteHistoryMark ==
  /\ pc = "historyMark"
  /\ mark' = [mark EXCEPT !.history = high.history]
  /\ pc' = "anomalyMark"
  /\ UNCHANGED <<env, store, signals, am, cycle, history>>

WriteAnomalyMark ==
  /\ pc = "anomalyMark"
  /\ mark' = [mark EXCEPT !.anomalies = high.anomalies]
  /\ pc' = "push"
  /\ UNCHANGED <<env, store, signals, am, cycle, history>>

\* alertmanager_payload, send_to_alertmanager.  The labels of a key's episodes
\* are the same, so the last one in the request is the one that counts.
Push ==
  /\ pc = "push"
  /\ am' = [k \in Key |->
              LET sent == {t \in Time : <<k, t>> \in Touched}
              IN IF sent = {} THEN [am[k] EXCEPT !.renewed = FALSE]
                 ELSE [start |-> MaxOf(sent), renewed |-> TRUE,
                       firing |-> IsOpen(incidents[<<k, MaxOf(sent)>>])]]
  /\ told' = TRUE
  /\ EndCycle
  /\ UNCHANGED <<env, store, signals, mark, failures, unnamed>>

-----------------------------------------------------------------------------
Init ==
  /\ now = 0
  /\ alert = [a \in Alert |-> [at |-> "none", start |-> Never, end |-> Never]]
  /\ results = {}
  /\ store = NoEpisodes
  /\ signals = NoRows
  /\ mark = [history |-> Never, anomalies |-> Never]
  /\ am = [k \in Key |-> [start |-> Never, firing |-> FALSE, renewed |-> FALSE]]
  /\ pc = "idle" /\ moment = 0 /\ current = {} /\ past = {}
  /\ rows = NoRows /\ incidents = NoEpisodes
  /\ high = [history |-> Never, anomalies |-> Never]
  /\ budget \in Budgets /\ failures = 0 /\ told = FALSE /\ unnamed = {}

Environment ==
  \/ Tick
  \/ \E a \in Alert : Start(a) \/ Complete(a) \/ Refresh(a)
  \/ \E d \in Detector : Evaluate(d)

Cycle ==
  \/ ReadCurrent \/ ReadHistory \/ Project
  \/ WriteSignals \/ WriteIncidents
  \/ WriteHistoryMark \/ WriteAnomalyMark \/ Push

Failure == Abort \/ SomeSignals \/ SomeIncidents

Next == Environment \/ Cycle \/ Failure

Spec == Init /\ [][Next]_vars

\* main runs cycle for ever.
FairSpec == Spec /\ WF_pc(Cycle)

-----------------------------------------------------------------------------
TypeOK ==
  /\ now \in Time
  /\ alert \in [Alert -> [at : {"none", "current", "moving", "history"},
                          start : Stamp, end : Stamp]]
  /\ results \subseteq Result
  /\ store \in [Episode -> Doc \cup {None}]
  /\ signals \in [Source -> Episode \cup {None}]
  /\ mark \in Lanes
  /\ am \in [Key -> [start : Stamp, firing : BOOLEAN, renewed : BOOLEAN]]
  /\ pc \in {"idle", "history", "project", "signals", "incidents",
             "historyMark", "anomalyMark", "push"}
  /\ moment \in Time /\ current \subseteq Alert /\ past \subseteq Alert
  /\ rows \in [Source -> Episode \cup {None}]
  /\ incidents \in [Episode -> Doc \cup {None}]
  /\ high \in Lanes
  /\ budget \in [alerts : Nat, results : Nat] /\ failures \in 0 .. MaxFailures
  /\ told \in BOOLEAN /\ unnamed \subseteq Reading

\* An episode is resolved on evidence only: as many healthy results later than
\* its last breach as its detector asks for, or the clearing of every alert in
\* it.  A result that is read again is counted once.  (apply_detector,
\* apply_monitor under the overlap of the watermarks.)
RecoveryIsEvidenced ==
  /\ \A d \in Detector : \A t \in Starts(d) :
       LET doc  == store[<<d, t>>]
           seen == {r \in results : /\ r.key = d /\ r.grade = "healthy"
                                    /\ r.window > doc.lastBreach
                                    /\ r.window <= doc.lastHealthy}
       IN /\ doc.healthy <= Cardinality(seen)
          /\ doc.state = "RESOLVED" => doc.healthy >= DetectorRequired
  /\ \A m \in Monitor : \A t \in Starts(m) :
       store[<<m, t>>].state = "RESOLVED" =>
         /\ \A a \in store[<<m, t>>].members : alert[a].end # Never
         /\ Cardinality(store[<<m, t>>].members) >= MonitorRequired

\* An alert the history lane will not read again is in a resolved episode, the
\* one its signal names: the watermark never passes an alert a cycle missed or
\* only half wrote.
AlertsAreCovered ==
  \A a \in Alert :
    alert[a].end # Never /\ alert[a].end < Lower(mark.history, Overlap) =>
      \E t \in Starts(MonitorOf[a]) :
        /\ signals[a] = <<MonitorOf[a], t>>
        /\ a \in store[<<MonitorOf[a], t>>].members
        /\ store[<<MonitorOf[a], t>>].state = "RESOLVED"

\* A breach the anomaly lane will not read again has its signal and an episode
\* that knows of it, unless a cycle read it without the names of the detectors.
BreachesAreCovered ==
  \A r \in results :
    /\ r.grade = "breach" /\ r.exec < Lower(mark.anomalies, EvidenceOverlap)
    /\ <<r.key, r.window>> \notin unnamed
    => /\ signals[<<r.key, r.window>>] # None
       /\ \E t \in Starts(r.key) : store[<<r.key, t>>].lastBreach >= r.window

\* The detectors a cycle had results of and no name for.
Nameless == {r[1] : r \in unnamed}

\* Alertmanager was told that the open episode of k fires, and of no other since.
Pushed(k) ==
  \A t \in Starts(k) : IsOpen(store[<<k, t>>]) =>
    am[k] = [start |-> t, firing |-> TRUE, renewed |-> TRUE]

\* After a cycle that pushed, Alertmanager fires every episode that is open in
\* the index, renewed for another resolve_timeout: none is open that a cycle leaves out
\* or that another episode of its key hides.  (A cycle without names after a
\* half-written one leaves an episode open before the latest.)
EveryOpenEpisodeIsPushed == told => \A k \in Key \ Nameless : Pushed(k)

\* A signal that names an episode of the index names it for good: no overlap,
\* retry or half-written cycle moves a row to another episode.
KeepsEpisode(s) ==
  signals[s] # None /\ store[signals[s]] # None => signals'[s] = signals[s]
SignalKeepsEpisode ==
  [][\A s \in Source : (s \in Alert \/ s[1] \notin Nameless) => KeepsEpisode(s)]_vars

\* Again and again every alert of the history index is in a resolved episode:
\* whatever cycles failed on the way, the projector catches up.
CatchesUp ==
  []<>(\A a \in Alert : alert[a].at = "history" =>
         \E t \in Starts(MonitorOf[a]) :
           /\ a \in store[<<MonitorOf[a], t>>].members
           /\ store[<<MonitorOf[a], t>>].state = "RESOLVED")
=============================================================================
