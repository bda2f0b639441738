------------------------ MODULE ReplayControlProofs ------------------------
(***************************************************************************)
(* Theorems about ReplayControl for every value of its constants: however  *)
(* many workers, jobs, passes and failures there are.                      *)
(***************************************************************************)
EXTENDS ReplayControl, TLAPS

Talking == {"poll", "wait"}
Wiping  == {"delete", "reset", "rebuild"}
Places  == Talking \cup Wiping
             \cup {"unused", "stop", "trigger", "check", "start", "halt", "done"}

\* What a job knows of the workers: while it polls, a worker it has asked is busy,
\* took its pass since, was silent, or is idle; from the wipe on it is not busy.
Knows(j) ==
  /\ jobs[j].pc \in Talking =>
       \A w \in Worker \ jobs[j].left :
         ~Idle(w) => w \in jobs[j].busy \cup jobs[j].fresh \cup jobs[j].silent
  /\ jobs[j].pc \in Wiping /\ jobs[j].action # "clear" =>
       \A w \in Worker : ~Idle(w) => w \in jobs[j].fresh \cup jobs[j].silent

\* Nothing that was seen to be off is started before the job starts its own run.
Checked(j) == At(j, "start") /\ ~missed => ~poison /\ inject = "off"

\* Only a run that goes on is stopped, and a start waits for nothing else.
Waiting == queued \/ halted => inject # "off"

\* The job that runs is the one in the slot.
Slotted(j) == Running(j) => slot = j

Inv ==
  /\ TypeOK /\ RunsExclude /\ FaultIsRestored /\ Waiting
  /\ \A j \in JobId : Knows(j) /\ Checked(j) /\ Slotted(j)

-----------------------------------------------------------------------------
(***************************************************************************)
(* What the steps of a job have in common.                                 *)
(***************************************************************************)
LEMMA UnusedType == Unused \in Job /\ [Unused EXCEPT !.pc = "done"] \in Job
BY BoundsAssumption DEF Unused, Job

\* Where a job goes, nothing else of it changes, and no other job does.
\* Steps of a job change nothing of another, and of its own what they name.
LEMMA GotoIs ==
  ASSUME jobs \in [JobId -> Job], NEW j \in JobId, NEW pc \in Places, pc # "done"
  PROVE  Goto(j, pc) = [jobs EXCEPT ![j] = [jobs[j] EXCEPT !.pc = pc]]
BY DEF Goto, Job

LEMMA EndedIs ==
  ASSUME NEW j \in JobId
  PROVE  /\ Ended(j) = [jobs EXCEPT ![j] = [Unused EXCEPT !.pc = "done"]]
         /\ Goto(j, "done") = Ended(j)
BY DEF Goto, Ended

LEMMA SetLeft ==
  ASSUME jobs \in [JobId -> Job], NEW j \in JobId, NEW r \in Job, NEW to, NEW none
  PROVE  /\ [[jobs EXCEPT ![j] = r] EXCEPT ![j].left = to]
              = [jobs EXCEPT ![j] = [r EXCEPT !.left = to]]
         /\ [[jobs EXCEPT ![j] = r] EXCEPT ![j].left = to, ![j].busy = none]
              = [jobs EXCEPT ![j] = [r EXCEPT !.left = to, !.busy = none]]
BY DEF Job

\* A step that makes r of job j, touches no service and starts no pass.
LEMMA JobOnly ==
  ASSUME Inv, NEW j \in JobId, Running(j), NEW r \in Job, jobs' = [jobs EXCEPT ![j] = r],
         r.pc # "unused",
         UNCHANGED <<slot, worker, services, autoload, passes, bursts, restarts>>,
         losses' \in 0 .. MaxLosses,
         Knows(j)', r.pc = "start" /\ ~missed => ~poison /\ inject = "off"
  PROVE  Inv'
<1> USE DEF Inv
<1>1. TypeOK'
      BY DEF TypeOK, services, autoload
<1>2. RunsExclude' /\ FaultIsRestored' /\ Waiting'
      BY DEF RunsExclude, FaultIsRestored, Waiting, services
<1>3. jobs'[j] = r /\ \A i \in JobId \ {j} : jobs'[i] = jobs[i]
      BY DEF TypeOK
<1>4. ASSUME NEW i \in JobId PROVE Knows(i)' /\ Checked(i)' /\ Slotted(i)'
  <2>1. CASE i = j
        BY <1>3, <2>1 DEF Slotted, Running, Checked, At, services
  <2>2. CASE i # j
        BY <1>3, <2>2 DEF Knows, Checked, Slotted, Running, At, Idle, services
  <2>3. QED  BY <2>1, <2>2
<1>5. QED  BY <1>1, <1>2, <1>4

LEMMA Losing ==
  ASSUME TypeOK, Lose \/ Heard
  PROVE  losses' \in 0 .. MaxLosses
BY BoundsAssumption DEF TypeOK, Lose, Heard

-----------------------------------------------------------------------------
(***************************************************************************)
(* A job and the workers.                                                  *)
(***************************************************************************)
LEMMA PollKeeps ==
  ASSUME Inv, NEW j \in JobId, NEW w \in Worker, Poll(j, w)
  PROVE  Inv'
<1> DEFINE r      == jobs[j]
           heard  == [r EXCEPT !.left = r.left \ {w}, !.fresh = r.fresh \ {w},
                               !.silent = r.silent \ {w},
                               !.busy = IF Idle(w) THEN r.busy ELSE r.busy \cup {w}]
           silent == [r EXCEPT !.left = r.left \ {w}, !.silent = r.silent \cup {w}]
<1>1. jobs \in [JobId -> Job] /\ r \in Job /\ Knows(j)
      BY DEF Inv, TypeOK
<1>2. r.pc \in Talking /\ Running(j)
      /\ UNCHANGED <<slot, worker, services, autoload, passes, bursts, restarts>>
      BY DEF Poll, Talking, Running
<1>3. losses' \in 0 .. MaxLosses
      BY Losing DEF Inv, Poll
<1>4. jobs' = [jobs EXCEPT ![j] = heard] \/ jobs' = [jobs EXCEPT ![j] = silent]
      BY <1>1 DEF Poll, Job
<1>5. heard \in Job /\ silent \in Job /\ heard.pc = r.pc /\ silent.pc = r.pc
      BY <1>1 DEF Job
<1>6. CASE jobs' = [jobs EXCEPT ![j] = heard]
  <2>1. jobs'[j] = heard
        BY <1>1, <1>6
  <2>2. Knows(j)'
        BY <1>1, <1>2, <2>1 DEF Knows, Talking, Wiping, Idle, Job
  <2>3. QED
    <3> HIDE DEF heard
    <3> QED  BY <1>2, <1>3, <1>5, <1>6, <2>2, JobOnly DEF Talking
<1>7. CASE jobs' = [jobs EXCEPT ![j] = silent]
  <2>1. jobs'[j] = silent
        BY <1>1, <1>7
  <2>2. Knows(j)'
        BY <1>1, <1>2, <2>1 DEF Knows, Talking, Wiping, Idle, Job
  <2>3. QED
    <3> HIDE DEF silent
    <3> QED  BY <1>2, <1>3, <1>5, <1>7, <2>2, JobOnly DEF Talking
<1>8. QED  BY <1>4, <1>6, <1>7

\* A job that ends knows nothing and is at no start.
LEMMA EndKeeps ==
  ASSUME Inv, NEW j \in JobId, Running(j), jobs' = Ended(j),
         UNCHANGED <<slot, worker, services, autoload, passes, bursts, restarts>>, losses' \in 0 .. MaxLosses
  PROVE  Inv'
<1> DEFINE r == [Unused EXCEPT !.pc = "done"]
<1>1. r \in Job /\ r.pc = "done"
      BY UnusedType DEF Unused
<1>2. jobs' = [jobs EXCEPT ![j] = r]
      BY EndedIs
<1> HIDE DEF r
<1>3. jobs'[j] = r
      BY <1>2 DEF Inv, TypeOK
<1>4. Knows(j)'
      BY <1>1, <1>3 DEF Knows, Talking, Wiping
<1>5. QED  BY <1>1, <1>2, <1>4, JobOnly

\* A job that goes on with new lists of workers.
LEMMA MoveKeeps ==
  ASSUME Inv, NEW j \in JobId, Running(j), NEW r \in Job, jobs' = [jobs EXCEPT ![j] = r],
         UNCHANGED <<slot, worker, services, autoload, bounds>>,
         r.fresh = jobs[j].fresh, r.silent = jobs[j].silent, r.action = jobs[j].action,
         r.pc # "unused", r.pc # "start",
         r.pc \in Talking => r.left = Worker,
         r.pc \in Wiping =>
           \/ jobs[j].pc \in Talking /\ jobs[j].left = {} /\ jobs[j].busy = {}
           \/ jobs[j].pc \in Wiping
  PROVE  Inv'
<1>1. jobs'[j] = r /\ Knows(j) /\ losses' \in 0 .. MaxLosses
      BY DEF Inv, TypeOK, bounds
<1>2. Knows(j)'
      BY <1>1 DEF Knows, Idle
<1>3. QED  BY <1>1, <1>2, JobOnly DEF bounds

LEMMA MovesKeep ==
  ASSUME Inv, NEW j \in JobId,
         \/ Polled(j) \/ AllAsked(j) \/ Waited(j) \/ AllTriggered(j)
         \/ Delete(j) \/ Reset(j) \/ Rebuild(j)
  PROVE  Inv'
<1> DEFINE r == jobs[j]
<1>1. jobs \in [JobId -> Job] /\ r \in Job /\ losses \in 0 .. MaxLosses
      BY DEF Inv, TypeOK
<1>2. UNCHANGED <<slot, worker, services, autoload, bounds>>
      BY DEF Polled, AllAsked, Waited, AllTriggered, Delete, Reset, Rebuild
<1>3. Running(j)
      BY DEF Polled, AllAsked, Waited, AllTriggered, Delete, Reset, Rebuild,
             Running, At
<1>4. CASE jobs' = Ended(j)
      BY <1>1, <1>2, <1>3, <1>4, EndKeeps DEF bounds
<1>5. ASSUME NEW pc \in Places, jobs' = Goto(j, pc), pc \notin {"unused", "done", "start"} \cup Talking,
             pc \in Wiping => \/ r.pc \in Talking /\ r.left = {} /\ r.busy = {}
                              \/ r.pc \in Wiping
      PROVE  Inv'
  <2> DEFINE s == [r EXCEPT !.pc = pc]
  <2>1. jobs' = [jobs EXCEPT ![j] = s]
        BY <1>1, <1>5, GotoIs
  <2>2. s \in Job /\ s.pc = pc /\ s.fresh = r.fresh /\ s.silent = r.silent
        /\ s.action = r.action
        BY <1>1 DEF Job, Places, Talking, Wiping
  <2> HIDE DEF s
  <2>3. QED  BY <1>2, <1>3, <1>5, <2>1, <2>2, MoveKeeps
<1>6. ASSUME NEW s \in Job, jobs' = [jobs EXCEPT ![j] = s], s.fresh = r.fresh,
             s.silent = r.silent, s.action = r.action,
             s.pc \in {"stop", "trigger"} \/ (s.pc = "wait" /\ s.left = Worker)
      PROVE  Inv'
      BY <1>2, <1>3, <1>6, MoveKeeps DEF Talking, Wiping
<1>7. CASE Polled(j)
  <2>1. CASE jobs' = [Goto(j, "stop") EXCEPT ![j].left = r.busy]
    <3> DEFINE s == [r EXCEPT !.pc = "stop", !.left = r.busy]
    <3>1. jobs' = [jobs EXCEPT ![j] = s]
          BY <1>1, <2>1 DEF Goto, Job
    <3>2. /\ s \in Job /\ s.pc = "stop"
          /\ s.fresh = r.fresh /\ s.silent = r.silent /\ s.action = r.action
          BY <1>1 DEF Job
    <3> HIDE DEF s
    <3>3. QED  BY <1>2, <1>3, <3>1, <3>2, MoveKeeps DEF Talking, Wiping
  <2>2. CASE r.busy = {} /\ jobs' = Goto(j, "delete")
        BY <1>5, <1>7, <2>2 DEF Polled, At, Places, Talking, Wiping
  <2>3. QED  BY <1>4, <1>7, <2>1, <2>2, EndedIs DEF Polled
<1>8. CASE AllAsked(j)
  <2>1. CASE jobs' = [Goto(j, "wait") EXCEPT ![j].left = Worker, ![j].busy = {}]
    <3>1. jobs' = [jobs EXCEPT ![j] = [r EXCEPT !.pc = "wait", !.left = Worker, !.busy = {}]]
          BY <1>1, <2>1 DEF Goto, Job
    <3>2. [r EXCEPT !.pc = "wait", !.left = Worker, !.busy = {}] \in Job
          BY <1>1 DEF Job
    <3>3. QED  BY <1>1, <1>6, <3>1, <3>2 DEF Job
  <2>2. QED  BY <1>4, <1>8, <2>1 DEF AllAsked, AfterStop
<1>9. CASE Waited(j)
  <2>1. CASE jobs' = [jobs EXCEPT ![j].left = Worker, ![j].busy = {}, ![j].waits = LessTime(@)]
    <3> DEFINE n == LessTime(r.waits)
    <3>1. n \in 0 .. MaxWaits
          BY <1>1, BoundsAssumption DEF Job, LessTime
    <3>2. jobs' = [jobs EXCEPT ![j] = [r EXCEPT !.left = Worker, !.busy = {}, !.waits = n]]
          BY <1>1, <2>1 DEF Job
    <3> HIDE DEF n
    <3>3. [r EXCEPT !.left = Worker, !.busy = {}, !.waits = n] \in Job /\ r.pc = "wait"
          BY <1>1, <1>9, <3>1 DEF Job, Waited, At
    <3>4. QED  BY <1>1, <1>6, <3>2, <3>3 DEF Job
  <2>2. CASE r.busy = {} /\ jobs' = Goto(j, "delete")
        BY <1>5, <1>9, <2>2 DEF Waited, At, Places, Talking, Wiping
  <2>3. QED  BY <1>4, <1>9, <2>1, <2>2 DEF Waited
<1>10. CASE AllTriggered(j)
       BY <1>4, <1>10, EndedIs DEF AllTriggered
<1>11. CASE Delete(j)
       BY <1>5, <1>11 DEF Delete, At, Places, Talking, Wiping
<1>12. CASE Reset(j)
  <2>1. jobs' = Ended(j) \/ jobs' = Goto(j, "rebuild")
        BY <1>12, EndedIs DEF Reset
  <2>2. QED  BY <1>4, <1>5, <1>12, <2>1 DEF Reset, At, Places, Talking, Wiping
<1>13. CASE Rebuild(j)
  <2>1. CASE jobs' = [Goto(j, "trigger") EXCEPT ![j].left = Worker]
    <3>1. jobs' = [jobs EXCEPT ![j] = [r EXCEPT !.pc = "trigger", !.left = Worker]]
          BY <1>1, <2>1 DEF Goto, Job
    <3>2. [r EXCEPT !.pc = "trigger", !.left = Worker] \in Job
          BY <1>1 DEF Job
    <3>3. QED  BY <1>1, <1>6, <3>1, <3>2 DEF Job
  <2>2. QED  BY <1>4, <1>13, <2>1 DEF Rebuild
<1>14. QED  BY <1>7, <1>8, <1>9, <1>10, <1>11, <1>12, <1>13

\* A check that admits a run beside another says so.
LEMMA CheckKeeps ==
  ASSUME Inv, NEW j \in JobId, Check(j)
  PROVE  Inv'
<1> DEFINE s == [jobs[j] EXCEPT !.pc = "start"]
<1>1. /\ TypeOK /\ jobs \in [JobId -> Job] /\ jobs[j] \in Job /\ Running(j)
      /\ UNCHANGED <<slot, worker, poison, inject, halted, queued, fault, excuse, autoload,
                     passes, bursts, restarts>>
      BY DEF Inv, TypeOK, Check, At, Running
<1>2. losses' \in 0 .. MaxLosses
      BY <1>1, Losing DEF Check
<1>3. CASE jobs' = Goto(j, "done") /\ UNCHANGED missed
      BY <1>1, <1>2, <1>3, EndedIs, EndKeeps DEF services
<1>4. CASE jobs' = Goto(j, "start") /\ missed' = (poison \/ inject # "off")
  <2>1. jobs' = [jobs EXCEPT ![j] = s] /\ s \in Job /\ s.pc = "start"
        BY <1>1, <1>4, GotoIs DEF Job, Places
  <2> HIDE DEF s
  <2>2. jobs' \in [JobId -> Job] /\ jobs'[j] = s /\ \A i \in JobId \ {j} : jobs'[i] = jobs[i]
        BY <1>1, <2>1
  <2>3. missed' \in BOOLEAN /\ (missed' <=> poison \/ inject # "off")
    <3>1. (poison \/ inject # "off") \in BOOLEAN
          OBVIOUS
    <3>2. QED  BY <1>4, <3>1, Zenon
  <2>4. TypeOK'
        BY <1>1, <1>2, <2>2, <2>3 DEF TypeOK, autoload
  <2>5. RunsExclude' /\ FaultIsRestored' /\ Waiting'
        BY <1>1, <2>3 DEF Inv, RunsExclude, FaultIsRestored, Waiting
  <2>6. ASSUME NEW i \in JobId PROVE Knows(i)' /\ Checked(i)' /\ Slotted(i)'
    <3>1. CASE i = j
          BY <1>1, <2>1, <2>2, <2>3, <3>1
          DEF Inv, Knows, Checked, Slotted, Running, At, Talking, Wiping
    <3>2. CASE i # j
      <4>1. ~Running(i)
            BY <1>1, <3>2 DEF Inv, Slotted
      <4>2. QED
            BY <2>2, <3>2, <4>1
            DEF Knows, Checked, Slotted, Running, At, Talking, Wiping
    <3>3. QED  BY <3>1, <3>2
  <2>7. QED  BY <2>4, <2>5, <2>6 DEF Inv
<1>5. QED  BY <1>3, <1>4 DEF Check

\* A stop event does not change where a worker stands.
LEMMA StoppedIs ==
  ASSUME worker \in [Worker -> Station], NEW w \in Worker, worker' \in {worker, Stopped(w)}
  PROVE  /\ worker' \in [Worker -> Station]
         /\ \A v \in Worker : worker'[v].stage = worker[v].stage
<1>1. \/ worker' = worker
      \/ worker' = [worker EXCEPT ![w].stop = TRUE] /\ worker[w].stage \in {"running", "pausing"}
      BY DEF Stopped
<1>2. CASE /\ worker' = [worker EXCEPT ![w].stop = TRUE]
           /\ worker[w].stage \in {"running", "pausing"}
  <2>1. worker[w] \in Station
        OBVIOUS
  <2>2. worker' = [worker EXCEPT ![w] = [worker[w] EXCEPT !.stop = TRUE]]
        BY <1>2
  <2>3. [worker[w] EXCEPT !.stop = TRUE] \in Station
        BY <1>2, <2>1 DEF Station
  <2>4. QED  BY <2>1, <2>2, <2>3 DEF Station
<1>3. QED  BY <1>1, <1>2

LEMMA AskStopKeeps ==
  ASSUME Inv, NEW j \in JobId, NEW w \in Worker, AskStop(j, w)
  PROVE  Inv'
<1> USE DEF Inv
<1> DEFINE r == [jobs[j] EXCEPT !.left = jobs[j].left \ {w}]
<1>1. /\ jobs \in [JobId -> Job] /\ jobs[j] \in Job /\ worker \in [Worker -> Station]
      /\ jobs' = [jobs EXCEPT ![j] = r] /\ r \in Job /\ r.pc = "stop"
      BY DEF TypeOK, AskStop, Job, At
<1>2. losses' \in 0 .. MaxLosses
      BY Losing DEF AskStop
<1>3. /\ worker' \in [Worker -> Station]
      /\ \A v \in Worker : worker'[v].stage = worker[v].stage
      BY <1>1, StoppedIs DEF AskStop
<1>4. UNCHANGED <<slot, services, autoload, passes, bursts, restarts>>
      BY DEF AskStop
<1> HIDE DEF r
<1>5. TypeOK'
      BY <1>1, <1>2, <1>3, <1>4 DEF TypeOK, services, autoload
<1>6. RunsExclude' /\ FaultIsRestored' /\ Waiting'
      BY <1>4 DEF RunsExclude, FaultIsRestored, Waiting, services
<1>7. ASSUME NEW i \in JobId PROVE Knows(i)' /\ Checked(i)' /\ Slotted(i)'
  <2>1. CASE i = j
        BY <1>1, <1>4, <2>1 DEF AskStop, Knows, Checked, Slotted, Running, At, Talking, Wiping
  <2>2. CASE i # j
        BY <1>1, <1>3, <1>4, <2>2 DEF Knows, Checked, Slotted, Running, At, Idle, services
  <2>3. QED  BY <2>1, <2>2
<1>8. QED  BY <1>5, <1>6, <1>7

\* Jobs g are jobs f, some of which know more fresh workers.
Fresher(f, g) ==
  \A i \in JobId :
    /\ g[i].pc = f[i].pc /\ g[i].action = f[i].action
    /\ g[i].left = f[i].left \/ f[i].pc = "trigger"
    /\ g[i].busy = f[i].busy /\ g[i].silent = f[i].silent
    /\ f[i].fresh \subseteq g[i].fresh

Told(w, g) == Triggered(w) # worker => \A i \in JobId : Running(i) => w \in g[i].fresh

LEMMA FreshenedIs ==
  ASSUME jobs \in [JobId -> Job], NEW w \in Worker
  PROVE  /\ Freshened(w) \in [JobId -> Job]
         /\ Fresher(jobs, Freshened(w)) /\ Told(w, Freshened(w))
BY DEF Freshened, Fresher, Told, Job

\* A pass is taken by an idle worker, and every job that runs is told apart from
\* those that polled it before.
LEMMA PassIs ==
  ASSUME TypeOK, NEW w \in Worker, RequestPass(w)
  PROVE  /\ worker' \in [Worker -> Station] /\ passes' \in 0 .. MaxPasses
         /\ \A v \in Worker : Idle(v)' \/ ~Idle(v) \/ (v = w /\ Triggered(w) # worker)
<1>1. jobs \in [JobId -> Job] /\ worker \in [Worker -> Station] /\ passes \in 0 .. MaxPasses
      BY DEF TypeOK
<1>2. CASE Idle(w) /\ passes < MaxPasses
  <2> DEFINE s == [stage |-> "starting", stop |-> FALSE]
  <2>1. s \in Station /\ s.stage = "starting"
        BY DEF Station
  <2>2. worker' = [worker EXCEPT ![w] = s]
        BY <1>2 DEF RequestPass, Triggered
  <2> HIDE DEF s
  <2>3. /\ worker' \in [Worker -> Station] /\ worker'[w] = s /\ worker'[w] # worker[w]
        /\ \A v \in Worker \ {w} : worker'[v] = worker[v]
        BY <1>1, <1>2, <2>1, <2>2 DEF Idle
  <2>4. Triggered(w) # worker /\ passes' = passes + 1
        BY <2>3 DEF RequestPass
  <2>5. /\ passes' \in 0 .. MaxPasses
        /\ \A v \in Worker : Idle(v)' \/ ~Idle(v) \/ (v = w /\ Triggered(w) # worker)
        BY <1>1, <1>2, <2>1, <2>3, <2>4, BoundsAssumption DEF Idle
  <2>6. QED  BY <2>3, <2>5
<1>3. CASE ~(Idle(w) /\ passes < MaxPasses)
  <2>1. worker' = worker /\ passes' = passes /\ Triggered(w) = worker
        BY <1>3 DEF RequestPass, Triggered
  <2>2. \A v \in Worker : Idle(v)' <=> Idle(v)
        BY <2>1 DEF Idle
  <2>3. QED  BY <1>1, <2>1, <2>2
<1>4. QED  BY <1>2, <1>3

\* A pass that is taken leaves what every job knows true.
LEMMA PassKeeps ==
  ASSUME Inv, NEW w \in Worker, RequestPass(w), NEW j \in JobId,
         Fresher(jobs, jobs'), Told(w, jobs'), UNCHANGED <<slot, services>>
  PROVE  Knows(j)' /\ Checked(j)' /\ Slotted(j)'
<1>1. /\ TypeOK /\ Knows(j) /\ Checked(j) /\ Slotted(j)
      BY DEF Inv
<1>2. \A v \in Worker : Idle(v)' \/ ~Idle(v) \/ (v = w /\ Triggered(w) # worker)
      BY <1>1, PassIs
<1>3. jobs[j].fresh \subseteq jobs'[j].fresh /\ jobs'[j].pc = jobs[j].pc
      /\ jobs'[j].action = jobs[j].action
      /\ jobs'[j].busy = jobs[j].busy /\ jobs'[j].silent = jobs[j].silent
      BY DEF Fresher
<1>4. jobs[j].pc \in Talking => jobs'[j].left = jobs[j].left
      BY DEF Fresher, Talking
<1>5. Triggered(w) # worker /\ Running(j) => w \in jobs'[j].fresh
      BY DEF Told
<1>6. Knows(j)'
  <2>1. ASSUME jobs[j].pc \in Talking, NEW v \in Worker \ jobs[j].left, ~Idle(v)'
        PROVE  v \in jobs'[j].busy \cup jobs'[j].fresh \cup jobs'[j].silent
    <3>1. Running(j)
          BY <2>1 DEF Running, Talking
    <3>2. ~Idle(v) => v \in jobs[j].busy \cup jobs[j].fresh \cup jobs[j].silent
          BY <1>1, <2>1 DEF Knows
    <3>3. QED  BY <1>2, <1>3, <1>5, <2>1, <3>1, <3>2
  <2>2. ASSUME jobs[j].pc \in Wiping, jobs[j].action # "clear", NEW v \in Worker, ~Idle(v)'
        PROVE  v \in jobs'[j].fresh \cup jobs'[j].silent
    <3>1. Running(j)
          BY <2>2 DEF Running, Wiping
    <3>2. ~Idle(v) => v \in jobs[j].fresh \cup jobs[j].silent
          BY <1>1, <2>2 DEF Knows
    <3>3. QED  BY <1>2, <1>3, <1>5, <2>2, <3>1, <3>2
  <2>3. QED  BY <1>3, <1>4, <2>1, <2>2 DEF Knows
<1>7. Checked(j)' /\ Slotted(j)'
      BY <1>1, <1>3 DEF Checked, Slotted, At, Running, services
<1>8. QED  BY <1>6, <1>7

LEMMA TriggerKeeps ==
  ASSUME Inv, NEW j \in JobId, NEW w \in Worker, Trigger(j, w)
  PROVE  Inv'
<1>1. /\ TypeOK /\ jobs \in [JobId -> Job] /\ jobs[j] \in Job /\ jobs[j].pc = "trigger"
      /\ RunsExclude /\ FaultIsRestored /\ Waiting
      /\ UNCHANGED <<slot, services, autoload, bursts, restarts>>
      BY DEF Inv, TypeOK, Trigger, At
<1>2. losses' \in 0 .. MaxLosses
      BY <1>1, Losing DEF Trigger
<1>3. RunsExclude' /\ FaultIsRestored' /\ Waiting'
      BY <1>1 DEF RunsExclude, FaultIsRestored, Waiting, services
<1>4. CASE RequestPass(w) /\ jobs' = [Freshened(w) EXCEPT ![j].left = @ \ {w}]
  <2> DEFINE f == Freshened(w)
  <2>1. f \in [JobId -> Job] /\ Fresher(jobs, f) /\ Told(w, f)
        BY <1>1, FreshenedIs
  <2>2. jobs' = [f EXCEPT ![j].left = f[j].left \ {w}]
        BY <1>4
  <2> HIDE DEF f
  <2>3. /\ jobs' \in [JobId -> Job]
        /\ \A i \in JobId \ {j} : jobs'[i] = f[i]
        /\ jobs'[j].pc = f[j].pc /\ jobs'[j].action = f[j].action
        /\ jobs'[j].busy = f[j].busy /\ jobs'[j].silent = f[j].silent
        /\ jobs'[j].fresh = f[j].fresh
    <3>1. f[j] \in Job /\ f[j].left \ {w} \in SUBSET Worker
          BY <2>1 DEF Job
    <3>2. jobs' = [f EXCEPT ![j] = [f[j] EXCEPT !.left = f[j].left \ {w}]]
          BY <2>2
    <3>3. [f[j] EXCEPT !.left = f[j].left \ {w}] \in Job
          BY <3>1 DEF Job
    <3>4. QED  BY <2>1, <3>1, <3>2, <3>3 DEF Job
  <2>4. Fresher(jobs, jobs') /\ Told(w, jobs')
        BY <1>1, <2>1, <2>3 DEF Fresher, Told
  <2>5. \A i \in JobId : Knows(i)' /\ Checked(i)' /\ Slotted(i)'
        BY <1>1, <1>4, <2>4, PassKeeps
  <2>6. TypeOK'
    <3>1. /\ worker' \in [Worker -> Station] /\ passes' \in 0 .. MaxPasses
          BY <1>1, <1>4, PassIs
    <3>2. QED  BY <1>1, <1>2, <2>3, <3>1 DEF TypeOK, services, autoload
  <2>7. QED  BY <1>3, <2>5, <2>6 DEF Inv
<1>5. CASE jobs' = [jobs EXCEPT ![j].left = @ \ {w}] /\ UNCHANGED <<worker, passes>>
  <2> DEFINE r == [jobs[j] EXCEPT !.left = jobs[j].left \ {w}]
  <2>1. jobs' = [jobs EXCEPT ![j] = r] /\ r \in Job /\ r.pc = "trigger"
        BY <1>1, <1>5 DEF Job
  <2> HIDE DEF r
  <2>2. Knows(j)'
        BY <1>1, <2>1 DEF Knows, Talking, Wiping
  <2>3. Running(j)
        BY <1>1 DEF Running
  <2>4. QED  BY <1>1, <1>2, <1>5, <2>1, <2>2, <2>3, JobOnly
<1>6. QED  BY <1>4, <1>5 DEF Trigger

LEMMA PoisonTriggersKeeps ==
  ASSUME Inv, NEW w \in Worker, PoisonTriggers(w)
  PROVE  Inv'
<1>1. /\ TypeOK /\ jobs \in [JobId -> Job] /\ RequestPass(w) /\ jobs' = Freshened(w)
      /\ RunsExclude /\ FaultIsRestored /\ Waiting
      /\ UNCHANGED <<slot, services, autoload, losses, restarts>> /\ bursts' \in 0 .. MaxBursts
      BY BoundsAssumption DEF Inv, TypeOK, PoisonTriggers
<1>2. RunsExclude' /\ FaultIsRestored' /\ Waiting'
      BY <1>1 DEF RunsExclude, FaultIsRestored, Waiting, services
<1>3. jobs' \in [JobId -> Job] /\ Fresher(jobs, jobs') /\ Told(w, jobs')
      BY <1>1, FreshenedIs
<1>4. \A i \in JobId : Knows(i)' /\ Checked(i)' /\ Slotted(i)'
      BY <1>1, <1>3, PassKeeps
<1>5. worker' \in [Worker -> Station] /\ passes' \in 0 .. MaxPasses
      BY <1>1, PassIs
<1>6. TypeOK'
      BY <1>1, <1>3, <1>5 DEF TypeOK, services, autoload
<1>7. QED  BY <1>2, <1>4, <1>6 DEF Inv

-----------------------------------------------------------------------------
(***************************************************************************)
(* The page, the two runs and the threads of a worker.                     *)
(***************************************************************************)
LEMMA PressKeeps ==
  ASSUME Inv, NEW j \in JobId, NEW action \in Buttons, Press(j, action)
  PROVE  Inv'
<1> DEFINE r == [action |-> action, pc |-> First(action), left |-> Worker, busy |-> {},
                 waits |-> MaxWaits, silent |-> {}, fresh |-> {}]
<1>1. /\ TypeOK /\ jobs \in [JobId -> Job] /\ RunsExclude /\ FaultIsRestored
      /\ Waiting /\ jobs' = [jobs EXCEPT ![j] = r] /\ slot' = j /\ SlotFree
      /\ UNCHANGED <<worker, services, autoload, bounds>>
      BY DEF Inv, TypeOK, Press
<1>2. action \in Buttons
      OBVIOUS
<1>3. First(action) \in {"trigger", "poll", "reset", "check", "halt"}
      /\ (First(action) = "reset" => action = "clear")
      BY <1>2 DEF First, Buttons
<1>4. r \in Job
      BY <1>2, <1>3, BoundsAssumption DEF Job
<1>5. r.pc = First(action) /\ r.action = action /\ r.left = Worker
      OBVIOUS
<1> HIDE DEF r
<1>6. jobs' \in [JobId -> Job] /\ jobs'[j] = r /\ \A i \in JobId \ {j} : jobs'[i] = jobs[i]
      BY <1>1, <1>4
<1>7. \A i \in JobId : ~Running(i)
  <2>1. slot # None => slot \in JobId /\ ~Running(slot)
        BY <1>1 DEF TypeOK, SlotFree, At, Running
  <2>2. \A i \in JobId : i # None
        BY BoundsAssumption DEF JobId
  <2>3. QED  BY <2>1, <2>2 DEF Inv, Slotted
<1>8. ASSUME NEW i \in JobId PROVE Knows(i)' /\ Checked(i)' /\ Slotted(i)'
  <2>1. CASE i = j
        BY <1>1, <1>3, <1>5, <1>6, <2>1 DEF Knows, Checked, Slotted, At, Talking, Wiping
  <2>2. CASE i # j
        BY <1>6, <1>7, <2>2 DEF Knows, Checked, Slotted, At, Running, Talking, Wiping
  <2>3. QED  BY <2>1, <2>2
<1>9. TypeOK'
      BY <1>1, <1>6 DEF TypeOK, services, autoload, bounds
<1>10. QED  BY <1>1, <1>8, <1>9 DEF Inv, RunsExclude, FaultIsRestored, Waiting, services

\* A step of job j that ends it and changes the two runs: no other job runs.
LEMMA LastStepKeeps ==
  ASSUME Inv, NEW j \in JobId, Running(j), jobs' = Ended(j),
         UNCHANGED <<slot, worker, missed, fault, excuse, autoload, passes, bursts, restarts>>,
         losses' \in 0 .. MaxLosses,
         poison' \in BOOLEAN, halted' \in BOOLEAN, queued' \in BOOLEAN,
         inject' = inject \/ (inject' = "apply" /\ inject = "off"),
         RunsExclude', Waiting'
  PROVE  Inv'
<1> DEFINE r == [Unused EXCEPT !.pc = "done"]
<1>1. r \in Job /\ r.pc = "done" /\ jobs' = [jobs EXCEPT ![j] = r]
      BY UnusedType, EndedIs DEF Unused
<1> HIDE DEF r
<1>2. TypeOK /\ jobs \in [JobId -> Job] /\ FaultIsRestored
      BY DEF Inv, TypeOK
<1>3. jobs' \in [JobId -> Job] /\ jobs'[j] = r /\ \A i \in JobId \ {j} : jobs'[i] = jobs[i]
      BY <1>1, <1>2
<1>4. \A i \in JobId \ {j} : ~Running(i)
      BY DEF Inv, Slotted
<1>5. ASSUME NEW i \in JobId PROVE Knows(i)' /\ Checked(i)' /\ Slotted(i)'
  <2>1. jobs'[i].pc \notin Talking \cup Wiping \cup {"start"} /\ ~Running(i)'
        BY <1>1, <1>3, <1>4 DEF Running, Talking, Wiping
  <2>2. QED  BY <2>1 DEF Knows, Checked, Slotted, At
<1>6. TypeOK'
      BY <1>2, <1>3 DEF TypeOK, autoload
<1>7. FaultIsRestored'
      BY <1>2 DEF FaultIsRestored
<1>8. QED  BY <1>5, <1>6, <1>7 DEF Inv

LEMMA StartRunKeeps ==
  ASSUME Inv, NEW j \in JobId, StartRun(j)
  PROVE  Inv'
<1>1. /\ Running(j) /\ jobs' = Ended(j) /\ TypeOK /\ RunsExclude /\ Waiting
      /\ ~missed => ~poison /\ inject = "off"
      BY EndedIs DEF Inv, StartRun, At, Running, Checked
<1>2. losses' \in 0 .. MaxLosses
      BY <1>1, Losing DEF StartRun
<1>3. /\ UNCHANGED <<slot, worker, halted, missed, fault, excuse, autoload, passes, bursts,
                     restarts>>
      /\ \/ /\ inject' = IF inject = "off" THEN "apply" ELSE inject
            /\ queued' = halted /\ poison' = poison
         \/ poison' = TRUE /\ inject' = inject /\ queued' = queued
         \/ poison' = poison /\ inject' = inject /\ queued' = queued
      BY DEF StartRun, Started
<1>4. poison' \in BOOLEAN /\ halted' \in BOOLEAN /\ queued' \in BOOLEAN
      BY <1>1, <1>3 DEF TypeOK
<1>5. inject' = inject \/ (inject' = "apply" /\ inject = "off")
      BY <1>3
<1>6. RunsExclude'
      BY <1>1, <1>3 DEF RunsExclude
<1>7. Waiting'
      BY <1>1, <1>3 DEF Waiting
<1>8. QED  BY <1>1, <1>2, <1>3, <1>4, <1>5, <1>6, <1>7, LastStepKeeps

LEMMA HaltKeeps ==
  ASSUME Inv, NEW j \in JobId, Halt(j)
  PROVE  Inv'
<1>1. /\ Running(j) /\ jobs' = Ended(j) /\ TypeOK /\ RunsExclude /\ Waiting
      BY EndedIs DEF Inv, Halt, At, Running
<1>2. /\ UNCHANGED <<slot, worker, inject, queued, missed, fault, excuse, autoload, passes,
                     bursts, restarts>>
      /\ \/ poison' = FALSE /\ halted' = halted
         \/ halted' = (inject # "off") /\ poison' = poison
         \/ poison' = poison /\ halted' = halted
      BY DEF Halt
<1>3. poison' \in BOOLEAN /\ halted' \in BOOLEAN /\ queued' \in BOOLEAN
  <2>1. (inject # "off") \in BOOLEAN
        OBVIOUS
  <2>2. queued' = queued /\ queued \in BOOLEAN
        BY <1>1, <1>2 DEF TypeOK
  <2>3. QED  BY <1>1, <1>2, <2>1, <2>2, Zenon DEF TypeOK
<1>4. RunsExclude'
      BY <1>1, <1>2, Zenon DEF RunsExclude
<1>5. Waiting'
  <2>1. CASE halted' = halted
        BY <1>1, <1>2, <2>1, Zenon DEF Waiting
  <2>2. CASE halted' = (inject # "off")
        BY <1>1, <1>2, <2>2, Zenon DEF Waiting
  <2>3. QED  BY <1>2, <2>1, <2>2
<1>6. losses' \in 0 .. MaxLosses
      BY <1>1, Losing DEF Halt
<1>7. QED  BY <1>1, <1>2, <1>3, <1>4, <1>5, <1>6, LastStepKeeps

\* The threads of a worker make none of them busy.
LEMMA WorkerKeeps ==
  ASSUME Inv, NEW w \in Worker, WorkerStep(w)
  PROVE  Inv'
<1>1. /\ TypeOK /\ worker \in [Worker -> Station] /\ worker[w] \in Station
      /\ UNCHANGED <<jobs, slot, services, passes, bursts, restarts>>
      BY DEF Inv, TypeOK, WorkerStep, Load, Register, FinishPass, PassFails, Resume, bounds
<1>2. ~Idle(w)
      BY DEF Idle, WorkerStep, Load, Register, FinishPass, PassFails, Resume
<1>3. PICK s \in Station : worker' = [worker EXCEPT ![w] = s]
  <2>1. Free(w) \in Station
        BY DEF Free, Station
  <2>2. \A stage \in {"running", "pausing"} : [worker[w] EXCEPT !.stage = stage] \in Station
        BY <1>1 DEF Station
  <2>3. \/ worker' = [worker EXCEPT ![w] = Free(w)]
        \/ worker' = [worker EXCEPT ![w] = [worker[w] EXCEPT !.stage = "running"]]
        \/ worker' = [worker EXCEPT ![w] = [worker[w] EXCEPT !.stage = "pausing"]]
        BY <1>1 DEF WorkerStep, Load, Register, FinishPass, PassFails, Resume
  <2>4. QED  BY <2>1, <2>2, <2>3
<1>4. worker' \in [Worker -> Station] /\ \A v \in Worker : ~Idle(v)' => ~Idle(v)
      BY <1>1, <1>2, <1>3 DEF Idle
<1>5. /\ losses' \in 0 .. MaxLosses
      /\ marked' \subseteq Worker /\ loaded' \subseteq Worker /\ unmarked' \subseteq Worker
  <2>1. CASE Load(w)
        BY <1>1, <2>1, Losing DEF TypeOK, Load, Marked
  <2>2. CASE ~Load(w)
        BY <1>1, <2>2 DEF TypeOK, WorkerStep, Register, FinishPass, PassFails, Resume, autoload, bounds
  <2>3. QED  BY <2>1, <2>2
<1>6. TypeOK'
      BY <1>1, <1>4, <1>5 DEF TypeOK, services
<1>7. \A j \in JobId : Knows(j)' /\ Checked(j)' /\ Slotted(j)'
      BY <1>1, <1>4 DEF Inv, Knows, Checked, Slotted, At, Running, services
<1>8. QED  BY <1>1, <1>6, <1>7 DEF Inv, RunsExclude, FaultIsRestored, Waiting, services

\* A restart that loads is a pass the jobs that run do not know of.
LEMMA RestartKeeps ==
  ASSUME Inv, NEW w \in Worker, Restart(w)
  PROVE  Inv'
<1>1. /\ TypeOK /\ jobs \in [JobId -> Job] /\ worker \in [Worker -> Station]
      /\ UNCHANGED <<slot, services, loaded, unmarked, passes, losses, bursts>>
      /\ restarts' \in 0 .. MaxRestarts
      BY BoundsAssumption DEF Inv, TypeOK, Restart
<1>2. PICK present \in {marked, marked \cup {w}} :
        /\ marked' = present
        /\ worker' = [worker EXCEPT ![w] = Booted(w, present)]
        /\ jobs' = [j \in JobId |-> [jobs[j] EXCEPT
             !.fresh = IF Running(j) /\ w \notin present THEN @ \cup {w} ELSE @]]
      BY DEF Restart
<1>3. /\ worker' \in [Worker -> Station]
      /\ \A v \in Worker : ~Idle(v)' => ~Idle(v) \/ (v = w /\ w \notin present)
      BY <1>1, <1>2 DEF Booted, Station, Idle
<1>4. jobs' \in [JobId -> Job] /\ Fresher(jobs, jobs')
  <2> DEFINE know(j) == IF Running(j) /\ w \notin present
                        THEN jobs[j].fresh \cup {w} ELSE jobs[j].fresh
  <2>1. jobs' = [j \in JobId |-> [jobs[j] EXCEPT !.fresh = know(j)]]
        BY <1>2
  <2>2. \A j \in JobId : jobs[j] \in Job /\ know(j) \in SUBSET Worker
                         /\ jobs[j].fresh \subseteq know(j)
        BY <1>1 DEF Job
  <2> HIDE DEF know
  <2>3. QED  BY <2>1, <2>2 DEF Fresher, Job
<1>5. ASSUME NEW j \in JobId PROVE Knows(j)' /\ Checked(j)' /\ Slotted(j)'
  <2>1. /\ Knows(j) /\ Checked(j) /\ Slotted(j)
        /\ jobs'[j].pc = jobs[j].pc /\ jobs'[j].action = jobs[j].action
        /\ jobs'[j].busy = jobs[j].busy /\ jobs'[j].silent = jobs[j].silent
        /\ jobs[j].fresh \subseteq jobs'[j].fresh
        /\ jobs[j].pc \in Talking => jobs'[j].left = jobs[j].left
        BY <1>4 DEF Inv, Fresher, Talking
  <2>2. Running(j) /\ w \notin present => w \in jobs'[j].fresh
        BY <1>1, <1>2 DEF Job
  <2>3. jobs[j].pc \in Talking \cup Wiping => Running(j)
        BY DEF Running, Talking, Wiping
  <2>4. Knows(j)'
        BY <1>3, <2>1, <2>2, <2>3 DEF Knows
  <2>5. QED  BY <1>1, <2>1, <2>4 DEF Checked, Slotted, At, Running, services
<1>6. TypeOK'
      BY <1>1, <1>2, <1>3, <1>4 DEF TypeOK, services
<1>7. QED  BY <1>1, <1>5, <1>6 DEF Inv, RunsExclude, FaultIsRestored, Waiting, services

\* The two service runs, which touch no job.
LEMMA RunsKeep ==
  ASSUME Inv, PoisonEnds \/ InjectFault \/ ObserveEnds \/ RestoreFault \/ Score \/ InjectKilled
  PROVE  Inv'
<1> USE DEF PoisonEnds, InjectFault, ObserveEnds, RestoreFault, Score, InjectKilled
<1>1. /\ TypeOK /\ RunsExclude /\ FaultIsRestored /\ Waiting
      /\ UNCHANGED <<jobs, slot, worker, missed, autoload, passes, bursts, restarts>>
      BY DEF Inv, bounds
<1>2. losses' \in 0 .. MaxLosses
  <2>1. losses' = losses \/ Lose \/ Heard
        BY DEF bounds
  <2>2. QED  BY <1>1, <2>1, Losing DEF TypeOK
<1>3. inject' = inject \/ inject # "off"
      BY Zenon
<1>4. poison' => poison
      BY Zenon
<1>5. /\ poison' \in BOOLEAN /\ halted' \in BOOLEAN /\ queued' \in BOOLEAN
      /\ fault' \in BOOLEAN /\ excuse' \in BOOLEAN
      /\ inject' \in {"off", "apply", "observe", "restore", "score"}
      BY <1>1 DEF TypeOK, Restores, InjectOver
<1>6. TypeOK'
      BY <1>1, <1>2, <1>5 DEF TypeOK, autoload
<1>7. \A j \in JobId : Knows(j)' /\ Checked(j)' /\ Slotted(j)'
      BY <1>1, <1>3, <1>4 DEF Inv, Knows, Checked, Slotted, At, Running, Idle
<1>8. RunsExclude'
      BY <1>1, <1>3, <1>4, Zenon DEF RunsExclude
<1>9. Waiting'
      BY <1>1 DEF TypeOK, Waiting, InjectOver, Restores
<1>10. FaultIsRestored'
       BY <1>1 DEF TypeOK, FaultIsRestored, Restores, InjectOver
<1>11. QED  BY <1>6, <1>7, <1>8, <1>9, <1>10 DEF Inv

LEMMA InjectReplayEndKeeps ==
  ASSUME Inv, NEW w \in Worker, InjectReplayEnd(w)
  PROVE  Inv'
<1>1. TypeOK /\ worker \in [Worker -> Station] /\ inject = "apply" /\ inject' = "observe"
      /\ UNCHANGED <<jobs, slot, poison, halted, queued, missed, fault, excuse, autoload, bounds>>
      BY DEF Inv, TypeOK, InjectReplayEnd
<1>2. /\ worker' \in [Worker -> Station]
      /\ \A v \in Worker : worker'[v].stage = worker[v].stage
      BY <1>1, StoppedIs DEF InjectReplayEnd
<1>3. TypeOK'
      BY <1>1, <1>2 DEF TypeOK, autoload, bounds
<1>4. \A j \in JobId : Knows(j)' /\ Checked(j)' /\ Slotted(j)'
      BY <1>1, <1>2 DEF Inv, Knows, Checked, Slotted, At, Running, Idle
<1>5. QED  BY <1>1, <1>3, <1>4 DEF Inv, RunsExclude, FaultIsRestored, Waiting

-----------------------------------------------------------------------------
LEMMA InvInit == Init => Inv
<1> SUFFICES ASSUME Init PROVE Inv
    OBVIOUS
<1>1. TypeOK
  <2>1. jobs \in [JobId -> Job]
        BY UnusedType DEF Init
  <2>2. worker \in [Worker -> Station]
        BY DEF Init, Booted, Station
  <2>3. /\ slot \in JobId \cup {None} /\ passes \in 0 .. MaxPasses
        /\ losses \in 0 .. MaxLosses /\ bursts \in 0 .. MaxBursts /\ restarts \in 0 .. MaxRestarts
        BY BoundsAssumption DEF Init
  <2>4. QED  BY <2>1, <2>2, <2>3 DEF Init, TypeOK
<1>2. \A j \in JobId : jobs[j].pc = "unused"
      BY DEF Init, Unused
<1>3. QED  BY <1>1, <1>2 DEF Init, Inv, RunsExclude, FaultIsRestored, Waiting, Knows, Checked, Slotted,
                             At, Running, Talking, Wiping

LEMMA InvStep == Inv /\ [Next]_vars => Inv'
<1> SUFFICES ASSUME Inv, [Next]_vars PROVE Inv'
    OBVIOUS
<1>1. ASSUME NEW j \in JobId, JobStep(j) PROVE Inv'
      BY <1>1, PollKeeps, AskStopKeeps, TriggerKeeps, MovesKeep, CheckKeeps, StartRunKeeps, HaltKeeps
      DEF JobStep
<1>2. ASSUME NEW j \in JobId, NEW action \in Buttons, Press(j, action) PROVE Inv'
      BY <1>2, PressKeeps
<1>3. ASSUME NEW w \in Worker,
             WorkerStep(w) \/ Restart(w) \/ PoisonTriggers(w) \/ InjectReplayEnd(w)
      PROVE  Inv'
      BY <1>3, WorkerKeeps, RestartKeeps, PoisonTriggersKeeps, InjectReplayEndKeeps
<1>4. CASE PoisonEnds \/ InjectFault \/ ObserveEnds \/ RestoreFault \/ Score \/ InjectKilled
      BY <1>4, RunsKeep
<1>5. CASE UNCHANGED vars
  <2>1. TypeOK'
        BY <1>5 DEF Inv, TypeOK, vars, services, autoload, bounds
  <2>2. \A j \in JobId : Knows(j)' /\ Checked(j)' /\ Slotted(j)'
        BY <1>5 DEF Inv, Knows, Checked, Slotted, At, Running, Idle, vars, services
  <2>3. QED  BY <1>5, <2>1, <2>2 DEF Inv, RunsExclude, FaultIsRestored, Waiting, vars, services
<1>6. QED  BY <1>1, <1>2, <1>3, <1>4, <1>5 DEF Next

LEMMA InvAlways == Spec => []Inv
BY InvInit, InvStep, PTL DEF Spec

(***************************************************************************)
(* The theorems.                                                           *)
(***************************************************************************)
\* Every variable keeps its type: a job is at a stage its handler has, a worker at a
\* stage of its pass (ops_server.py, JobSlot; replay.py, do_POST).
THEOREM TypeCorrect == Spec => []TypeOK
<1>1. Inv => TypeOK
      BY DEF Inv
<1>2. QED  BY <1>1, InvAlways, PTL

\* The indices are never wiped under a pass the job could have known of, for any
\* number of workers and any loss of requests (ops_server.py, _quiet_the_workers
\* and wait_until_idle).
THEOREM NothingIsWipedUnderAKnownPass == Spec => []WipeIsQuiet
<1>1. Inv => WipeIsQuiet
      BY DEF Inv, Knows, WipeIsQuiet, Wiping
<1>2. QED  BY <1>1, InvAlways, PTL

\* The poison run and the injection run go on together only when one was admitted
\* beside a run that `systemctl is-active' did not show, because its unit was
\* deactivating or the command failed (ops_server.py, _service_active, start_poison,
\* start_inject and start_job).
THEOREM OneRunAtATime == Spec => []RunsExclude
<1>1. Inv => RunsExclude
      BY DEF Inv
<1>2. QED  BY <1>1, InvAlways, PTL

\* When the injection run is over, the service it stopped is back, unless a command
\* of it failed or it was killed (inject_run.py, main).
THEOREM TheFaultIsRestored == Spec => []FaultIsRestored
<1>1. Inv => FaultIsRestored
      BY DEF Inv
<1>2. QED  BY <1>1, InvAlways, PTL

-----------------------------------------------------------------------------
(***************************************************************************)
(* The load a worker makes by itself.                                      *)
(***************************************************************************)
\* A load that began left its marker or could not write it, and a worker about to
\* load has none.
Marks ==
  /\ loaded \subseteq marked \cup unmarked
  /\ \A w \in Worker : worker[w].stage = "loading" => w \notin marked

\* No step but the start of the service makes a worker load.
LEMMA NoOtherLoad ==
  ASSUME TypeOK, Marks, UNCHANGED autoload,
         \A w \in Worker : worker'[w].stage = "loading" => worker[w].stage = "loading"
  PROVE  Marks'
BY DEF Marks, autoload

LEMMA MarksStep == TypeOK /\ Marks /\ [Next]_vars => Marks'
<1> SUFFICES ASSUME TypeOK, Marks, [Next]_vars PROVE Marks'
    OBVIOUS
<1>1. worker \in [Worker -> Station]
      BY DEF TypeOK
<1>2. ASSUME NEW w \in Worker, RequestPass(w), UNCHANGED autoload PROVE Marks'
      BY <1>1, <1>2, NoOtherLoad DEF RequestPass, Triggered
<1>3. ASSUME NEW w \in Worker, worker' \in {worker, Stopped(w)}, UNCHANGED autoload
      PROVE  Marks'
      BY <1>1, <1>3, StoppedIs, NoOtherLoad
<1>4. ASSUME UNCHANGED <<worker, autoload>> PROVE Marks'
      BY <1>4, NoOtherLoad
<1>5. ASSUME NEW j \in JobId, JobStep(j) PROVE Marks'
  <2>1. ASSUME NEW w \in Worker, AskStop(j, w) PROVE Marks'
        BY <1>3, <2>1 DEF AskStop
  <2>2. ASSUME NEW w \in Worker, Trigger(j, w) PROVE Marks'
        BY <1>2, <1>4, <2>2 DEF Trigger
  <2>3. CASE \/ \E w \in Worker : Poll(j, w)
             \/ Polled(j) \/ AllAsked(j) \/ Waited(j) \/ AllTriggered(j)
             \/ Delete(j) \/ Reset(j) \/ Rebuild(j) \/ Check(j) \/ StartRun(j) \/ Halt(j)
        BY <1>4, <2>3 DEF Poll, Polled, AllAsked, Waited, AllTriggered, Delete, Reset,
                          Rebuild, Check, StartRun, Halt
  <2>4. QED  BY <1>5, <2>1, <2>2, <2>3 DEF JobStep
<1>6. ASSUME NEW w \in Worker, Load(w) PROVE Marks'
  <2>1. worker' = [worker EXCEPT ![w] = [worker[w] EXCEPT !.stage = "running"]]
        BY <1>1, <1>6 DEF Load
  <2>2. worker'[w].stage = "running" /\ \A v \in Worker \ {w} : worker'[v] = worker[v]
        BY <1>1, <2>1 DEF Station
  <2>3. /\ loaded' = loaded \cup {w}
        /\ \/ marked' = marked \cup {w} /\ unmarked' = unmarked
           \/ marked' = marked /\ unmarked' = unmarked \cup {w}
        BY <1>6 DEF Load, Marked
  <2>4. QED  BY <2>2, <2>3 DEF Marks
<1>7. ASSUME NEW w \in Worker, Restart(w) PROVE Marks'
  <2>1. PICK present \in {marked, marked \cup {w}} :
          marked' = present /\ worker' = [worker EXCEPT ![w] = Booted(w, present)]
        BY <1>7 DEF Restart
  <2>2. /\ worker'[w].stage = "loading" => w \notin present
        /\ \A v \in Worker \ {w} : worker'[v] = worker[v]
        BY <1>1, <2>1 DEF Booted
  <2>3. loaded' = loaded /\ unmarked' = unmarked
        BY <1>7 DEF Restart
  <2>4. QED  BY <2>1, <2>2, <2>3 DEF Marks
<1>8. ASSUME NEW w \in Worker, Register(w) \/ FinishPass(w) \/ PassFails(w) \/ Resume(w) PROVE Marks'
  <2>1. /\ UNCHANGED autoload
        /\ \/ worker' = [worker EXCEPT ![w] = Free(w)]
           \/ worker' = [worker EXCEPT ![w] = [worker[w] EXCEPT !.stage = "running"]]
           \/ worker' = [worker EXCEPT ![w] = [worker[w] EXCEPT !.stage = "pausing"]]
        BY <1>1, <1>8 DEF Register, FinishPass, PassFails, Resume
  <2>2. Free(w).stage = "idle"
        /\ \A stage \in {"running", "pausing"} :
             [worker[w] EXCEPT !.stage = stage].stage = stage
        BY <1>1 DEF Free, Station
  <2>3. QED  BY <1>1, <2>1, <2>2, NoOtherLoad
<1>9. ASSUME NEW w \in Worker, PoisonTriggers(w) \/ InjectReplayEnd(w) PROVE Marks'
      BY <1>2, <1>3, <1>9 DEF PoisonTriggers, InjectReplayEnd
<1>10. CASE \/ \E j \in JobId, action \in Buttons : Press(j, action)
            \/ PoisonEnds \/ InjectFault \/ ObserveEnds \/ RestoreFault \/ Score \/ InjectKilled
       BY <1>4, <1>10 DEF Press, PoisonEnds, InjectFault, ObserveEnds, RestoreFault, Score,
                         InjectKilled
<1>11. CASE UNCHANGED vars
       BY <1>4, <1>11 DEF vars
<1>12. QED  BY <1>5, <1>6, <1>7, <1>8, <1>9, <1>10, <1>11 DEF Next, WorkerStep

\* A worker reads the archives by itself once for its volume, however often its
\* service ends, unless its marker could not be written (replay.py, _maybe_autostart).
THEOREM ARestartNeverReingests == Spec => []ArchivesLoadOnce
<1>1. Init => Marks
      BY DEF Init, Marks, Booted
<1>2. Marks => ArchivesLoadOnce
      BY DEF Marks, ArchivesLoadOnce
<1>3. QED  BY <1>1, <1>2, TypeCorrect, MarksStep, PTL DEF Spec
=============================================================================
