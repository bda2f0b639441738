--------------------------- MODULE ReplayControl ---------------------------
(***************************************************************************)
(* The /ops page of the control host and what it commands: the replay      *)
(* trigger of every worker, the poison calibration run and the injection   *)
(* run.                                                                    *)
(*                                                                         *)
(* A POST starts at most one background job.  A job talks to the workers   *)
(* one HTTP request at a time, and a request may go unanswered: what the   *)
(* job read of a worker may be old by the time it acts.  On a worker one   *)
(* lock admits one pass, a pass registers its stop event only after the    *)
(* lock is taken, and with REPLAY_LOOP it begins again until it is         *)
(* stopped.  The two service runs are systemd units of their own; the      *)
(* poison run starts passes by itself.                                     *)
(*                                                                         *)
(* Abstractions.  A start takes effect at once unless the unit is just     *)
(* stopping, and a poison run that is stopped is gone when `systemctl      *)
(* stop' returns (its TimeoutStopSec is below that command's timeout).     *)
(* The injected fault is one service that stops, the collector if it is    *)
(* kill-fluent-bit, or the end of one worker's replay, and the request     *)
(* asks for its restore.  The indices have no state: a wipe is where the   *)
(* job stands.                                                             *)
(***************************************************************************)
EXTENDS Integers, FiniteSets

CONSTANTS
  Worker,
  Actions,      \* bound: the buttons that may start the n-th action asked for
  Loop,         \* REPLAY_LOOP
  New,          \* workers that are to load the archives once, by themselves
  MaxJobs,      \* bound: actions asked for
  MaxPasses,    \* bound: passes ever started; a trigger beyond it goes unanswered
  MaxWaits,     \* polls that fit in the 45 seconds of wait_until_idle
  MaxLosses,    \* bound: requests unanswered, commands failed
  MaxBursts,    \* bound: passes the poison run starts
  MaxRestarts,  \* bound: starts of the replay service of any worker
  None

Buttons == {"replay", "replay-fresh", "stop", "wipe", "clear",
            "poison-replay", "poison-stop", "inject", "inject-stop"}

JobId == 1 .. MaxJobs
Job   == [action : Buttons \cup {None},
          pc : {"unused", "poll", "stop", "wait", "delete", "reset", "rebuild",
                "trigger", "check", "start", "halt", "done"},
          left : SUBSET Worker,    \* workers this step has still to talk to
          busy : SUBSET Worker,    \* workers that said they run a pass
          waits : 0 .. MaxWaits,
          silent : SUBSET Worker,  \* workers that did not answer the last poll
          fresh : SUBSET Worker]   \* workers that took a pass since they were polled
Station == [stage : {"idle", "loading", "starting"}, stop : {FALSE}] \cup
           [stage : {"running", "pausing"}, stop : BOOLEAN]  \* the stop event is set

ASSUME ActionsAssumption ==
  Actions \in [JobId -> SUBSET Buttons] /\ Loop \in BOOLEAN /\ New \subseteq Worker
ASSUME BoundsAssumption ==
  /\ MaxJobs \in Nat \ {0} /\ MaxPasses \in Nat /\ MaxWaits \in Nat
  /\ MaxLosses \in Nat /\ MaxBursts \in Nat /\ MaxRestarts \in Nat
  /\ None \notin Nat

VARIABLES
  jobs,      \* the jobs ever started; a thread each
  slot,      \* _JOB: the last job admitted, None at first
  worker,    \* the replay service of every worker
  poison,    \* the poison run is active
  inject,    \* where the injection run is, "off" when the unit is not active
  halted,    \* the injection run was sent SIGTERM: its unit is deactivating
  queued,    \* a start of that unit waits until it has stopped
  missed,    \* the last run admitted was admitted beside one nobody saw
  fault,     \* the injected service is down
  excuse,    \* a failed command or a killed run may have left it down
  marked,    \* workers with the marker file of the first load on disk
  loaded,    \* workers that began a load by themselves
  unmarked,  \* workers whose marker could not be written
  passes, losses, bursts, restarts

services == <<poison, inject, halted, queued, missed, fault, excuse>>
autoload == <<marked, loaded, unmarked>>
bounds   == <<passes, losses, bursts, restarts>>
vars     == <<jobs, slot, worker, services, autoload, bounds>>

Unused == [action |-> None, pc |-> "unused", left |-> {}, busy |-> {},
           waits |-> 0, silent |-> {}, fresh |-> {}]

Idle(w) == worker[w].stage = "idle"
At(j, pc) == jobs[j].pc = pc
Running(j) == jobs[j].pc \notin {"unused", "done"}

\* What a request, a command or a write to a disk comes to.
Lose  == losses < MaxLosses /\ losses' = losses + 1
Heard == UNCHANGED losses

-----------------------------------------------------------------------------
(***************************************************************************)
(* The trigger of a worker.                                                *)
(***************************************************************************)
\* do_POST /replay: the lock is taken, or 409.
Triggered(w) ==
  IF Idle(w) /\ passes < MaxPasses
  THEN [worker EXCEPT ![w] = [stage |-> "starting", stop |-> FALSE]]
  ELSE worker

RequestPass(w) ==
  /\ worker' = Triggered(w)
  /\ passes' = IF Triggered(w) # worker THEN passes + 1 ELSE passes

\* The jobs that polled the worker do not know of the pass it takes now.
Freshened(w) ==
  [j \in JobId |-> [jobs[j] EXCEPT
     !.fresh = IF Running(j) /\ Triggered(w) # worker THEN @ \cup {w} ELSE @]]

\* do_POST /replay-stop sets _CURRENT_STOP: the event of the last pass that
\* registered one, so a pass that is only starting does not hear it.
Stopped(w) ==
  IF worker[w].stage \in {"running", "pausing"}
  THEN [worker EXCEPT ![w].stop = TRUE]
  ELSE worker

\* _maybe_autostart: a service that starts without its marker takes the lock for a
\* load of its own.  Here present is the workers whose marker is on disk.
Booted(w, present) ==
  [stage |-> IF w \in present THEN "idle" ELSE "loading", stop |-> FALSE]

\* The service ends, with its pass and its stop event, and starts again.  Its own
\* load may have come to write the marker and no further.
Restart(w) ==
  /\ restarts < MaxRestarts /\ restarts' = restarts + 1
  /\ \E present \in {marked, marked \cup {w}} :
       /\ present # marked => worker[w].stage = "loading"
       /\ marked' = present
       /\ worker' = [worker EXCEPT ![w] = Booted(w, present)]
       /\ jobs' = [j \in JobId |-> [jobs[j] EXCEPT
            !.fresh = IF Running(j) /\ w \notin present THEN @ \cup {w} ELSE @]]
  /\ UNCHANGED <<slot, services, loaded, unmarked, passes, losses, bursts>>

\* The load writes its marker before it reads anything; a write that fails is logged.
\* (mutant: it is left to the end of the load)
MarkedLater(w) == marked
Marked(w)      == marked \cup {w}

Load(w) ==
  /\ worker[w].stage = "loading"
  /\ worker' = [worker EXCEPT ![w].stage = "running"]
  /\ loaded' = loaded \cup {w}
  /\ \/ Heard /\ marked' = Marked(w) /\ UNCHANGED unmarked
     \/ Lose /\ unmarked' = unmarked \cup {w} /\ UNCHANGED marked
  /\ UNCHANGED <<jobs, slot, services, passes, bursts, restarts>>

Register(w) ==
  /\ worker[w].stage = "starting"
  /\ worker' = [worker EXCEPT ![w].stage = "running"]
  /\ UNCHANGED <<jobs, slot, services, autoload, bounds>>

\* The lock is given back and the event forgotten.  (mutant: the event is kept)
FreeButStopped(w) == [worker[w] EXCEPT !.stage = "idle"]
Free(w)           == [stage |-> "idle", stop |-> FALSE]

\* Both the end of a round and the pause look at the stop event.  (mutant: the
\* loop looks at an event of its own)
HeardNothing(w) == FALSE
HeardStop(w)    == worker[w].stop

\* The families are through, or they saw the stop event.
FinishPass(w) ==
  /\ worker[w].stage = "running"
  /\ worker' = [worker EXCEPT ![w] =
       IF Loop /\ ~HeardStop(w) THEN [@ EXCEPT !.stage = "pausing"]
       ELSE Free(w)]
  /\ UNCHANGED <<jobs, slot, services, autoload, bounds>>

\* run_replay raises, for one when the archives cannot be listed.
PassFails(w) ==
  /\ worker[w].stage = "running"
  /\ worker' = [worker EXCEPT ![w] = Free(w)]
  /\ UNCHANGED <<jobs, slot, services, autoload, bounds>>

Resume(w) ==
  /\ worker[w].stage = "pausing"
  /\ worker' = [worker EXCEPT ![w] =
       IF HeardStop(w) THEN Free(w)
       ELSE [@ EXCEPT !.stage = "running"]]
  /\ UNCHANGED <<jobs, slot, services, autoload, bounds>>

-----------------------------------------------------------------------------
(***************************************************************************)
(* The job slot.                                                           *)
(***************************************************************************)
First(action) ==
  CASE action = "replay"                            -> "trigger"
    [] action \in {"replay-fresh", "stop", "wipe"}  -> "poll"
    [] action = "clear"                             -> "reset"
    [] action \in {"poison-replay", "inject"}       -> "check"
    [] action \in {"poison-stop", "inject-stop"}    -> "halt"

\* start_job refuses while the last job admitted still runs.
\* (mutant: it does not look)
SlotAlwaysFree == TRUE
SlotFree == slot # None => At(slot, "done")

Press(j, action) ==
  /\ SlotFree /\ action \in Actions[j]
  /\ At(j, "unused") /\ \A i \in 1 .. j - 1 : ~At(i, "unused")
  /\ jobs' = [jobs EXCEPT ![j] =
       [action |-> action, pc |-> First(action), left |-> Worker, busy |-> {},
        waits |-> MaxWaits, silent |-> {}, fresh |-> {}]]
  /\ slot' = j
  /\ UNCHANGED <<worker, services, autoload, bounds>>

\* What a job knew is forgotten when it ends.
Ended(j)    == [jobs EXCEPT ![j] = [Unused EXCEPT !.pc = "done"]]
Goto(j, pc) == IF pc = "done" THEN Ended(j) ELSE [jobs EXCEPT ![j].pc = pc]

(***************************************************************************)
(* A job and the workers.                                                  *)
(***************************************************************************)
\* replay_in_flight: a worker that does not answer is taken to be idle.
Poll(j, w) ==
  /\ jobs[j].pc \in {"poll", "wait"} /\ w \in jobs[j].left
  /\ \/ /\ Heard
        /\ jobs' = [jobs EXCEPT ![j].left = @ \ {w}, ![j].fresh = @ \ {w},
                                ![j].silent = @ \ {w},
                                ![j].busy = IF Idle(w) THEN @ ELSE @ \cup {w}]
     \/ /\ Lose
        /\ jobs' = [jobs EXCEPT ![j].left = @ \ {w}, ![j].silent = @ \cup {w}]
  /\ UNCHANGED <<slot, worker, services, autoload, passes, bursts, restarts>>

\* stop_only, _quiet_the_workers: nobody is busy, or the busy ones are stopped.
Polled(j) ==
  /\ At(j, "poll") /\ jobs[j].left = {}
  /\ jobs' = IF jobs[j].busy # {}
             THEN [Goto(j, "stop") EXCEPT ![j].left = jobs[j].busy]
             ELSE Goto(j, IF jobs[j].action = "stop" THEN "done" ELSE "delete")
  /\ UNCHANGED <<slot, worker, services, autoload, bounds>>

AskStop(j, w) ==
  /\ At(j, "stop") /\ w \in jobs[j].left
  /\ jobs' = [jobs EXCEPT ![j].left = @ \ {w}]
  /\ \/ Heard /\ worker' = Stopped(w)
     \/ Lose /\ worker' \in {worker, Stopped(w)}
  /\ UNCHANGED <<slot, services, autoload, passes, bursts, restarts>>

\* (mutant: a busy worker was asked to stop, so it is quiet)
AskedIsQuiet(j) == "delete"
AfterStop(j)    == IF jobs[j].action = "stop" THEN "done" ELSE "wait"

AllAsked(j) ==
  /\ At(j, "stop") /\ jobs[j].left = {}
  /\ jobs' = IF AfterStop(j) = "done" THEN Ended(j)
             ELSE [Goto(j, AfterStop(j)) EXCEPT ![j].left = Worker, ![j].busy = {}]
  /\ UNCHANGED <<slot, worker, services, autoload, bounds>>

\* wait_until_idle, and the refusal when the 45 seconds are over.
\* (mutant: it waits for as long as it takes)
WaitsForEver(j) == FALSE
OutOfTime(j)    == jobs[j].waits = 0

LessTime(n) == IF n = 0 THEN 0 ELSE n - 1

Waited(j) ==
  /\ At(j, "wait") /\ jobs[j].left = {}
  /\ jobs' = IF jobs[j].busy = {} THEN Goto(j, "delete")
             ELSE IF OutOfTime(j) THEN Ended(j)
             ELSE [jobs EXCEPT ![j].left = Worker, ![j].busy = {}, ![j].waits = LessTime(@)]
  /\ UNCHANGED <<slot, worker, services, autoload, bounds>>

\* wipe: the log indices, the derived data, the aliases.  Each may fail, and the
\* next is done all the same.
Delete(j) ==
  /\ At(j, "delete")
  /\ jobs' = Goto(j, "reset")
  /\ UNCHANGED <<slot, worker, services, autoload, bounds>>

Reset(j) ==
  /\ At(j, "reset")
  /\ jobs' = Goto(j, IF jobs[j].action = "clear" THEN "done" ELSE "rebuild")
  /\ UNCHANGED <<slot, worker, services, autoload, bounds>>

Rebuild(j) ==
  /\ At(j, "rebuild")
  /\ jobs' = IF jobs[j].action = "wipe" THEN Ended(j)
             ELSE [Goto(j, "trigger") EXCEPT ![j].left = Worker]
  /\ UNCHANGED <<slot, worker, services, autoload, bounds>>

Trigger(j, w) ==
  /\ At(j, "trigger") /\ w \in jobs[j].left
  /\ \/ /\ Heard \/ Lose
        /\ RequestPass(w) /\ jobs' = [Freshened(w) EXCEPT ![j].left = @ \ {w}]
     \/ /\ Lose
        /\ jobs' = [jobs EXCEPT ![j].left = @ \ {w}] /\ UNCHANGED <<worker, passes>>
  /\ UNCHANGED <<slot, services, autoload, bursts, restarts>>

AllTriggered(j) ==
  /\ At(j, "trigger") /\ jobs[j].left = {}
  /\ jobs' = Goto(j, "done")
  /\ UNCHANGED <<slot, worker, services, autoload, bounds>>

-----------------------------------------------------------------------------
(***************************************************************************)
(* The poison run and the injection run.                                   *)
(***************************************************************************)
\* `systemctl is-active': a unit that is deactivating is not active.
PoisonActive == poison
InjectActive == inject # "off" /\ ~halted

\* start_poison, start_inject: refused while either unit is active; a command that
\* fails or takes too long says it is not ...
Check(j) ==
  /\ At(j, "check")
  /\ \/ /\ Heard /\ (PoisonActive \/ InjectActive)
        /\ jobs' = Goto(j, "done") /\ UNCHANGED missed
     \/ /\ IF PoisonActive \/ InjectActive THEN Lose ELSE Heard
        /\ jobs' = Goto(j, "start") /\ missed' = (poison \/ inject # "off")
  /\ UNCHANGED <<slot, worker, poison, inject, halted, queued, fault, excuse, autoload,
                 passes, bursts, restarts>>

\* ... and then the unit is started.  A unit that is deactivating starts again when
\* it has stopped.
Started(j) ==
  IF jobs[j].action = "inject"
  THEN /\ inject' = IF inject = "off" THEN "apply" ELSE inject
       /\ queued' = halted
       /\ UNCHANGED poison
  ELSE poison' = TRUE /\ UNCHANGED <<inject, queued>>

\* A command that fails may have started it.
StartRun(j) ==
  /\ At(j, "start")
  /\ jobs' = Goto(j, "done")
  /\ \/ (Heard \/ Lose) /\ Started(j)
     \/ Lose /\ UNCHANGED <<poison, inject, queued>>
  /\ UNCHANGED <<slot, worker, halted, missed, fault, excuse, autoload,
                 passes, bursts, restarts>>

\* stop_poison, stop_inject, unless a command of it fails.  The injection run goes
\* on to restore and score, and `systemctl stop' may give up before it is through.
Halt(j) ==
  /\ At(j, "halt")
  /\ jobs' = Goto(j, "done")
  /\ \/ /\ Heard
        /\ IF jobs[j].action = "poison-stop"
           THEN poison' = FALSE /\ UNCHANGED halted
           ELSE halted' = (inject # "off") /\ UNCHANGED poison
     \/ Lose /\ UNCHANGED <<poison, halted>>
  /\ UNCHANGED <<slot, worker, inject, queued, missed, fault, excuse, autoload,
                 passes, bursts, restarts>>

\* ensure_replay: a pass on every worker that seems to run none; and run ends.
PoisonTriggers(w) ==
  /\ poison /\ bursts < MaxBursts /\ bursts' = bursts + 1
  /\ RequestPass(w)
  /\ jobs' = Freshened(w)
  /\ UNCHANGED <<slot, services, autoload, losses, restarts>>

PoisonEnds ==
  /\ poison /\ poison' = FALSE
  /\ UNCHANGED <<jobs, slot, worker, inject, halted, queued, missed, fault, excuse,
                 autoload, bounds>>

\* The injection run is over: a start that waited for it takes its turn.
InjectOver ==
  /\ inject' = IF queued THEN "apply" ELSE "off"
  /\ halted' = FALSE /\ queued' = FALSE

\* apply_injection of a service fault: done, refused, or done without an answer,
\* which the run takes for a failure and does not restore.
InjectFault ==
  /\ inject = "apply"
  /\ \/ Heard /\ fault' = TRUE /\ inject' = "observe" /\ UNCHANGED <<halted, queued, excuse>>
     \/ Lose /\ fault' \in {fault, TRUE} /\ excuse' = (excuse \/ fault') /\ InjectOver
  /\ UNCHANGED <<jobs, slot, worker, poison, missed, autoload, passes, bursts, restarts>>

\* apply_injection of replay-end.
InjectReplayEnd(w) ==
  /\ inject = "apply"
  /\ worker' = Stopped(w) /\ inject' = "observe"
  /\ UNCHANGED <<jobs, slot, poison, halted, queued, missed, fault, excuse, autoload, bounds>>

\* observe ends with its minutes, or early once halted; main restores whenever
\* the fault was applied.  (mutant: not when it was told to stop)
RestoresUnlessHalted == ~halted
Restores             == TRUE

ObserveEnds ==
  /\ inject = "observe"
  /\ inject' = IF Restores THEN "restore" ELSE "score"
  /\ UNCHANGED <<jobs, slot, worker, poison, halted, queued, missed, fault, excuse,
                 autoload, bounds>>

RestoreFault ==
  /\ inject = "restore" /\ inject' = "score"
  /\ \/ Heard /\ fault' = FALSE /\ UNCHANGED excuse
     \/ Lose /\ excuse' = (excuse \/ fault) /\ UNCHANGED fault
  /\ UNCHANGED <<jobs, slot, worker, poison, halted, queued, missed, autoload,
                 passes, bursts, restarts>>

Score ==
  /\ inject = "score" /\ InjectOver
  /\ UNCHANGED <<jobs, slot, worker, poison, missed, fault, excuse, autoload, bounds>>

\* Out of memory, or not through when TimeoutStopSec is over: nothing is restored, and
\* the page calls the run interrupted.
InjectKilled ==
  /\ inject # "off" /\ Lose
  /\ excuse' = (excuse \/ fault) /\ InjectOver
  /\ UNCHANGED <<jobs, slot, worker, poison, missed, fault, autoload, passes, bursts, restarts>>

-----------------------------------------------------------------------------
Init ==
  /\ jobs = [j \in JobId |-> Unused]
  /\ slot = None
  /\ marked = Worker \ New /\ loaded = {} /\ unmarked = {}
  /\ worker = [w \in Worker |-> Booted(w, marked)]
  /\ poison = FALSE /\ inject = "off" /\ halted = FALSE /\ queued = FALSE
  /\ missed = FALSE /\ fault = FALSE /\ excuse = FALSE
  /\ passes = 0 /\ losses = 0 /\ bursts = 0 /\ restarts = 0

JobStep(j) ==
  \/ \E w \in Worker : Poll(j, w) \/ AskStop(j, w) \/ Trigger(j, w)
  \/ Polled(j) \/ AllAsked(j) \/ Waited(j) \/ AllTriggered(j)
  \/ Delete(j) \/ Reset(j) \/ Rebuild(j)
  \/ Check(j) \/ StartRun(j) \/ Halt(j)

WorkerStep(w) == Load(w) \/ Register(w) \/ FinishPass(w) \/ PassFails(w) \/ Resume(w)

Next ==
  \/ \E j \in JobId : JobStep(j) \/ \E action \in Buttons : Press(j, action)
  \/ \E w \in Worker : WorkerStep(w) \/ Restart(w) \/ PoisonTriggers(w) \/ InjectReplayEnd(w)
  \/ PoisonEnds \/ InjectFault \/ ObserveEnds \/ RestoreFault \/ Score
  \/ InjectKilled

Spec == Init /\ [][Next]_vars

\* Every request of a job has a timeout, and the threads of a worker go on.  While the
\* collector is down a pass tries to connect and looks at nothing else: only one that
\* is up for good lets a pass end (the injected service may be the collector, which
\* systemd otherwise brings back).
FairSpec ==
  /\ Spec
  /\ \A j \in JobId : WF_vars(JobStep(j))
  /\ \A w \in Worker :
       /\ WF_vars(Load(w)) /\ WF_vars(Register(w)) /\ WF_vars(Resume(w))
       /\ WF_vars(~fault /\ FinishPass(w))

-----------------------------------------------------------------------------
TypeOK ==
  /\ jobs \in [JobId -> Job] /\ slot \in JobId \cup {None}
  /\ worker \in [Worker -> Station]
  /\ poison \in BOOLEAN /\ halted \in BOOLEAN /\ queued \in BOOLEAN
  /\ missed \in BOOLEAN /\ fault \in BOOLEAN /\ excuse \in BOOLEAN
  /\ inject \in {"off", "apply", "observe", "restore", "score"}
  /\ marked \subseteq Worker /\ loaded \subseteq Worker /\ unmarked \subseteq Worker
  /\ passes \in 0 .. MaxPasses /\ restarts \in 0 .. MaxRestarts
  /\ losses \in 0 .. MaxLosses /\ bursts \in 0 .. MaxBursts

\* The indices are never wiped under a pass the job could have known of: while a
\* job deletes or rebuilds them, a worker that runs a pass took it after it was
\* polled, or did not answer.
WipeIsQuiet ==
  \A j \in JobId : jobs[j].pc \in {"delete", "reset", "rebuild"} /\ jobs[j].action # "clear" =>
    \A w \in Worker : ~Idle(w) => w \in jobs[j].fresh \cup jobs[j].silent

\* The poison run and the injection run go on together only when one was admitted
\* beside a run `systemctl is-active' did not show, because its unit was deactivating
\* or the command failed: no two requests are checked before either is started.
RunsExclude == poison /\ inject # "off" => missed

\* When the injection run is over, the service it stopped is back, unless a
\* command failed on the way or the run was killed: a stop asked for at any time still
\* restores.
FaultIsRestored == fault /\ inject \in {"off", "score"} => excuse

\* "A restart never re-ingests": a worker that began to load the archives by itself does
\* not do so again, whenever its service ends, unless its marker could not be written.
ArchivesLoadOnce ==
  \A w \in Worker : worker[w].stage = "loading" /\ w \in loaded => w \in unmarked

\* The slot is never blocked for good: every job ends, also one whose stop a
\* looping worker did not hear.
EveryJobEnds == []<>(\A j \in JobId : ~Running(j))

\* A pass that heard the stop gives its lock back, in a loop or between two, unless
\* the injected service stays down or goes down again and again.
StoppedPassEnds == \A w \in Worker : []<>(fault \/ ~worker[w].stop)
=============================================================================
