--------------------------- MODULE ServerProcess ---------------------------
(***************************************************************************)
(* The life of the server process: main (cmd/wuxiangai), the requests the  *)
(* HTTP server handles, the two loops of internal/scheduler with their     *)
(* retries and dead letters, the loop of internal/worker, and the          *)
(* goroutine that shuts all of it down on a signal.  What a request or a   *)
(* task does to the tables is in CaseService; here it runs, ends or is cut *)
(* off.  Durations are left out: a timeout may strike at any moment.       *)
(***************************************************************************)
EXTENDS Naturals, FiniteSets

CONSTANTS
  Requests,      (* HTTP requests                                          *)
  MaxRetries,    (* scheduler.max_retries                                  *)
  MaxRounds,     (* bound: ticks each loop takes                           *)
  StoreFaults    (* whether the store may refuse a dead letter             *)

ASSUME ConstantsOK == /\ MaxRetries \in Nat \ {0}
                      /\ MaxRounds \in Nat \ {0}
                      /\ StoreFaults \in BOOLEAN

SchedulerTasks == {"escalation", "reconciliation"}
Loops == SchedulerTasks \cup {"reeval"}

(* How far the goroutine that waits for a signal has come.                 *)
ShutdownSteps == {"waiting", "draining", "stopping_scheduler",
                  "stopping_worker", "closing", "done"}

VARIABLES
  main,        (* "serving", or "exited" and the process with it           *)
  shutdown,    (* the step of the signal goroutine                         *)
  request,     (* request -> "none", "handling" or "answered"              *)
  loop,        (* loop -> where its goroutine is and its round             *)
  store,       (* "open" or "closed"                                       *)
  letters,     (* scheduler task -> dead letters recorded                  *)
  exhausted    (* history: scheduler task -> rounds that used up retries   *)

vars == <<main, shutdown, request, loop, store, letters, exhausted>>

Phases == {"waiting", "running", "backoff", "recording", "returned"}

(* A goroutine in no round.                                                *)
AtRest == [phase |-> "waiting", attempts |-> 0, expired |-> FALSE,
           late |-> FALSE, rounds |-> 0]

Init ==
  /\ main = "serving"
  /\ shutdown = "waiting"
  /\ request = [r \in Requests |-> "none"]
  /\ loop = [l \in Loops |-> AtRest]
  /\ store = "open"
  /\ letters = [t \in SchedulerTasks |-> 0]
  /\ exhausted = [t \in SchedulerTasks |-> 0]

Alive == main = "serving"

(* Stop has cancelled the context the loop was started with.               *)
Cancelled(l) ==
  shutdown \in IF l = "reeval" THEN {"stopping_worker", "closing", "done"}
               ELSE {"stopping_scheduler", "stopping_worker", "closing", "done"}

(* The context of the round is done: its timeout or its loop's Stop.       *)
CtxDone(l) == loop[l].expired \/ Cancelled(l)

Goto(l, phase) == loop' = [loop EXCEPT ![l].phase = phase]

(* A round is over; its context with it.                                   *)
EndRound(l) ==
  loop' = [loop EXCEPT ![l] = [AtRest EXCEPT !.rounds = loop[l].rounds]]

-----------------------------------------------------------------------------
(* The loops.                                                              *)

(* select: with a tick pending, also after Stop has cancelled the loop.    *)
Tick(l) ==
  /\ Alive
  /\ loop[l].phase = "waiting"
  /\ loop[l].rounds < MaxRounds
  /\ loop' = [loop EXCEPT ![l].phase = "running",
                          ![l].rounds = @ + 1,
                          ![l].late = Cancelled(l)]
  /\ UNCHANGED <<main, shutdown, request, store, letters, exhausted>>

LoopReturns(l) ==
  /\ Alive
  /\ loop[l].phase = "waiting"
  /\ Cancelled(l)
  /\ Goto(l, "returned")
  /\ UNCHANGED <<main, shutdown, request, store, letters, exhausted>>

(* task_timeout, for all attempts of a round together.                     *)
Timeout(l) ==
  /\ Alive
  /\ loop[l].phase \in {"running", "backoff", "recording"}
  /\ ~ loop[l].expired
  /\ loop' = [loop EXCEPT ![l].expired = TRUE]
  /\ UNCHANGED <<main, shutdown, request, store, letters, exhausted>>

(* An attempt that starts with its context done fails at its first call.   *)
TaskSucceeds(l) ==
  /\ Alive
  /\ loop[l].phase = "running"
  /\ ~ loop[l].late
  /\ EndRound(l)
  /\ UNCHANGED <<main, shutdown, request, store, letters, exhausted>>

(* Seeded fault: one attempt too many.                                     *)
TaskFailsOffByOne(l) ==
  /\ Alive
  /\ l \in SchedulerTasks
  /\ loop[l].phase = "running"
  /\ LET last == loop[l].attempts + 1 > MaxRetries IN
       /\ loop' = [loop EXCEPT
                     ![l].attempts = @ + 1,
                     ![l].phase = IF last THEN "recording" ELSE "backoff"]
       /\ exhausted' = [exhausted EXCEPT ![l] = IF last THEN @ + 1 ELSE @]
  /\ UNCHANGED <<main, shutdown, request, store, letters>>

(* Seeded fault: an attempt that failed is made again at once, for ever.   *)
TaskFailsUncounted(l) ==
  /\ Alive
  /\ l \in SchedulerTasks
  /\ loop[l].phase = "running"
  /\ Goto(l, "running")
  /\ UNCHANGED <<main, shutdown, request, store, letters, exhausted>>

(* Seeded fault: every failed attempt is recorded.                         *)
TaskFailsRecorded(l) ==
  /\ Alive
  /\ l \in SchedulerTasks
  /\ loop[l].phase = "running"
  /\ LET last == loop[l].attempts + 1 >= MaxRetries IN
       /\ loop' = [loop EXCEPT ![l].attempts = @ + 1, ![l].phase = "recording"]
       /\ exhausted' = [exhausted EXCEPT ![l] = IF last THEN @ + 1 ELSE @]
  /\ UNCHANGED <<main, shutdown, request, store, letters>>

(* runWithRetry: the attempt failed.                                       *)
TaskFails(l) ==
  /\ Alive
  /\ l \in SchedulerTasks
  /\ loop[l].phase = "running"
  /\ LET last == loop[l].attempts + 1 >= MaxRetries IN
       /\ loop' = [loop EXCEPT
                     ![l].attempts = @ + 1,
                     ![l].phase = IF last THEN "recording" ELSE "backoff"]
       /\ exhausted' = [exhausted EXCEPT ![l] = IF last THEN @ + 1 ELSE @]
  /\ UNCHANGED <<main, shutdown, request, store, letters>>

(* A sweep of the worker is not retried and leaves no dead letter.         *)
SweepFails ==
  /\ Alive
  /\ loop["reeval"].phase = "running"
  /\ EndRound("reeval")
  /\ UNCHANGED <<main, shutdown, request, store, letters, exhausted>>

(* The dead letter is saved with the context of the round.                 *)
RecordTaskFailure(l) ==
  /\ Alive
  /\ l \in SchedulerTasks
  /\ loop[l].phase = "recording"
  /\ ~ CtxDone(l)
  /\ letters' = [letters EXCEPT ![l] = @ + 1]
  /\ EndRound(l)
  /\ UNCHANGED <<main, shutdown, request, store, exhausted>>

(* The store refuses, or the context is done: the error is logged.         *)
RecordingFails(l) ==
  /\ Alive
  /\ l \in SchedulerTasks
  /\ loop[l].phase = "recording"
  /\ CtxDone(l) \/ StoreFaults
  /\ EndRound(l)
  /\ UNCHANGED <<main, shutdown, request, store, letters, exhausted>>

(* select: with both ready, either.                                        *)
Retry(l) ==
  /\ Alive
  /\ loop[l].phase = "backoff"
  /\ loop' = [loop EXCEPT ![l].phase = "running", ![l].late = CtxDone(l)]
  /\ UNCHANGED <<main, shutdown, request, store, letters, exhausted>>

GiveUp(l) ==
  /\ Alive
  /\ loop[l].phase = "backoff"
  /\ CtxDone(l)
  /\ EndRound(l)
  /\ UNCHANGED <<main, shutdown, request, store, letters, exhausted>>

-----------------------------------------------------------------------------
(* Requests and shutdown.                                                  *)

Accept(r) ==
  /\ Alive
  /\ shutdown = "waiting"
  /\ request[r] = "none"
  /\ request' = [request EXCEPT ![r] = "handling"]
  /\ UNCHANGED <<main, shutdown, loop, store, letters, exhausted>>

Answer(r) ==
  /\ Alive
  /\ request[r] = "handling"
  /\ request' = [request EXCEPT ![r] = "answered"]
  /\ UNCHANGED <<main, shutdown, loop, store, letters, exhausted>>

SignalReceived ==
  /\ Alive
  /\ shutdown = "waiting"
  /\ shutdown' = "draining"
  /\ UNCHANGED <<main, request, loop, store, letters, exhausted>>

(* Shutdown returns when no request is in flight, or when its own timeout  *)
(* is over; then the scheduler is stopped.                                 *)
HTTPDrained ==
  /\ Alive
  /\ shutdown = "draining"
  /\ shutdown' = "stopping_scheduler"
  /\ UNCHANGED <<main, request, loop, store, letters, exhausted>>

(* Seeded fault: Stop cancels the loops and does not wait for them.        *)
SchedulerStoppedNoWait ==
  /\ Alive
  /\ shutdown = "stopping_scheduler"
  /\ shutdown' = "stopping_worker"
  /\ UNCHANGED <<main, request, loop, store, letters, exhausted>>

SchedulerStopped ==
  /\ Alive
  /\ shutdown = "stopping_scheduler"
  /\ \A t \in SchedulerTasks : loop[t].phase = "returned"
  /\ shutdown' = "stopping_worker"
  /\ UNCHANGED <<main, request, loop, store, letters, exhausted>>

WorkerStopped ==
  /\ Alive
  /\ shutdown = "stopping_worker"
  /\ loop["reeval"].phase = "returned"
  /\ shutdown' = "closing"
  /\ UNCHANGED <<main, request, loop, store, letters, exhausted>>

StoreClosed ==
  /\ Alive
  /\ shutdown = "closing"
  /\ store' = "closed"
  /\ shutdown' = "done"
  /\ UNCHANGED <<main, request, loop, letters, exhausted>>

(* ListenAndServe returns as soon as Shutdown is called, and main returns. *)
MainReturns ==
  /\ Alive
  /\ shutdown # "waiting"
  /\ main' = "exited"
  /\ UNCHANGED <<shutdown, request, loop, store, letters, exhausted>>

(* The address cannot be listened on: main returns, nothing is stopped.    *)
ListenFails ==
  /\ Alive
  /\ shutdown = "waiting"
  /\ main' = "exited"
  /\ UNCHANGED <<shutdown, request, loop, store, letters, exhausted>>

Next ==
  \/ \E l \in Loops : \/ Tick(l)
                      \/ LoopReturns(l)
                      \/ Timeout(l)
                      \/ TaskSucceeds(l)
                      \/ TaskFails(l)
                      \/ RecordTaskFailure(l)
                      \/ RecordingFails(l)
                      \/ Retry(l)
                      \/ GiveUp(l)
  \/ SweepFails
  \/ \E r \in Requests : Accept(r) \/ Answer(r)
  \/ SignalReceived
  \/ HTTPDrained
  \/ SchedulerStopped
  \/ WorkerStopped
  \/ StoreClosed
  \/ MainReturns
  \/ ListenFails

(* The runtime schedules every goroutine; a select whose cases stay ready  *)
(* does not pass over the same one forever; a task returns.  No signal, no *)
(* tick and no request need ever come.                                     *)
Fairness ==
  /\ \A l \in Loops :
       /\ WF_vars(TaskSucceeds(l) \/ TaskFails(l))
       /\ WF_vars(RecordTaskFailure(l) \/ RecordingFails(l))
       /\ WF_vars(Retry(l) \/ GiveUp(l))
       /\ SF_vars(LoopReturns(l))
  /\ WF_vars(TaskSucceeds("reeval") \/ SweepFails)
  /\ WF_vars(HTTPDrained)
  /\ WF_vars(SchedulerStopped)
  /\ WF_vars(WorkerStopped)
  /\ WF_vars(StoreClosed)

Spec == Init /\ [][Next]_vars /\ Fairness

-----------------------------------------------------------------------------
(* Properties.                                                             *)

Rounds == [phase : Phases, attempts : 0 .. MaxRetries, expired : BOOLEAN,
           late : BOOLEAN, rounds : 0 .. MaxRounds]

(* Types of the variables; a round makes at most MaxRetries attempts.      *)
TypeOK ==
  /\ main \in {"serving", "exited"}
  /\ shutdown \in ShutdownSteps
  /\ request \in [Requests -> {"none", "handling", "answered"}]
  /\ loop \in [Loops -> Rounds]
  /\ store \in {"open", "closed"}
  /\ letters \in [SchedulerTasks -> 0 .. MaxRounds]
  /\ exhausted \in [SchedulerTasks -> 0 .. MaxRounds]

(* The store is closed under no loop: whatever rounds, retries and sweeps  *)
(* are going on when the signal comes, their goroutines have returned by   *)
(* then (Scheduler.Stop, ReevalWorker.Stop, main).                         *)
LoopsEndBeforeClose ==
  store = "closed" => \A l \in Loops : loop[l].phase = "returned"

(* A dead letter stands for a round of its own that used up its retries    *)
(* (runWithRetry): none for a round that went well in the end, that was    *)
(* cancelled, or that has one already.                                     *)
LettersHonest ==
  \A t \in SchedulerTasks :
    letters[t] + (IF loop[t].phase = "recording" THEN 1 ELSE 0) <= exhausted[t]

(* Once a signal has come the loops return and the store is closed, unless *)
(* the process exits before: no round, backoff or retry holds Stop up for  *)
(* ever, and no loop misses that it was cancelled.                         *)
ShutdownCompletes == shutdown # "waiting" ~> store = "closed" \/ ~ Alive
=============================================================================
