------------------------ MODULE ServerProcessProofs ------------------------
(***************************************************************************)
(* Proofs about ServerProcess, for any number of requests, retries and     *)
(* rounds: types, dead letters and the order of shutdown.                  *)
(***************************************************************************)
EXTENDS ServerProcess, TLAPS

(* A scheduler task in an attempt or a backoff has attempts left and is in *)
(* a round that has not used them up; no round is used up twice.           *)
TaskCounted(t) ==
  /\ exhausted[t] <= loop[t].rounds
  /\ loop[t].phase \in {"running", "backoff"} =>
       exhausted[t] < loop[t].rounds /\ loop[t].attempts < MaxRetries
  /\ loop[t].phase = "waiting" => loop[t].attempts = 0

TaskHonest(t) ==
  /\ letters[t] <= exhausted[t]
  /\ loop[t].phase = "recording" => letters[t] < exhausted[t]

(* What the signal goroutine has waited for stays as it is.                *)
ShutdownOrder ==
  /\ shutdown \in {"stopping_worker", "closing", "done"} =>
       \A t \in SchedulerTasks : loop[t].phase = "returned"
  /\ shutdown \in {"closing", "done"} => loop["reeval"].phase = "returned"
  /\ store = "closed" => shutdown = "done"

Inv ==
  /\ TypeOK
  /\ \A t \in SchedulerTasks : TaskCounted(t) /\ TaskHonest(t)
  /\ ShutdownOrder

-----------------------------------------------------------------------------
(* A step of one goroutine: it writes its own round and counters, and none *)
(* has returned that was in a round.                                       *)
LEMMA LoopStep ==
  ASSUME Inv, NEW l \in Loops, NEW r \in Rounds,
         loop' = [loop EXCEPT ![l] = r],
         loop[l].phase # "returned",
         UNCHANGED <<main, shutdown, request, store>>,
         letters' \in [SchedulerTasks -> Nat],
         exhausted' \in [SchedulerTasks -> Nat],
         \A t \in SchedulerTasks \ {l} :
           letters'[t] = letters[t] /\ exhausted'[t] = exhausted[t],
         l \in SchedulerTasks => TaskCounted(l)' /\ TaskHonest(l)'
  PROVE  Inv'
<1>1. loop' \in [Loops -> Rounds]
  BY DEF Inv, TypeOK
<1>2. \A k \in Loops : k # l => loop'[k] = loop[k]
  BY DEF Inv, TypeOK
<1>3. loop'[l] = r
  BY DEF Inv, TypeOK
<1>4. SchedulerTasks \subseteq Loops
  BY DEF Loops
<1>5. ASSUME NEW t \in SchedulerTasks PROVE TaskCounted(t)' /\ TaskHonest(t)'
  <2>1. CASE t = l
    BY <2>1
  <2>2. CASE t # l
    <3>1. loop'[t] = loop[t] /\ letters'[t] = letters[t]
                             /\ exhausted'[t] = exhausted[t]
      BY <2>2, <1>2, <1>4
    <3> QED
      BY <3>1 DEF Inv, TaskCounted, TaskHonest
  <2> QED
    BY <2>1, <2>2
<1>6. ASSUME NEW t \in SchedulerTasks
      PROVE  letters'[t] \in 0 .. MaxRounds /\ exhausted'[t] \in 0 .. MaxRounds
  <2>1. loop'[t].rounds \in 0 .. MaxRounds
    BY <1>1, <1>4 DEF Rounds
  <2>2. letters'[t] \in Nat /\ exhausted'[t] \in Nat
    OBVIOUS
  <2> QED
    BY <2>1, <2>2, <1>5, ConstantsOK DEF TaskCounted, TaskHonest
<1>7. TypeOK'
  BY <1>1, <1>6 DEF Inv, TypeOK
<1>8. ShutdownOrder'
  <2>1. l \in SchedulerTasks =>
          shutdown \notin {"stopping_worker", "closing", "done"}
    BY DEF Inv, ShutdownOrder
  <2>2. l = "reeval" => shutdown \notin {"closing", "done"}
    BY DEF Inv, ShutdownOrder
  <2>3. l \in SchedulerTasks \/ l = "reeval"
    BY DEF Loops
  <2>4. "reeval" \in Loops
    BY DEF Loops
  <2> QED
    BY <2>1, <2>2, <2>3, <2>4, <1>2, <1>4 DEF Inv, ShutdownOrder
<1> QED
  BY <1>5, <1>7, <1>8 DEF Inv

(* A step that writes no round and no counter.                             *)
LEMMA OtherStep ==
  ASSUME Inv, UNCHANGED <<loop, letters, exhausted>>, TypeOK', ShutdownOrder'
  PROVE  Inv'
BY DEF Inv, TaskCounted, TaskHonest

LEMMA InvInit == Init => Inv
BY ConstantsOK DEF Init, Inv, TypeOK, TaskCounted, TaskHonest, ShutdownOrder,
   Loops, SchedulerTasks, ShutdownSteps, AtRest, Rounds, Phases

LEMMA InvNext == Inv /\ [Next]_vars => Inv'
<1> SUFFICES ASSUME Inv, [Next]_vars PROVE Inv'
  OBVIOUS
<1>0. /\ SchedulerTasks \subseteq Loops
      /\ \A l \in Loops : loop[l] \in Rounds
      /\ \A t \in SchedulerTasks : letters[t] \in Nat /\ exhausted[t] \in Nat
      /\ letters \in [SchedulerTasks -> Nat]
      /\ exhausted \in [SchedulerTasks -> Nat]
      /\ loop \in [Loops -> Rounds]
  BY DEF Inv, TypeOK, Loops
<1>1. ASSUME NEW l \in Loops, Tick(l) PROVE Inv'
  <2> DEFINE r == [loop[l] EXCEPT !.phase = "running", !.rounds = @ + 1,
                                  !.late = Cancelled(l)]
  <2>1. r \in Rounds
    BY <1>0, <1>1, ConstantsOK DEF Tick, Rounds, Phases, Cancelled
  <2>2. loop' = [loop EXCEPT ![l] = r]
    BY <1>1 DEF Tick
  <2>3. l \in SchedulerTasks => TaskCounted(l)' /\ TaskHonest(l)'
    BY <1>0, <1>1, <2>1, <2>2, ConstantsOK
       DEF Tick, Inv, TaskCounted, TaskHonest, Rounds
  <2> QED
    BY <1>0, <1>1, <2>1, <2>2, <2>3, LoopStep DEF Tick
<1>2. ASSUME NEW l \in Loops, LoopReturns(l) PROVE Inv'
  <2> DEFINE r == [loop[l] EXCEPT !.phase = "returned"]
  <2>1. r \in Rounds
    BY <1>0 DEF Rounds, Phases
  <2>2. loop' = [loop EXCEPT ![l] = r]
    BY <1>2 DEF LoopReturns, Goto
  <2>3. l \in SchedulerTasks => TaskCounted(l)' /\ TaskHonest(l)'
    BY <1>0, <1>2, <2>2 DEF LoopReturns, Inv, TaskCounted, TaskHonest, Rounds
  <2> QED
    BY <1>0, <1>2, <2>1, <2>2, <2>3, LoopStep DEF LoopReturns
<1>3. ASSUME NEW l \in Loops, Timeout(l) PROVE Inv'
  <2> DEFINE r == [loop[l] EXCEPT !.expired = TRUE]
  <2>1. r \in Rounds
    BY <1>0 DEF Rounds
  <2>2. loop' = [loop EXCEPT ![l] = r]
    BY <1>3 DEF Timeout
  <2>3. l \in SchedulerTasks => TaskCounted(l)' /\ TaskHonest(l)'
    BY <1>0, <1>3, <2>2 DEF Timeout, Inv, TaskCounted, TaskHonest, Rounds
  <2> QED
    BY <1>0, <1>3, <2>1, <2>2, <2>3, LoopStep DEF Timeout
<1>4. ASSUME NEW l \in Loops, EndRound(l), loop[l].phase # "returned",
             UNCHANGED <<main, shutdown, request, store, exhausted>>,
             letters' \in [SchedulerTasks -> Nat],
             \A t \in SchedulerTasks \ {l} : letters'[t] = letters[t],
             l \in SchedulerTasks => letters'[l] <= exhausted[l]
      PROVE  Inv'
  <2> DEFINE r == [AtRest EXCEPT !.rounds = loop[l].rounds]
  <2>1. r \in Rounds
    <3>1. loop[l].rounds \in 0 .. MaxRounds /\ 0 \in 0 .. MaxRetries
      BY <1>0, ConstantsOK DEF Rounds
    <3> QED
      BY <3>1 DEF Rounds, AtRest, Phases
  <2>2. loop' = [loop EXCEPT ![l] = r]
    BY <1>4 DEF EndRound
  <2>3. r.phase = "waiting" /\ r.attempts = 0 /\ r.rounds = loop[l].rounds
    BY DEF AtRest
  <2>4. loop'[l] = r
    BY <1>0, <2>2
  <2>5. l \in SchedulerTasks => TaskCounted(l)' /\ TaskHonest(l)'
    BY <1>4, <2>3, <2>4 DEF Inv, TaskCounted, TaskHonest
  <2> HIDE DEF r
  <2> QED
    BY <1>0, <1>4, <2>1, <2>2, <2>5, LoopStep
<1>5. ASSUME NEW l \in Loops, TaskFails(l) PROVE Inv'
  <2> DEFINE last == loop[l].attempts + 1 >= MaxRetries
             r == [loop[l] EXCEPT
                     !.attempts = @ + 1,
                     !.phase = IF last THEN "recording" ELSE "backoff"]
  <2>1. l \in SchedulerTasks /\ loop[l].phase = "running"
    BY <1>5 DEF TaskFails
  <2>2. r \in Rounds
    <3>1. loop[l] \in Rounds
      BY <1>0
    <3>2. loop[l].attempts + 1 \in 0 .. MaxRetries
      BY <2>1, <3>1, ConstantsOK DEF Rounds, Inv, TaskCounted
    <3> QED
      BY <3>1, <3>2 DEF Rounds, Phases
  <2>3. loop' = [loop EXCEPT ![l] = r]
    BY <1>5 DEF TaskFails
  <2>4. /\ exhausted' = [exhausted EXCEPT ![l] = IF last THEN @ + 1 ELSE @]
        /\ UNCHANGED <<main, shutdown, request, store, letters>>
    BY <1>5 DEF TaskFails
  <2>5. exhausted' \in [SchedulerTasks -> Nat]
    BY <1>0, <2>1, <2>4
  <2>6. TaskCounted(l)' /\ TaskHonest(l)'
    BY <1>0, <2>1, <2>3, <2>4, ConstantsOK
       DEF Inv, TaskCounted, TaskHonest, Rounds
  <2> QED
    BY <1>0, <2>1, <2>2, <2>3, <2>4, <2>5, <2>6, LoopStep
<1>6. ASSUME NEW l \in Loops, Retry(l) PROVE Inv'
  <2> DEFINE r == [loop[l] EXCEPT !.phase = "running", !.late = CtxDone(l)]
  <2>1. r \in Rounds
    BY <1>0 DEF Rounds, Phases, CtxDone, Cancelled
  <2>2. loop' = [loop EXCEPT ![l] = r]
    BY <1>6 DEF Retry
  <2>3. l \in SchedulerTasks => TaskCounted(l)' /\ TaskHonest(l)'
    BY <1>0, <1>6, <2>2 DEF Retry, Inv, TaskCounted, TaskHonest, Rounds
  <2> QED
    BY <1>0, <1>6, <2>1, <2>2, <2>3, LoopStep DEF Retry
<1>7. ASSUME NEW l \in Loops, RecordTaskFailure(l) PROVE Inv'
  <2>1. /\ l \in SchedulerTasks
        /\ loop[l].phase = "recording"
        /\ letters' = [letters EXCEPT ![l] = @ + 1]
        /\ EndRound(l)
        /\ UNCHANGED <<main, shutdown, request, store, exhausted>>
    BY <1>7 DEF RecordTaskFailure
  <2>2. letters'[l] <= exhausted[l]
    BY <1>0, <2>1 DEF Inv, TaskHonest
  <2>3. /\ letters' \in [SchedulerTasks -> Nat]
        /\ \A t \in SchedulerTasks \ {l} : letters'[t] = letters[t]
    BY <1>0, <2>1
  <2> QED
    BY <1>4, <2>1, <2>2, <2>3
<1>8. ASSUME NEW l \in Loops,
             TaskSucceeds(l) \/ RecordingFails(l) \/ GiveUp(l)
      PROVE  Inv'
  <2>1. /\ EndRound(l)
        /\ loop[l].phase # "returned"
        /\ UNCHANGED <<main, shutdown, request, store, exhausted, letters>>
    BY <1>8 DEF TaskSucceeds, RecordingFails, GiveUp
  <2>2. l \in SchedulerTasks => letters'[l] <= exhausted[l]
    BY <2>1 DEF Inv, TaskHonest
  <2> QED
    BY <1>0, <1>4, <2>1, <2>2
<1>9. CASE SweepFails
  <2>1. /\ EndRound("reeval")
        /\ loop["reeval"].phase # "returned"
        /\ UNCHANGED <<main, shutdown, request, store, exhausted, letters>>
    BY <1>9 DEF SweepFails
  <2>2. "reeval" \in Loops /\ "reeval" \notin SchedulerTasks
    BY DEF Loops, SchedulerTasks
  <2> QED
    BY <1>0, <1>4, <2>1, <2>2
<1>10. ASSUME NEW r \in Requests, Accept(r) \/ Answer(r) PROVE Inv'
  BY <1>10, OtherStep DEF Accept, Answer, Inv, TypeOK, ShutdownOrder
<1>11. CASE SignalReceived \/ HTTPDrained \/ MainReturns \/ ListenFails
  BY <1>11, OtherStep
     DEF SignalReceived, HTTPDrained, MainReturns, ListenFails, Inv, TypeOK,
         ShutdownOrder, ShutdownSteps
<1>12. CASE SchedulerStopped
  BY <1>12, OtherStep
     DEF SchedulerStopped, Inv, TypeOK, ShutdownOrder, ShutdownSteps
<1>13. CASE WorkerStopped
  BY <1>13, OtherStep
     DEF WorkerStopped, Inv, TypeOK, ShutdownOrder, ShutdownSteps
<1>14. CASE StoreClosed
  BY <1>14, OtherStep
     DEF StoreClosed, Inv, TypeOK, ShutdownOrder, ShutdownSteps
<1>15. CASE UNCHANGED vars
  BY <1>15 DEF vars, Inv, TypeOK, TaskCounted, TaskHonest, ShutdownOrder
<1> QED
  BY <1>1, <1>2, <1>3, <1>5, <1>6, <1>7, <1>8, <1>9, <1>10, <1>11, <1>12,
     <1>13, <1>14, <1>15 DEF Next

-----------------------------------------------------------------------------
(* A round makes at most max_retries attempts and the counters stay in     *)
(* their bounds, for any number of requests and rounds (runWithRetry).     *)
THEOREM TypeCorrect == Spec => []TypeOK
<1>1. Inv => TypeOK
  BY DEF Inv
<1> QED
  BY <1>1, InvInit, InvNext, PTL DEF Spec

(* The store is closed under no loop, whatever rounds are going on when    *)
(* the signal comes (Scheduler.Stop, ReevalWorker.Stop, main).             *)
THEOREM ClosedAfterLoops == Spec => []LoopsEndBeforeClose
<1>1. Inv => LoopsEndBeforeClose
  BY DEF Inv, ShutdownOrder, LoopsEndBeforeClose, Loops
<1> QED
  BY <1>1, InvInit, InvNext, PTL DEF Spec

(* Every dead letter stands for a round of its own that used up its        *)
(* retries (runWithRetry, recordTaskFailure).                              *)
THEOREM LettersAccounted == Spec => []LettersHonest
<1>1. Inv => LettersHonest
  <2> SUFFICES ASSUME Inv, NEW t \in SchedulerTasks
               PROVE  letters[t] + (IF loop[t].phase = "recording"
                                    THEN 1 ELSE 0) <= exhausted[t]
    BY DEF LettersHonest
  <2>1. letters[t] \in Nat /\ exhausted[t] \in Nat
    BY DEF Inv, TypeOK
  <2> QED
    BY <2>1 DEF Inv, TaskHonest
<1> QED
  BY <1>1, InvInit, InvNext, PTL DEF Spec
=============================================================================
