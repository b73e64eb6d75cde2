------------------------------ MODULE TaskProofs ------------------------------
(***************************************************************************)
(* Proofs about the task runner, for any sets of tasks and requests and in *)
(* both context modes.                                                     *)
(***************************************************************************)
EXTENDS TaskRunner, TLAPS

(* The shutdown() hook closes the runner before it takes the snapshot of   *)
(* the tasks it awaits, so that the snapshot covers activeTasks for good.  *)
DrainInv ==
  /\ stop = "draining" => shutdownRequested /\ activeTasks \subseteq draining
  /\ stop = "stopped" => shutdownRequested /\ activeTasks = {}

(* Every callback that is not done is held by a request that is not done.  *)
CallbacksInv ==
  \A t \in Tasks :
    /\ taskStatus[t] = "deferred" => \E r \in Requests : request[r] = "open" /\ t \in callbacks[r]
    /\ taskStatus[t] = "timer" =>
         \E r \in Requests :
           /\ request[r] = "flushing"
           /\ t \in callbacks[r]
           /\ r \in extended \cup reported

(* A callback is held by one request, and only until it has run.           *)
HeldInv ==
  /\ \A r \in Requests : \A t \in callbacks[r] : taskStatus[t] \in {"deferred", "timer"}
  /\ \A q, r \in Requests : q # r => callbacks[q] \cap callbacks[r] = {}

(* What waitUntil() did not get was reported.                              *)
ExtendedInv == \A t \in InRunner \ waited : t \in extended \cup reported

TaskInv == TaskTypeOK /\ DrainInv /\ CallbacksInv /\ HeldInv /\ ExtendedInv

-----------------------------------------------------------------------------

LEMMA InitTaskInv == TaskInit => TaskInv
BY DEF TaskInit, TaskInv, TaskTypeOK, DrainInv, CallbacksInv, HeldInv, ExtendedInv, InRunner

(* A task enters the runner, from its caller or from its timer.            *)
LEMMA AcceptKeeps ==
  ASSUME TaskInv, NEW t \in Tasks, ~shutdownRequested, taskStatus[t] \in {"new", "timer"},
         taskStatus' = [taskStatus EXCEPT ![t] = "queued"],
         activeTasks' = activeTasks \cup {t},
         UNCHANGED <<shutdownRequested, stop, draining>>
  PROVE  /\ taskStatus' \in [Tasks -> {"new", "deferred", "timer", "queued", "running", "settled",
                                   "done", "dropped"}]
         /\ InRunner' = InRunner \cup {t}
         /\ activeTasks' = InRunner'
         /\ DrainInv'
<1>1. taskStatus' \in [Tasks -> {"new", "deferred", "timer", "queued", "running", "settled",
                             "done", "dropped"}]
  BY DEF TaskInv, TaskTypeOK
<1>2. InRunner' = InRunner \cup {t}
  BY DEF TaskInv, TaskTypeOK, InRunner
<1>3. activeTasks' = InRunner'
  BY <1>2 DEF TaskInv, TaskTypeOK
<1>4. DrainInv'
  BY DEF TaskInv, DrainInv
<1>5. QED
  BY <1>1, <1>2, <1>3, <1>4

LEMMA RunKeeps == ASSUME TaskInv, NEW t \in Tasks, Run(t) PROVE TaskInv'
<1>1. /\ taskStatus[t] = "new"
      /\ Accept(t)
      /\ UNCHANGED <<mode, shutdownRequested, waited, request, callbacks, stop, inTask,
                     draining, joined>>
  BY DEF Run
<1>2. /\ taskStatus' \in [Tasks -> {"new", "deferred", "timer", "queued", "running", "settled",
                                "done", "dropped"}]
      /\ InRunner' = InRunner \cup {t}
      /\ activeTasks' = InRunner'
      /\ DrainInv'
  BY <1>1, AcceptKeeps DEF Accept
<1>3. TaskTypeOK'
  BY <1>1, <1>2 DEF TaskInv, TaskTypeOK, Accept, WaitUntil
<1>4. CallbacksInv'
  BY <1>1 DEF TaskInv, TaskTypeOK, CallbacksInv, Accept, WaitUntil
<1>7. HeldInv'
  BY <1>1 DEF TaskInv, TaskTypeOK, HeldInv, Accept
<1>5. ExtendedInv'
  BY <1>1, <1>2 DEF TaskInv, ExtendedInv, Accept, WaitUntil
<1>6. QED
  BY <1>2, <1>3, <1>4, <1>5, <1>7 DEF TaskInv

LEMMA RunAndWaitKeeps == ASSUME TaskInv, NEW t \in Tasks, RunAndWait(t) PROVE TaskInv'
<1>1. /\ taskStatus' \in [Tasks -> {"new", "deferred", "timer", "queued", "running", "settled",
                                "done", "dropped"}]
      /\ InRunner' = InRunner \cup {t}
      /\ activeTasks' = InRunner'
      /\ DrainInv'
  BY AcceptKeeps DEF RunAndWait
<1>2. TaskTypeOK'
  BY <1>1 DEF TaskInv, TaskTypeOK, RunAndWait
<1>3. CallbacksInv'
  BY DEF TaskInv, TaskTypeOK, CallbacksInv, RunAndWait
<1>4. ExtendedInv'
  BY <1>1 DEF TaskInv, ExtendedInv, RunAndWait
<1>5. HeldInv'
  BY DEF TaskInv, TaskTypeOK, HeldInv, RunAndWait
<1>6. QED
  BY <1>1, <1>2, <1>3, <1>4, <1>5 DEF TaskInv

LEMMA AfterResponseKeeps ==
  ASSUME TaskInv, NEW t \in Tasks, NEW r \in Requests, AfterResponse(t, r) PROVE TaskInv'
<1>1. InRunner' = InRunner
  BY DEF TaskInv, TaskTypeOK, AfterResponse, InRunner
<1>2. callbacks' \in [Requests -> SUBSET Tasks]
  BY DEF TaskInv, TaskTypeOK, AfterResponse
<1>3. TaskTypeOK'
  BY <1>1, <1>2 DEF TaskInv, TaskTypeOK, AfterResponse
<1>4. \A q \in Requests : callbacks[q] \subseteq callbacks'[q]
  BY DEF TaskInv, TaskTypeOK, AfterResponse
<1>5. t \in callbacks'[r] /\ request'[r] = "open"
  BY DEF TaskInv, TaskTypeOK, AfterResponse
<1>6. CallbacksInv'
  BY <1>4, <1>5 DEF TaskInv, TaskTypeOK, CallbacksInv, AfterResponse
<1>7. ExtendedInv' /\ DrainInv'
  BY <1>1 DEF TaskInv, ExtendedInv, DrainInv, AfterResponse
<1>8. HeldInv'
  BY DEF TaskInv, TaskTypeOK, HeldInv, AfterResponse
<1>9. QED
  BY <1>3, <1>6, <1>7, <1>8 DEF TaskInv

LEMMA FlushKeeps == ASSUME TaskInv, NEW r \in Requests, Flush(r) PROVE TaskInv'
<1>1. /\ \A t \in Tasks : taskStatus'[t] = IF t \in callbacks[r] THEN "timer" ELSE taskStatus[t]
      /\ taskStatus' \in [Tasks -> {"new", "deferred", "timer", "queued", "running", "settled",
                                "done", "dropped"}]
      /\ request' = [request EXCEPT ![r] = "flushing"]
      /\ request[r] = "open"
  BY DEF TaskInv, TaskTypeOK, Flush
<1>2. InRunner' = InRunner
  BY <1>1 DEF TaskInv, HeldInv, InRunner
<1>3. r \in extended' \cup reported' /\ extended \subseteq extended' /\ reported \subseteq reported'
  BY DEF Flush, WaitUntil
<1>4. TaskTypeOK'
  BY <1>1, <1>2 DEF TaskInv, TaskTypeOK, Flush, WaitUntil
<1>5. CallbacksInv'
  <2>1. SUFFICES ASSUME NEW t \in Tasks
                 PROVE  /\ taskStatus'[t] = "deferred" =>
                             \E q \in Requests : request'[q] = "open" /\ t \in callbacks'[q]
                        /\ taskStatus'[t] = "timer" =>
                             \E q \in Requests :
                               /\ request'[q] = "flushing"
                               /\ t \in callbacks'[q]
                               /\ q \in extended' \cup reported'
    BY DEF CallbacksInv
  <2>2. callbacks' = callbacks /\ request'[r] = "flushing"
    BY <1>1 DEF Flush, TaskInv, TaskTypeOK
  <2>3. CASE t \in callbacks[r]
    BY <1>1, <1>3, <2>2, <2>3
  <2>4. CASE t \notin callbacks[r]
    <3>1. taskStatus'[t] = taskStatus[t]
      BY <1>1, <2>4
    <3>2. \A q \in Requests : request[q] = "flushing" => request'[q] = "flushing"
      BY <1>1 DEF TaskInv, TaskTypeOK
    <3>3. \A q \in Requests : q # r => request'[q] = request[q]
      BY <1>1 DEF TaskInv, TaskTypeOK
    <3>4. QED
      BY <1>3, <2>2, <2>4, <3>1, <3>2, <3>3 DEF TaskInv, CallbacksInv
  <2>5. QED
    BY <2>3, <2>4
<1>6. HeldInv'
  BY <1>1 DEF TaskInv, HeldInv, Flush, TaskTypeOK
<1>7. ExtendedInv' /\ DrainInv'
  BY <1>2, <1>3 DEF TaskInv, ExtendedInv, DrainInv, Flush
<1>8. QED
  BY <1>4, <1>5, <1>6, <1>7 DEF TaskInv

LEMMA TimerFiresKeeps ==
  ASSUME TaskInv, NEW t \in Tasks, NEW r \in Requests, TimerFires(r, t) PROVE TaskInv'
<1>1. /\ t \in callbacks[r] /\ taskStatus[t] = "timer"
      /\ callbacks' = [callbacks EXCEPT ![r] = @ \ {t}]
      /\ UNCHANGED <<mode, shutdownRequested, waited, request, stop, inTask, draining, joined>>
  BY DEF TimerFires
<1>2. PICK s \in {"queued", "dropped"} : taskStatus' = [taskStatus EXCEPT ![t] = s]
  BY DEF TimerFires, Accept
<1>3. /\ callbacks' \in [Requests -> SUBSET Tasks]
      /\ \A q \in Requests : callbacks'[q] \subseteq callbacks[q] /\ t \notin callbacks'[q]
      /\ \A q \in Requests : \A u \in callbacks[q] : u # t => u \in callbacks'[q]
  BY <1>1 DEF TaskInv, TaskTypeOK, HeldInv
<1>4. \A u \in Tasks : u # t => taskStatus'[u] = taskStatus[u]
  BY <1>2 DEF TaskInv, TaskTypeOK
<1>5. HeldInv'
  BY <1>3, <1>4 DEF TaskInv, TaskTypeOK, HeldInv
<1>6. extended \subseteq extended' /\ reported \subseteq reported'
  BY DEF TimerFires, Accept, WaitUntil
<1>7. CallbacksInv'
  <2>1. taskStatus'[t] \notin {"deferred", "timer"}
    BY <1>2 DEF TaskInv, TaskTypeOK
  <2>2. QED
    BY <1>1, <1>3, <1>4, <1>6, <2>1 DEF TaskInv, CallbacksInv
<1>8. CASE Accept(t)
  <2>1. /\ taskStatus' \in [Tasks -> {"new", "deferred", "timer", "queued", "running", "settled",
                                  "done", "dropped"}]
        /\ InRunner' = InRunner \cup {t}
        /\ activeTasks' = InRunner'
        /\ DrainInv'
    BY <1>1, <1>8, AcceptKeeps DEF Accept
  <2>2. TaskTypeOK'
    BY <1>1, <1>3, <1>8, <2>1 DEF TaskInv, TaskTypeOK, Accept, WaitUntil
  <2>3. ExtendedInv'
    BY <1>1, <1>8, <2>1 DEF TaskInv, ExtendedInv, Accept, WaitUntil
  <2>4. QED
    BY <1>5, <1>7, <2>1, <2>2, <2>3 DEF TaskInv
<1>9. CASE /\ taskStatus' = [taskStatus EXCEPT ![t] = "dropped"]
           /\ reported' = reported \cup {t}
           /\ UNCHANGED <<activeTasks, extended>>
  <2>1. InRunner' = InRunner
    BY <1>1, <1>9 DEF TaskInv, TaskTypeOK, InRunner
  <2>2. TaskTypeOK'
    BY <1>1, <1>3, <1>9, <2>1 DEF TaskInv, TaskTypeOK
  <2>3. ExtendedInv' /\ DrainInv'
    BY <1>1, <1>9, <2>1 DEF TaskInv, ExtendedInv, DrainInv
  <2>4. QED
    BY <1>5, <1>7, <2>2, <2>3 DEF TaskInv
<1>10. QED
  BY <1>8, <1>9 DEF TimerFires

(* A request opens, or has completed its callbacks.                        *)
LEMMA RequestKeeps ==
  ASSUME TaskInv, NEW r \in Requests, OpenRequest(r) \/ FlushSettles(r) PROVE TaskInv'
<1>1. /\ request[r] = "new" \/ callbacks[r] = {}
      /\ request[r] # "open"
      /\ request[r] = "new" \/ request[r] = "flushing"
      /\ \A q \in Requests : q # r => request'[q] = request[q]
      /\ request' \in [Requests -> {"new", "open", "flushing", "flushed"}]
      /\ UNCHANGED <<mode, shutdownRequested, activeTasks, taskStatus, waited, callbacks, extended,
                     reported, stop, inTask, draining, joined>>
  BY DEF TaskInv, TaskTypeOK, OpenRequest, FlushSettles
<1>2. InRunner' = InRunner
  BY <1>1 DEF InRunner
<1>3. CallbacksInv'
  BY <1>1 DEF TaskInv, CallbacksInv
<1>4. QED
  BY <1>1, <1>2, <1>3 DEF TaskInv, TaskTypeOK, HeldInv, ExtendedInv, DrainInv

(* A task starts, settles or is forgotten.                                 *)
LEMMA ProgressKeeps ==
  ASSUME TaskInv, NEW t \in Tasks, TaskStarts(t) \/ TaskSettles(t) \/ TaskForgotten(t)
  PROVE  TaskInv'
<1>1. PICK s \in {"running", "settled", "done"} :
        /\ taskStatus' = [taskStatus EXCEPT ![t] = s]
        /\ taskStatus[t] \in {"queued", "running", "settled"}
        /\ activeTasks' = IF s = "done" THEN activeTasks \ {t} ELSE activeTasks
        /\ reported \subseteq reported' /\ reported' \subseteq Tasks \cup Requests
        /\ UNCHANGED <<mode, shutdownRequested, waited, request, callbacks, extended, stop,
                       inTask, draining, joined>>
  BY DEF TaskInv, TaskTypeOK, TaskStarts, TaskSettles, TaskForgotten
<1>2. /\ taskStatus' \in [Tasks -> {"new", "deferred", "timer", "queued", "running", "settled",
                                "done", "dropped"}]
      /\ taskStatus'[t] = s
      /\ \A u \in Tasks : u # t => taskStatus'[u] = taskStatus[u]
  BY <1>1 DEF TaskInv, TaskTypeOK
<1>3. InRunner' = IF s = "done" THEN InRunner \ {t} ELSE InRunner
  BY <1>1, <1>2 DEF InRunner
<1>4. TaskTypeOK'
  BY <1>1, <1>2, <1>3 DEF TaskInv, TaskTypeOK
<1>5. CallbacksInv'
  BY <1>1, <1>2 DEF TaskInv, CallbacksInv
<1>6. HeldInv'
  BY <1>1, <1>2 DEF TaskInv, TaskTypeOK, HeldInv
<1>7. ExtendedInv' /\ DrainInv'
  BY <1>1, <1>3 DEF TaskInv, ExtendedInv, DrainInv
<1>8. QED
  BY <1>4, <1>5, <1>6, <1>7 DEF TaskInv

(* A stop begins, asks the runner, is joined or has drained it.            *)
LEMMA StopKeeps ==
  ASSUME TaskInv,
         \/ \E callers \in StopCallers : BeginStop(callers) \/ BeginRollback(callers)
         \/ StopRunner
         \/ Drained
         \/ \E t \in Tasks : JoinShutdown(t)
  PROVE  TaskInv'
<1>0. /\ UNCHANGED <<mode, activeTasks, taskStatus, waited, request, callbacks, extended, reported>>
      /\ \/ \E callers \in StopCallers : joined' = callers /\ inTask' = (callers # {})
         \/ joined' \in {joined, {}} /\ UNCHANGED inTask
         \/ \E t \in Tasks : joined' = joined \cup {t} /\ UNCHANGED inTask
  BY DEF BeginStop, BeginRollback, StopRunner, Drained, JoinShutdown
<1>1. joined' \subseteq Tasks /\ inTask' \in BOOLEAN
  <2>1. CASE \E callers \in StopCallers : joined' = callers /\ inTask' = (callers # {})
    <3>1. PICK callers \in StopCallers : joined' = callers /\ inTask' = (callers # {})
      BY <2>1
    <3>2. joined' \subseteq Tasks
      BY <3>1 DEF StopCallers
    <3>3. inTask' \in BOOLEAN
      BY <3>1
    <3>4. QED
      BY <3>2, <3>3
  <2>2. CASE joined' \in {joined, {}} /\ UNCHANGED inTask
    BY <2>2 DEF TaskInv, TaskTypeOK
  <2>3. CASE \E t \in Tasks : joined' = joined \cup {t} /\ UNCHANGED inTask
    BY <2>3 DEF TaskInv, TaskTypeOK
  <2>4. QED
    BY <1>0, <2>1, <2>2, <2>3
<1>2. /\ shutdownRequested' \in BOOLEAN
      /\ draining' \subseteq Tasks
      /\ stop' \in {"none", "others", "draining", "stopped", "failed"}
  BY DEF TaskInv, TaskTypeOK, InRunner, BeginStop, BeginRollback, StopRunner, Drained,
         JoinShutdown
<1>3. InRunner' = InRunner
  BY <1>0 DEF InRunner
<1>4. TaskTypeOK'
  BY <1>0, <1>1, <1>2, <1>3 DEF TaskInv, TaskTypeOK
<1>5. DrainInv'
  BY DEF TaskInv, DrainInv, BeginStop, BeginRollback, StopRunner, Drained, JoinShutdown
<1>6. CallbacksInv' /\ HeldInv' /\ ExtendedInv'
  BY <1>0, <1>3 DEF TaskInv, CallbacksInv, HeldInv, ExtendedInv
<1>7. QED
  BY <1>4, <1>5, <1>6 DEF TaskInv

LEMMA TaskStep == TaskInv /\ [TaskNext]_taskVars => TaskInv'
<1>1. SUFFICES ASSUME TaskInv, [TaskNext]_taskVars PROVE TaskInv'
  OBVIOUS
<1>2. CASE UNCHANGED taskVars
  BY <1>1, <1>2 DEF taskVars, TaskInv, TaskTypeOK, InRunner, DrainInv, CallbacksInv, HeldInv,
                    ExtendedInv
<1>3. CASE \E t \in Tasks :
             \/ Run(t)
             \/ RunAndWait(t)
             \/ TaskStarts(t)
             \/ TaskSettles(t)
             \/ TaskForgotten(t)
             \/ \E r \in Requests : AfterResponse(t, r) \/ TimerFires(r, t)
  BY <1>1, <1>3, RunKeeps, RunAndWaitKeeps, ProgressKeeps, AfterResponseKeeps, TimerFiresKeeps
<1>4. CASE \E r \in Requests : OpenRequest(r) \/ Flush(r) \/ FlushSettles(r)
  BY <1>1, <1>4, RequestKeeps, FlushKeeps
<1>5. CASE \/ \E callers \in StopCallers : BeginStop(callers) \/ BeginRollback(callers)
           \/ StopRunner
           \/ Drained
           \/ \E t \in Tasks : JoinShutdown(t)
  BY <1>1, <1>5, StopKeeps
<1>6. QED
  BY <1>1, <1>2, <1>3, <1>4, <1>5 DEF TaskNext, ShutdownNext

LEMMA TaskInvHolds == TaskSpec => []TaskInv
BY InitTaskInv, TaskStep, PTL DEF TaskSpec

-----------------------------------------------------------------------------

(* The type invariant, with activeTasks exactly the tasks in the runner,   *)
(* for any tasks and requests.                                             *)
THEOREM TaskTypeCorrect == TaskSpec => []TaskTypeOK
<1>1. TaskInv => TaskTypeOK
  BY DEF TaskInv
<1>2. QED
  BY <1>1, TaskInvHolds, PTL

(* When the runner's shutdown() has fulfilled no task is left in it, even  *)
(* when tasks call runtime.shutdown() during a shutdown.                   *)
THEOREM DrainIsComplete == TaskSpec => []StoppedMeansIdle
<1>1. TaskInv => StoppedMeansIdle
  BY DEF TaskInv, TaskTypeOK, DrainInv, StoppedMeansIdle
<1>2. QED
  BY <1>1, TaskInvHolds, PTL

(* The platform's post-response window never closes on a task: a pending   *)
(* promise covers each one, from its request's flush to its end.           *)
THEOREM WindowIsContinuous == TaskSpec => []WindowCoversTasks
<1>1. TaskInv => WindowCoversTasks
  <2>1. SUFFICES ASSUME TaskInv, NEW t \in Tasks
                 PROVE  /\ t \in InRunner \ waited => t \in Pending \cup reported
                        /\ taskStatus[t] = "timer" =>
                             \E r \in Requests : t \in callbacks[r] /\ r \in Pending \cup reported
    BY DEF WindowCoversTasks
  <2>2. t \in InRunner \ waited => t \in Pending \cup reported
    BY <2>1 DEF TaskInv, TaskTypeOK, ExtendedInv, Pending
  <2>3. taskStatus[t] = "timer" =>
          \E r \in Requests : t \in callbacks[r] /\ r \in Pending \cup reported
    BY <2>1 DEF TaskInv, CallbacksInv, Pending
  <2>4. QED
    BY <2>2, <2>3
<1>2. QED
  BY <1>1, TaskInvHolds, PTL

=============================================================================
