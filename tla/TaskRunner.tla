------------------------------ MODULE TaskRunner ------------------------------
(***************************************************************************)
(* Background tasks and after-response work: TaskService with its task     *)
(* runner, the registry of after-response callbacks that each HTTP request *)
(* owns, and the platform's waitUntil().  The lifecycle manager is reduced *)
(* to what the runner sees of it: its guard, then its shutdown() hook,     *)
(* with the hooks of the services registered after it in between.          *)
(*                                                                         *)
(* A task is one call of run(), runAndWait() or afterResponse().           *)
(***************************************************************************)
CONSTANTS Tasks, Requests

VARIABLES
  mode,               \* contextRuntime.mode, fixed when the runtime is created
  shutdownRequested,
  activeTasks,
  taskStatus,         \* where each task is
  waited,             \* the tasks that runAndWait() started
  request,            \* where each request is; "flushing": its flush promise is pending
  callbacks,          \* registered callbacks of each request that have not completed
  extended,           \* promises handed to waitUntil(): a task's, or a request's flush
  reported,           \* what onFailure or onAfterResponseError was told of
  stop,               \* how far the lifecycle manager's shutdown is with the runner
  inTask,             \* whether the shutdown runs in the context of a task
  draining,           \* the tasks whose settling the shutdown() hook awaits
  joined              \* the running tasks that await the shutdown of the runtime

taskVars == <<mode, shutdownRequested, activeTasks, taskStatus, waited, request, callbacks,
              extended, reported, stop, inTask, draining, joined>>

(* The tasks that the runner has accepted and not finished with.           *)
InRunner == {t \in Tasks : taskStatus[t] \in {"queued", "running", "settled"}}

(* The types; and activeTasks, the set that shutdown() awaits, holds those *)
(* tasks and keeps none that is over.                                      *)
TaskTypeOK ==
  /\ mode \in {"sync", "async"}
  /\ shutdownRequested \in BOOLEAN
  /\ activeTasks = InRunner
  /\ taskStatus \in [Tasks -> {"new", "deferred", "timer", "queued", "running", "settled",
                           "done", "dropped"}]
  /\ waited \subseteq Tasks
  /\ request \in [Requests -> {"new", "open", "flushing", "flushed"}]
  /\ callbacks \in [Requests -> SUBSET Tasks]
  /\ extended \subseteq Tasks \cup Requests
  /\ reported \subseteq Tasks \cup Requests
  /\ stop \in {"none", "others", "draining", "stopped", "failed"}
  /\ inTask \in BOOLEAN
  /\ draining \subseteq Tasks
  /\ joined \subseteq Tasks

TaskInit ==
  /\ mode \in {"sync", "async"}
  /\ shutdownRequested = FALSE
  /\ activeTasks = {}
  /\ taskStatus = [t \in Tasks |-> "new"]
  /\ waited = {}
  /\ request = [r \in Requests |-> "new"]
  /\ callbacks = [r \in Requests |-> {}]
  /\ extended = {}
  /\ reported = {}
  /\ stop = "none"
  /\ inTask = FALSE
  /\ draining = {}
  /\ joined = {}

-----------------------------------------------------------------------------
(* Starting tasks *)

(* waitUntil(p), which the platform may refuse by throwing.                *)
WaitUntil(p) ==
  \/ extended' = extended \cup {p} /\ UNCHANGED reported
  \/ reported' = reported \cup {p} /\ UNCHANGED extended

(* Mutant of Accept: assertRunning() is left out.                          *)
AcceptAlways(t) ==
  /\ taskStatus' = [taskStatus EXCEPT ![t] = "queued"]
  /\ activeTasks' = activeTasks \cup {t}
  /\ WaitUntil(t)

(* run(), past assertRunning().                                            *)
Accept(t) ==
  /\ ~shutdownRequested
  /\ taskStatus' = [taskStatus EXCEPT ![t] = "queued"]
  /\ activeTasks' = activeTasks \cup {t}
  /\ WaitUntil(t)

(* TaskService.run(), and afterResponse() outside a request or in the      *)
(* context of one whose callbacks were flushed.                            *)
Run(t) ==
  /\ taskStatus[t] = "new"
  /\ Accept(t)
  /\ UNCHANGED <<mode, shutdownRequested, waited, request, callbacks, stop, inTask, draining,
                 joined>>

RunAndWait(t) ==
  /\ taskStatus[t] = "new"
  /\ ~shutdownRequested
  /\ taskStatus' = [taskStatus EXCEPT ![t] = "queued"]
  /\ activeTasks' = activeTasks \cup {t}
  /\ waited' = waited \cup {t}
  /\ UNCHANGED <<mode, shutdownRequested, request, callbacks, extended, reported, stop,
                 inTask, draining, joined>>

(* afterResponse() in the context of a request whose response is not done: *)
(* accepted in any state of the runner.                                    *)
AfterResponse(t, r) ==
  /\ taskStatus[t] = "new"
  /\ request[r] = "open"
  /\ taskStatus' = [taskStatus EXCEPT ![t] = "deferred"]
  /\ callbacks' = [callbacks EXCEPT ![r] = @ \cup {t}]
  /\ UNCHANGED <<mode, shutdownRequested, activeTasks, waited, request, extended, reported,
                 stop, inTask, draining, joined>>

-----------------------------------------------------------------------------
(* Requests *)

(* The bootstrap middleware gives a request its registry.                  *)
OpenRequest(r) ==
  /\ request[r] = "new"
  /\ request' = [request EXCEPT ![r] = "open"]
  /\ UNCHANGED <<mode, shutdownRequested, activeTasks, taskStatus, waited, callbacks, extended,
                 reported, stop, inTask, draining, joined>>

(* Mutant of Flush: only a handler that succeeds reaches the flush.        *)
FlushOnSuccess(r) ==
  /\ request[r] = "open"
  /\ \/ /\ request' = [request EXCEPT ![r] = "flushing"]
        /\ taskStatus' = [t \in Tasks |-> IF t \in callbacks[r] THEN "timer" ELSE taskStatus[t]]
        /\ WaitUntil(r)
     \/ /\ request' = [request EXCEPT ![r] = "flushed"]
        /\ UNCHANGED <<taskStatus, extended, reported>>
  /\ UNCHANGED <<mode, shutdownRequested, activeTasks, waited, callbacks, stop, inTask,
                 draining, joined>>

(* The rest of the chain settled, one way or the other: every callback     *)
(* gets a timer of its own and the flush promise goes to waitUntil().      *)
Flush(r) ==
  /\ request[r] = "open"
  /\ request' = [request EXCEPT ![r] = "flushing"]
  /\ taskStatus' = [t \in Tasks |-> IF t \in callbacks[r] THEN "timer" ELSE taskStatus[t]]
  /\ WaitUntil(r)
  /\ UNCHANGED <<mode, shutdownRequested, activeTasks, waited, callbacks, stop, inTask,
                 draining, joined>>

(* A callback's timer fires: it calls run(), whose error is reported.      *)
TimerFires(r, t) ==
  /\ t \in callbacks[r]
  /\ taskStatus[t] = "timer"
  /\ callbacks' = [callbacks EXCEPT ![r] = @ \ {t}]
  /\ \/ Accept(t)
     \/ /\ shutdownRequested
        /\ taskStatus' = [taskStatus EXCEPT ![t] = "dropped"]
        /\ reported' = reported \cup {t}
        /\ UNCHANGED <<activeTasks, extended>>
  /\ UNCHANGED <<mode, shutdownRequested, waited, request, stop, inTask, draining, joined>>

(* Mutant of FlushSettles: the completions are not awaited.                *)
FlushSettlesEarly(r) ==
  /\ request[r] = "flushing"
  /\ request' = [request EXCEPT ![r] = "flushed"]
  /\ UNCHANGED <<mode, shutdownRequested, activeTasks, taskStatus, waited, callbacks, extended,
                 reported, stop, inTask, draining, joined>>

(* All callbacks of the request have completed.                            *)
FlushSettles(r) ==
  /\ request[r] = "flushing"
  /\ callbacks[r] = {}
  /\ request' = [request EXCEPT ![r] = "flushed"]
  /\ UNCHANGED <<mode, shutdownRequested, activeTasks, taskStatus, waited, callbacks, extended,
                 reported, stop, inTask, draining, joined>>

-----------------------------------------------------------------------------
(* A task in the runner *)

TaskStarts(t) ==
  /\ taskStatus[t] = "queued"
  /\ taskStatus' = [taskStatus EXCEPT ![t] = "running"]
  /\ UNCHANGED <<mode, shutdownRequested, activeTasks, waited, request, callbacks, extended,
                 reported, stop, inTask, draining, joined>>

(* The task's own promise settles; a failure is reported unless the caller *)
(* of runAndWait() gets it.                                                *)
TaskSettles(t) ==
  /\ taskStatus[t] = "running"
  /\ t \notin joined
  /\ taskStatus' = [taskStatus EXCEPT ![t] = "settled"]
  /\ reported' \in IF t \in waited THEN {reported} ELSE {reported, reported \cup {t}}
  /\ UNCHANGED <<mode, shutdownRequested, activeTasks, waited, request, callbacks, extended,
                 stop, inTask, draining, joined>>

(* Mutant of TaskForgotten: the task stays in activeTasks.                 *)
TaskKept(t) ==
  /\ taskStatus[t] = "settled"
  /\ taskStatus' = [taskStatus EXCEPT ![t] = "done"]
  /\ UNCHANGED <<mode, shutdownRequested, activeTasks, waited, request, callbacks, extended,
                 reported, stop, inTask, draining, joined>>

(* The .finally() of the active task.                                      *)
TaskForgotten(t) ==
  /\ taskStatus[t] = "settled"
  /\ taskStatus' = [taskStatus EXCEPT ![t] = "done"]
  /\ activeTasks' = activeTasks \ {t}
  /\ UNCHANGED <<mode, shutdownRequested, waited, request, callbacks, extended, reported,
                 stop, inTask, draining, joined>>

-----------------------------------------------------------------------------
(* Shutdown *)

(* assertCanShutdown(), called inside the context of a task or outside.    *)
CanStop(inside) ==
  /\ ~inside
  /\ mode = "sync" => activeTasks = {}

(* The lifecycle manager passed its guards and stops, one by one, the      *)
(* services registered after the runner; a refused call changes nothing.   *)
(* A caller that is a running task awaits the outcome.                     *)
BeginStop(callers) ==
  /\ stop = "none"
  /\ CanStop(callers # {})
  /\ stop' = "others"
  /\ inTask' = (callers # {})
  /\ joined' = callers
  /\ UNCHANGED <<mode, shutdownRequested, activeTasks, taskStatus, waited, request, callbacks,
                 extended, reported, draining>>

(* A service that was started late cannot start: failStartup() stops all   *)
(* services without asking the guards, in the context of the caller that   *)
(* started the batch, which awaits it.                                     *)
BeginRollback(callers) ==
  /\ stop = "none"
  /\ stop' = "others"
  /\ inTask' = (callers # {})
  /\ joined' = callers
  /\ UNCHANGED <<mode, shutdownRequested, activeTasks, taskStatus, waited, request, callbacks,
                 extended, reported, draining>>

(* shutdown() of the runner; its assertCanShutdown() asks once more, and   *)
(* the lifecycle manager goes on without the runner if it throws.          *)
StopRunner ==
  /\ stop = "others"
  /\ IF CanStop(inTask)
     THEN /\ shutdownRequested' = TRUE
          /\ draining' = activeTasks
          /\ stop' = "draining"
          /\ UNCHANGED joined
     ELSE /\ stop' = "failed"
          /\ joined' = {}
          /\ UNCHANGED <<shutdownRequested, draining>>
  /\ UNCHANGED <<mode, activeTasks, taskStatus, waited, request, callbacks, extended, reported,
                 inTask>>

(* Promise.allSettled() over the tasks that were active is fulfilled.      *)
Drained ==
  /\ stop = "draining"
  /\ draining \cap activeTasks = {}
  /\ stop' = "stopped"
  /\ joined' = {}
  /\ UNCHANGED <<mode, shutdownRequested, activeTasks, taskStatus, waited, request, callbacks,
                 extended, reported, inTask, draining>>

(* A running task calls runtime.shutdown() while a shutdown is under way:  *)
(* it gets the shared promise, without a guard.  Or it is found to await   *)
(* the batch, started by someone else, that is being rolled back.          *)
JoinShutdown(t) ==
  /\ stop \in {"others", "draining"}
  /\ taskStatus[t] = "running"
  /\ joined' = joined \cup {t}
  /\ UNCHANGED <<mode, shutdownRequested, activeTasks, taskStatus, waited, request, callbacks,
                 extended, reported, stop, inTask, draining>>

-----------------------------------------------------------------------------

(* Who begins a stop: code outside all tasks, or a running task.           *)
StopCallers == {{}} \cup {{t} : t \in {u \in Tasks : taskStatus[u] = "running"}}

(* No late service fails to start and no task joins a stop.                *)
ShutdownNext ==
  \/ \E t \in Tasks :
       \/ Run(t)
       \/ RunAndWait(t)
       \/ TaskStarts(t)
       \/ TaskSettles(t)
       \/ TaskForgotten(t)
       \/ \E r \in Requests : AfterResponse(t, r) \/ TimerFires(r, t)
  \/ \E r \in Requests : OpenRequest(r) \/ Flush(r) \/ FlushSettles(r)
  \/ \E callers \in StopCallers : BeginStop(callers)
  \/ StopRunner
  \/ Drained

TaskNext ==
  \/ ShutdownNext
  \/ \E callers \in StopCallers : BeginRollback(callers)
  \/ \E t \in Tasks : JoinShutdown(t)

(* Timers fire and promise reactions run; handlers, tasks and the hooks of *)
(* other services settle.                                                  *)
TaskFairness ==
  /\ \A t \in Tasks :
       /\ WF_taskVars(TaskStarts(t))
       /\ WF_taskVars(TaskSettles(t))
       /\ WF_taskVars(TaskForgotten(t))
       /\ \A r \in Requests : WF_taskVars(TimerFires(r, t))
  /\ \A r \in Requests : WF_taskVars(Flush(r)) /\ WF_taskVars(FlushSettles(r))
  /\ WF_taskVars(StopRunner)
  /\ WF_taskVars(Drained)

TaskSpec == TaskInit /\ [][TaskNext]_taskVars /\ TaskFairness

ShutdownSpec == TaskInit /\ [][ShutdownNext]_taskVars

-----------------------------------------------------------------------------
(* Properties *)

(* When the shutdown() hook of the runner has fulfilled, no task is left   *)
(* in it and none can enter: services stopped later are not used by tasks. *)
StoppedMeansIdle == stop = "stopped" => activeTasks = {} /\ InRunner = {} /\ shutdownRequested

(* The promises that keep the platform alive.                              *)
Pending ==
  {r \in extended \cap Requests : request[r] = "flushing"} \cup (extended \cap activeTasks)

(* From the end of the response to the end of the last task, the platform  *)
(* holds a pending promise for every task it must wait for, also between   *)
(* the callback's timer and the task; what it refused was reported.        *)
WindowCoversTasks ==
  \A t \in Tasks :
    /\ t \in InRunner \ waited => t \in Pending \cup reported
    /\ taskStatus[t] = "timer" =>
         \E r \in Requests : t \in callbacks[r] /\ r \in Pending \cup reported

(* A task awaits its own drain: it called runtime.shutdown() when a stop   *)
(* that others began was under way, and got the shared promise.            *)
Entangled == stop = "draining" /\ ~inTask /\ joined \cap draining # {}

(* What afterResponse() accepted runs to its end or is reported as lost to *)
(* a shutdown, also when the handler fails; and a stop that passed its     *)
(* guards comes to its end, for no task that it waits for waits for it.    *)
(* Unless a task joins a stop that is under way, which no guard prevents.  *)
TasksSettle ==
  /\ \A t \in Tasks : taskStatus[t] = "deferred" ~>
       taskStatus[t] \in {"done", "dropped"} \/ (t \in joined /\ Entangled)
  /\ stop = "others" ~> stop \in {"stopped", "failed"} \/ Entangled

(* After the shutdown hook was called, however it ended, the runner takes  *)
(* no more tasks.                                                          *)
ClosedOnceStopped == stop \in {"stopped", "failed"} => shutdownRequested
=============================================================================
