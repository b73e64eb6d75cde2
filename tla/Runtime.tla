-------------------------------- MODULE Runtime --------------------------------
(***************************************************************************)
(* A runtime of the application: createRuntime() boots it, get() resolves  *)
(* services lazily, shutdown() runs the "before" callbacks, stops the      *)
(* services through the lifecycle manager and runs the "after" callbacks.  *)
(* The module composes AppBootstrap, RuntimeShutdownService and the        *)
(* FeatureRegistryService with the LifecycleManager they drive.            *)
(***************************************************************************)
EXTENDS LifecycleManager

CONSTANTS
  Boot,       \* the caller that is createRuntime(); the others call get()
  Callbacks   \* the registrations made with registerShutdown()

ASSUME RuntimeAssumption == Boot \in Callers

VARIABLES
  boot,      \* where initializeRuntimeFeatures() is
  app,       \* AppBootstrap.state
  readyP,    \* AppBootstrap.readyPromise
  registry,  \* FeatureRegistryService.lifecycle.state
  phase,     \* where runShutdown() is; "none": shutdownState.promise is undefined
  cb,        \* each callback: in a set, running or done
  overlap,   \* history: the lifecycle manager was shut down in the middle of a batch
  hookJoins  \* the running startup() hook awaits shutdown()

appVars == <<boot, app, readyP, registry, phase, cb>>
runtimeVars == <<appVars, overlap, hookJoins>>
vars == <<lifecycleVars, runtimeVars>>

RuntimeTypeOK ==
  /\ TypeOK
  /\ boot \in {"new", "configs", "realizing", "readying", "cleanup", "ready", "failed"}
  /\ app \in {"idle", "starting", "ready", "disposed"}
  /\ readyP \in {"none", "pending", "fulfilled", "rejected"}
  /\ registry \in {"pending", "ready", "disposed"}
  /\ phase \in {"none", "scheduled", "before", "awaitReady", "stopping", "after", "refused", "done"}
  /\ cb \in [Callbacks -> {"none", "before", "after", "inBefore", "inAfter", "alone", "done"}]
  /\ overlap \in BOOLEAN
  /\ hookJoins \in BOOLEAN /\ (hookJoins => batch = "starting" /\ phase # "none")

RuntimeInit ==
  /\ LifecycleInit
  /\ boot = "new"
  /\ app = "idle"
  /\ readyP = "none"
  /\ registry = "pending"
  /\ phase = "none"
  /\ cb = [k \in Callbacks |-> "none"]
  /\ overlap = FALSE /\ hookJoins = FALSE

-----------------------------------------------------------------------------
(* Shutdown *)

(* RuntimeShutdownService.shutdown(): ??= shares the promise.              *)
RequestShutdown == phase' = IF phase = "none" THEN "scheduled" ELSE phase

(* shutdown() called on the runtime, or by a config, a feature or a service*)
(* that injects it, as soon as the first of them is constructed.           *)
CallShutdown ==
  /\ boot # "new" /\ app # "disposed"
  /\ RequestShutdown
  /\ UNCHANGED <<lifecycleVars, boot, app, readyP, registry, cb, overlap, hookJoins>>

(* The startup hook that runs calls shutdown() and awaits it.              *)
HookJoins ==
  /\ batch = "starting" /\ phase # "done"
  /\ RequestShutdown
  /\ hookJoins' = TRUE
  /\ UNCHANGED <<lifecycleVars, boot, app, readyP, registry, cb, overlap>>

(* runShutdownCallbacks(): all callbacks of a set are taken from it and    *)
(* called at once.                                                         *)
RunAll(set, in) == cb' = [k \in Callbacks |-> IF cb[k] = set THEN in ELSE cb[k]]

(* runShutdown() up to its first await.                                    *)
BeginShutdown ==
  /\ phase = "scheduled"
  /\ IF CanShutdown
     THEN phase' = "before" /\ RunAll("before", "inBefore")
     ELSE phase' = "refused" /\ UNCHANGED cb
  /\ UNCHANGED <<lifecycleVars, boot, app, readyP, registry, overlap, hookJoins>>

(* A running callback settles, rejected or not.                            *)
CallbackSettled(k) ==
  /\ cb[k] \in {"inBefore", "inAfter", "alone"}
  /\ cb' = [cb EXCEPT ![k] = "done"]
  /\ UNCHANGED <<lifecycleVars, boot, app, readyP, registry, phase, overlap, hookJoins>>

(* The handle that registerShutdown() returned is called by its owner.     *)
RunHandle(k) ==
  /\ cb[k] \in {"before", "after"}
  /\ cb' = [cb EXCEPT ![k] = "alone"]
  /\ UNCHANGED <<lifecycleVars, boot, app, readyP, registry, phase, overlap, hookJoins>>

(* Mutant of RegisterShutdown: a shutdown under way is not looked at.      *)
RegisterShutdownLate(k, set) ==
  /\ app # "disposed"
  /\ cb[k] = "none"
  /\ cb' = [cb EXCEPT ![k] = set]
  /\ UNCHANGED <<lifecycleVars, boot, app, readyP, registry, phase, overlap, hookJoins>>

(* registerShutdown(): only while no shutdown is under way.                *)
RegisterShutdown(k, set) ==
  /\ app # "disposed" /\ phase = "none"
  /\ cb[k] = "none"
  /\ cb' = [cb EXCEPT ![k] = set]
  /\ UNCHANGED <<lifecycleVars, boot, app, readyP, registry, phase, overlap, hookJoins>>

ShutDownManager == Shutdown /\ overlap' = (batch # "none")

(* Mutant of DisposeApp: the state is set before the guards are asked.     *)
DisposeAppFirst ==
  /\ app' = "disposed"
  /\ IF CanShutdown THEN phase' = "stopping" /\ ShutDownManager
     ELSE phase' = "refused" /\ UNCHANGED <<lifecycleVars, overlap>>

(* AppBootstrap.shutdown() after the ready promise: the guards are asked   *)
(* again, then the lifecycle manager is shut down.                         *)
DisposeApp ==
  IF CanShutdown
  THEN app' = "disposed" /\ phase' = "stopping" /\ ShutDownManager
  ELSE phase' = "refused" /\ UNCHANGED <<lifecycleVars, app, overlap>>

(* The before callbacks have settled: AppBootstrap.shutdown() is called.   *)
BeforeDone ==
  /\ phase = "before"
  /\ \A k \in Callbacks : cb[k] # "inBefore"
  /\ IF readyP = "none" THEN DisposeApp
     ELSE phase' = "awaitReady" /\ UNCHANGED <<lifecycleVars, app, overlap>>
  /\ UNCHANGED <<boot, readyP, registry, cb, hookJoins>>

(* Mutant of ReadySettled: readyPromise is not awaited.                    *)
ReadyNotAwaited ==
  /\ phase = "awaitReady"
  /\ DisposeApp
  /\ UNCHANGED <<boot, readyP, registry, cb, hookJoins>>

(* AppBootstrap.shutdown() goes on once readyPromise settled.              *)
ReadySettled ==
  /\ phase = "awaitReady"
  /\ readyP # "pending"
  /\ DisposeApp
  /\ UNCHANGED <<boot, readyP, registry, cb, hookJoins>>

(* Mutant of ServicesStopped: the lifecycle manager is not awaited.        *)
ServicesNotAwaited ==
  /\ phase = "stopping"
  /\ phase' = "after"
  /\ RunAll("after", "inAfter")
  /\ UNCHANGED <<lifecycleVars, boot, app, readyP, registry, overlap, hookJoins>>

(* The lifecycle manager has shut down: the after callbacks are called.    *)
ServicesStopped ==
  /\ phase = "stopping"
  /\ shutdownPc = "done"
  /\ phase' = "after"
  /\ RunAll("after", "inAfter")
  /\ UNCHANGED <<lifecycleVars, boot, app, readyP, registry, overlap, hookJoins>>

(* Mutant of ShutdownFinally: the promise of a refused shutdown is kept.   *)
FinallyKeepsPromise ==
  /\ phase = "after" /\ \A k \in Callbacks : cb[k] # "inAfter"
  /\ phase' = "done" /\ registry' = "disposed"
  /\ boot' = IF boot = "cleanup" THEN "failed" ELSE boot
  /\ hookJoins' = FALSE
  /\ UNCHANGED <<lifecycleVars, app, readyP, cb, overlap>>

(* The .finally() of shutdown(), which also settles the cleanup of a       *)
(* createRuntime() and the startup hook that await it.                     *)
ShutdownFinally ==
  /\ \/ phase = "refused"
     \/ phase = "after" /\ \A k \in Callbacks : cb[k] # "inAfter"
  /\ IF app = "disposed" THEN phase' = "done" /\ registry' = "disposed"
     ELSE phase' = "none" /\ UNCHANGED registry
  /\ boot' = IF boot = "cleanup" THEN "failed" ELSE boot
  /\ hookJoins' = FALSE
  /\ UNCHANGED <<lifecycleVars, app, readyP, cb, overlap>>

-----------------------------------------------------------------------------
(* createRuntime() *)

(* Construction registers any number of lifecycles.                        *)
Construct == count' \in count..MaxEntries

(* A step of initializeRuntimeFeatures() throws: its catch calls shutdown. *)
Fail ==
  /\ boot' = "cleanup"
  /\ RequestShutdown
  /\ UNCHANGED <<app, readyP, registry, cb, overlap, hookJoins>>

(* prepareConfigs() up to its await.                                       *)
PrepareConfigs ==
  /\ boot = "new"
  /\ Construct
  /\ StartupPendingCall(Boot, FALSE)
  /\ boot' = "configs"
  /\ UNCHANGED <<app, readyP, registry, phase, cb, overlap, hookJoins>>

(* The configs started: the features are realized, which constructs        *)
(* services but defers their startup.                                      *)
Realize ==
  /\ boot = "configs" /\ pc[Boot] = "returned"
  /\ boot' = "realizing"
  /\ Construct
  /\ UNCHANGED <<startedIndex, disposed, batch, cur, stopping, shutdownPc, ready, pc, awaited,
                 refusing, status, starts, stops, app, readyP, registry, phase, cb,
                 overlap, hookJoins>>

(* Everything is published and warmed up: activate() and ready() run up to *)
(* the await of the startup; ready() throws if a shutdown was faster.      *)
Activate ==
  /\ boot = "realizing"
  /\ registry' = "ready"
  /\ IF app = "disposed"
     THEN /\ boot' = "cleanup" /\ RequestShutdown
          /\ UNCHANGED <<lifecycleVars, app, readyP>>
     ELSE /\ boot' = "readying" /\ app' = "starting" /\ readyP' = "pending"
          /\ StartupPending(Boot, FALSE)
          /\ UNCHANGED phase
  /\ UNCHANGED <<cb, overlap, hookJoins>>

(* doReady() after its await.                                              *)
DoReady ==
  /\ boot = "readying" /\ readyP = "pending"
  /\ pc[Boot] \in {"returned", "threw"}
  /\ IF pc[Boot] = "returned" /\ app # "disposed"
     THEN app' = "ready" /\ readyP' = "fulfilled"
     ELSE readyP' = "rejected" /\ UNCHANGED app
  /\ UNCHANGED <<lifecycleVars, boot, registry, phase, cb, overlap, hookJoins>>

(* createRuntime() resolves.                                               *)
BootReady ==
  /\ boot = "readying" /\ readyP = "fulfilled"
  /\ boot' = "ready"
  /\ UNCHANGED <<lifecycleVars, app, readyP, registry, phase, cb, overlap, hookJoins>>

(* A config or feature cannot be constructed or realized, a config's       *)
(* startup failed, or ready() rejected.                                    *)
BootFails ==
  /\ \/ boot \in {"new", "realizing"}
     \/ boot = "configs" /\ pc[Boot] = "threw"
     \/ boot = "readying" /\ readyP = "rejected"
  /\ Fail
  /\ UNCHANGED lifecycleVars

(* The shutdown that the cleanup shares had completed before.              *)
CleanedUp ==
  /\ boot = "cleanup" /\ phase = "done"
  /\ boot' = "failed"
  /\ UNCHANGED <<lifecycleVars, app, readyP, registry, phase, cb, overlap, hookJoins>>

-----------------------------------------------------------------------------
(* get() *)

(* get() resolves the class, which constructs what is missing, and once    *)
(* the app is ready starts it before returning it.  Until then only code   *)
(* that runs inside the startup batch gets services, which the batch owns. *)
Get(g) ==
  /\ app = "ready" \/ (app = "starting" /\ batch = "starting")
  /\ pc[g] \notin {"waiting", "resumed"}
  /\ Construct
  /\ IF app = "ready"
     THEN StartupPendingCall(g, FALSE)
     ELSE UNCHANGED <<startedIndex, disposed, batch, cur, stopping, shutdownPc, ready, pc,
                      awaited, refusing, status, starts, stops>>
  /\ UNCHANGED runtimeVars

Getters == Callers \ {Boot}

(* The running startup() hook settles, but not while it awaits shutdown(). *)
StartupHook ==
  ~hookJoins /\ (HookFailed \/ SealFailed \/ \E object \in BOOLEAN : HookStarted(object))

(* What the lifecycle manager does by itself.                              *)
Lifecycles ==
  /\ \/ \E i \in Guarded : ToggleGuard(i)
     \/ \E c \in Callers : Resume(c)
     \/ StartupHook
     \/ BatchFinally
     \/ \E p \in Stoppers : StopHookSettled(p)
  /\ UNCHANGED runtimeVars

CreateRuntime ==
  PrepareConfigs \/ Realize \/ Activate \/ DoReady \/ BootReady \/ BootFails \/ CleanedUp

RunShutdown ==
  BeginShutdown \/ BeforeDone \/ ReadySettled \/ ServicesStopped \/ ShutdownFinally

RuntimeNext ==
  \/ CreateRuntime
  \/ CallShutdown \/ HookJoins
  \/ RunShutdown
  \/ \E k \in Callbacks :
       \/ CallbackSettled(k)
       \/ RunHandle(k)
       \/ \E set \in {"before", "after"} : RegisterShutdown(k, set)
  \/ \E g \in Getters : Get(g)
  \/ Lifecycles

(* Its fairness is stated where it is run with a server, in Servers.       *)
RuntimeSpec == RuntimeInit /\ [][RuntimeNext]_vars

-----------------------------------------------------------------------------
(* Properties *)

InMotion == {"starting", "up", "stopping"}

(* The composition gives the lifecycle manager the environment that its    *)
(* specification assumes: shutdown() does not overlap a startup batch, as  *)
(* AppBootstrap.shutdown() awaits readyPromise, unless the batch is that   *)
(* of a get() on the runtime that became ready, or that of the configs,    *)
(* which a shutdown before ready() does not await.                         *)
UsesManagerSerially ==
  /\ LifecycleInit
  /\ [][Next \/ (overlap' /\ (overlap \/ \E c \in Callers : pc[c] = "waiting"
                                           /\ (c = Boot => boot = "configs")))]_lifecycleVars

AfterPhaseServicesStopped ==
  \A k \in Callbacks : cb[k] = "inAfter" => \A i \in Entries : status[i] \notin InMotion

(* On a runtime that createRuntime() handed out, an after callback runs    *)
(* only after all services have stopped, as feature-injection.md:109 says. *)
(* The code breaks it when a get() and a shutdown() overlap.               *)
AfterPhaseOfReadyRuntime == boot = "ready" => AfterPhaseServicesStopped

(* An after callback runs only after all services have stopped, on any     *)
(* runtime and one that did not become ready, unless the shutdown met the  *)
(* startup batch of a get() or of the configs.                             *)
AfterPhaseIsLast == ~overlap => AfterPhaseServicesStopped

(* Services begin to stop only when no before callback is left to run, in  *)
(* the set or called by the shutdown and unsettled.                        *)
BeforePhasePrecedesStop ==
  stopping["shutdown"] # 0 => \A k \in Callbacks : cb[k] \notin {"before", "inBefore"}

(* The phases of a shutdown follow each other: the before callbacks, the   *)
(* services, the after callbacks.                                          *)
PhasesInOrder == BeforePhasePrecedesStop /\ AfterPhaseIsLast

(* Injected feature handles can be used for as long as a service of a      *)
(* runtime that became ready runs or is being stopped, if the shutdown did *)
(* not overlap a get().                                                    *)
HandlesUsableUntilStopped ==
  readyP = "fulfilled" /\ ~overlap /\ (\E i \in Entries : status[i] \in {"up", "stopping"})
    => registry = "ready"

(* No callback that registerShutdown() accepted is forgotten by a shutdown *)
(* that completed.                                                         *)
NoCallbackForgotten ==
  phase = "done" => \A k \in Callbacks : cb[k] \notin {"before", "after"}

(* A refused shutdown leaves the runtime usable: nothing is stopped and    *)
(* the after callbacks are kept for the shutdown that succeeds.            *)
RefusedLeavesUsable ==
  phase = "refused" =>
    /\ app # "disposed" /\ registry # "disposed" /\ shutdownPc = "none"
    /\ \A k \in Callbacks : cb[k] # "inAfter"

(* A shutdown that completed leaves no usable handle to a feature behind,  *)
(* unless the creation of the runtime fails, as it was faster than that.   *)
DisposedIsUnusable == phase = "done" /\ boot \notin {"cleanup", "failed"} => registry # "ready"

(* The runtime is usable for as long as it may be used: by services until  *)
(* they are stopped, and by everybody after a refusal.                     *)
UsableWhileNeeded == HandlesUsableUntilStopped /\ RefusedLeavesUsable /\ DisposedIsUnusable

(* A hook of the startup that ready() runs awaits the shutdown, which      *)
(* awaits ready().                                                         *)
AwaitsItself == hookJoins /\ readyP = "pending"

(* Every shutdown that does not overlap a get() completes or is refused.   *)
ShutdownSettles == phase # "none" ~> phase \in {"none", "done"} \/ overlap \/ AwaitsItself

(* createRuntime() resolves or rejects.                                    *)
CreationSettles == boot = "new" ~> boot \in {"ready", "failed"} \/ overlap \/ AwaitsItself

(* Creation and shutdown settle.                                           *)
RuntimeSettles == ShutdownSettles /\ CreationSettles

=============================================================================
