-------------------------- MODULE LifecycleManager --------------------------
(***************************************************************************)
(* The lifecycle manager of the kernel: it starts the registered           *)
(* lifecycles one at a time in registration order, shares one startup      *)
(* batch between all concurrent callers of startupPending(), rolls back on *)
(* failure and stops what it started in reverse order on shutdown().       *)
(*                                                                         *)
(* An action is what the event loop runs between two awaits.  An entry is  *)
(* its position in the `lifecycles` array, counted from 1, so that entry   *)
(* i is the one the code reaches with index i - 1 and `startedIndex` is    *)
(* the number of entries the manager believes to be started.               *)
(***************************************************************************)
EXTENDS Naturals

CONSTANTS
  MaxEntries,  \* bound on the number of register() calls
  Callers,     \* concurrent callers of startup() and startupPending()
  Guarded,     \* the entries that have an assertCanShutdown() guard
  ContextLost  \* the entries whose startup() calls without its ambient context

(* A startup() hook may call startupPending() itself.  In async mode it    *)
(* does so in the ambient context of its batch.  In sync mode that context *)
(* ends at the first await (docs: website/docs/async-context.md:15): it is *)
(* gone for all hooks but the first of a batch, and for that one after its *)
(* own first await.                                                        *)
ASSUME LifecycleAssumption ==
  /\ MaxEntries \in Nat
  /\ Guarded \subseteq 1..MaxEntries
  /\ ContextLost \subseteq 1..MaxEntries

Entries == 1..MaxEntries

(* Who runs stopStartedLifecycles(): a failed startup, or shutdown().      *)
Stoppers == {"rollback", "shutdown"}

VARIABLES
  count,         \* lifecycles.length
  startedIndex,
  disposed,
  batch,         \* where startPendingLifecycles() is; "none": startupPromise is undefined
  cur,           \* the entry whose startup() the batch called last, 0 without a batch
  stopping,      \* stopping[p]: the entry whose shutdown() the stopper p awaits, or 0
  shutdownPc,    \* shutdown(): "none" (shutdownPromise undefined), "stopping" or "done"
  ready,         \* state of each entry's ReadyValue
  pc,            \* where each caller of startupPending() is
  awaited,       \* callers the running startup() hook waits for before it settles
  refusing,      \* the guarded entries whose assertCanShutdown() throws now
  status,        \* the resource of each entry, as the last hook call left it
  starts, stops  \* history: calls of each entry's startup() and shutdown(), 2 for more

lifecycleVars == <<count, startedIndex, disposed, batch, cur, stopping, shutdownPc,
                   ready, pc, awaited, refusing, status, starts, stops>>

-----------------------------------------------------------------------------

TypeOK ==
  /\ count \in 0..MaxEntries
  /\ startedIndex \in 0..MaxEntries
  /\ disposed \in BOOLEAN
  /\ batch \in {"none", "starting", "rollback", "drained", "failed"}
  /\ cur \in 0..MaxEntries
  /\ stopping \in [Stoppers -> 0..MaxEntries]
  /\ shutdownPc \in {"none", "stopping", "done"}
  /\ ready \in [Entries -> {"pending", "ready", "disposed"}]
  /\ pc \in [Callers -> {"idle", "waiting", "resumed", "returned", "reentered", "threw"}]
  /\ awaited \subseteq Callers
  /\ refusing \subseteq Guarded
  /\ status \in [Entries -> {"new", "starting", "up", "failed", "stopping", "down"}]
  /\ starts \in [Entries -> 0..2]
  /\ stops \in [Entries -> 0..2]

LifecycleInit ==
  /\ count = 0
  /\ startedIndex = 0
  /\ disposed = FALSE
  /\ batch = "none"
  /\ cur = 0
  /\ stopping = [p \in Stoppers |-> 0]
  /\ shutdownPc = "none"
  /\ ready = [i \in Entries |-> "pending"]
  /\ pc = [c \in Callers |-> "idle"]
  /\ awaited = {}
  /\ refusing = {}
  /\ status = [i \in Entries |-> "new"]
  /\ starts = [i \in Entries |-> 0]
  /\ stops = [i \in Entries |-> 0]

OnceMore(f, i) == [f EXCEPT ![i] = IF @ = 0 THEN 1 ELSE 2]

-----------------------------------------------------------------------------
(* Registration and guards *)

(* register(): appends, whatever state the manager is in; a constructor    *)
(* that resolves its dependencies registers several entries in one turn.   *)
Register ==
  /\ count' \in (count + 1)..MaxEntries
  /\ UNCHANGED <<startedIndex, disposed, batch, cur, stopping, shutdownPc, ready, pc,
                 awaited, refusing, status, starts, stops>>

(* A guard starts or stops to refuse: the hook's own affair.               *)
ToggleGuard(i) ==
  /\ refusing' = IF i \in refusing THEN refusing \ {i} ELSE refusing \cup {i}
  /\ UNCHANGED <<count, startedIndex, disposed, batch, cur, stopping, shutdownPc, ready,
                 pc, awaited, status, starts, stops>>

(* assertCanShutdown(): only the entries counted as started are asked, and *)
(* none once the manager is disposed.                                      *)
CanShutdown == disposed \/ \A i \in 1..startedIndex : i \notin refusing

-----------------------------------------------------------------------------
(* The startup batch *)

(* startPendingLifecycles() from the top of its loop, with `idx` entries   *)
(* started, to its next await: it calls the next startup() or is drained.  *)
(* (count' because a caller may register in the same turn.)                *)
StartFrom(idx, st) ==
  /\ startedIndex' = idx
  /\ IF idx < count'
     THEN /\ batch' = "starting"
          /\ cur' = idx + 1
          /\ status' = [st EXCEPT ![idx + 1] = "starting"]
          /\ starts' = OnceMore(starts, idx + 1)
     ELSE /\ batch' = "drained"
          /\ status' = st
          /\ UNCHANGED <<cur, starts>>

(* stopStartedLifecycles() run by p from the top of its loop to its next   *)
(* await, and disposeReadyValues() when nothing is left to stop.           *)
StopFrom(p, idx, st, rd) ==
  /\ stopping' = [stopping EXCEPT ![p] = idx]
  /\ IF idx > 0
     THEN /\ startedIndex' = idx - 1
          /\ status' = [st EXCEPT ![idx] = "stopping"]
          /\ stops' = OnceMore(stops, idx)
          /\ ready' = rd
     ELSE /\ startedIndex' = 0
          /\ status' = st
          /\ ready' = [i \in Entries |-> IF i <= count THEN "disposed" ELSE rd[i]]
          /\ UNCHANGED stops
  /\ batch' = IF p = "shutdown" THEN batch ELSE IF idx > 0 THEN "rollback" ELSE "failed"
  /\ shutdownPc' = IF p = "rollback" THEN shutdownPc ELSE IF idx > 0 THEN "stopping" ELSE "done"

(* Mutants of failStartup(): the rollback begins one entry too high, or    *)
(* the manager stays open.                                                 *)
FailStartupTooHigh(idx, st) ==
  disposed' = TRUE /\ StopFrom("rollback", idx + 1, st, ready) /\ UNCHANGED <<cur, starts>>

FailStartupStaysOpen(idx, st) ==
  StopFrom("rollback", idx, st, ready) /\ UNCHANGED <<disposed, cur, starts>>

(* failStartup()                                                           *)
FailStartup(idx, st) ==
  /\ disposed' = TRUE
  /\ StopFrom("rollback", idx, st, ready)
  /\ UNCHANGED <<cur, starts>>

(* The running startup() hook settles only after the calls it awaits.      *)
HookSettles == batch = "starting" /\ awaited = {}

(* sealReadyValue() requires a pending value.                              *)
CanSeal(i) == ready[i] = "pending"

(* The awaited startup() fulfils with nothing to seal, or its result is    *)
(* sealed; the loop goes on.                                               *)
HookStarted(object) ==
  /\ HookSettles
  /\ object => CanSeal(cur)
  /\ UNCHANGED count
  /\ StartFrom(startedIndex + 1, [status EXCEPT ![cur] = "up"])
  /\ ready' = IF object THEN [ready EXCEPT ![cur] = "ready"] ELSE ready
  /\ UNCHANGED <<disposed, stopping, shutdownPc, pc, awaited, refusing, stops>>

(* Mutant of SealFailed: the entry is counted after it is sealed.          *)
SealFailedUncounted ==
  /\ HookSettles
  /\ FailStartup(startedIndex, [status EXCEPT ![cur] = "up"])
  /\ UNCHANGED <<count, pc, awaited, refusing>>

(* The awaited startup() fulfils but its result cannot be sealed, because  *)
(* of the value's state or of an accessor of the result that throws: the   *)
(* entry is already counted when failStartup() runs.                       *)
SealFailed ==
  /\ HookSettles
  /\ FailStartup(startedIndex + 1, [status EXCEPT ![cur] = "up"])
  /\ UNCHANGED <<count, pc, awaited, refusing>>

(* The awaited startup() rejects.                                          *)
HookFailed ==
  /\ HookSettles
  /\ FailStartup(startedIndex, [status EXCEPT ![cur] = "failed"])
  /\ UNCHANGED <<count, pc, awaited, refusing>>

(* The .finally() of the batch, one microtask after it settled: the shared *)
(* promise is forgotten and its waiters are resumed or reject.             *)
BatchFinally ==
  /\ batch \in {"drained", "failed"}
  /\ batch' = "none"
  /\ cur' = 0
  /\ pc' = [c \in Callers |->
              IF pc[c] # "waiting" THEN pc[c]
              ELSE IF batch = "drained" THEN "resumed" ELSE "threw"]
  /\ awaited' = {}
  /\ UNCHANGED <<count, startedIndex, disposed, stopping, shutdownPc, ready, refusing,
                 status, starts, stops>>

-----------------------------------------------------------------------------
(* Callers of startupPending() *)

(* Mutant of Loop: a running batch is not joined.                          *)
LoopUnshared(c) ==
  /\ pc' = [pc EXCEPT ![c] = IF startedIndex < count' THEN "waiting" ELSE "returned"]
  /\ IF startedIndex < count' THEN StartFrom(startedIndex, status)
     ELSE UNCHANGED <<startedIndex, batch, cur, status, starts>>

(* The while loop of startupPending(): join the batch, start one, or leave.*)
Loop(c) ==
  \/ /\ batch # "none"
     /\ pc' = [pc EXCEPT ![c] = "waiting"]
     /\ UNCHANGED <<startedIndex, batch, cur, status, starts>>
  \/ /\ batch = "none"
     /\ ~disposed
     /\ startedIndex < count'
     /\ pc' = [pc EXCEPT ![c] = "waiting"]
     /\ StartFrom(startedIndex, status)
  \/ /\ batch = "none"
     /\ disposed \/ startedIndex >= count'
     /\ pc' = [pc EXCEPT ![c] = IF disposed THEN "threw" ELSE "returned"]
     /\ UNCHANGED <<startedIndex, batch, cur, status, starts>>

(* Mutant of Reentrant: the startup context is not looked at.              *)
ReentrantNever(inside) == FALSE

(* The caller's startupContext still holds the token of the batch in       *)
(* progress: it is inside the hook that runs, and has not lost the context.*)
Reentrant(inside) == inside /\ batch # "none" /\ cur \notin ContextLost

(* startupPending() called by c, from inside the running startup() hook    *)
(* (which awaits it) or from anywhere else, work inherited from an earlier *)
(* batch included.                                                         *)
StartupPendingCall(c, inside) ==
  /\ pc[c] \notin {"waiting", "resumed"}
  /\ inside => batch = "starting"
  /\ IF disposed
     THEN /\ pc' = [pc EXCEPT ![c] = "threw"]
          /\ UNCHANGED <<startedIndex, batch, cur, status, starts, awaited>>
     ELSE IF Reentrant(inside)
     THEN /\ pc' = [pc EXCEPT ![c] = "reentered"]
          /\ UNCHANGED <<startedIndex, batch, cur, status, starts, awaited>>
     ELSE /\ Loop(c)
          /\ awaited' = IF inside THEN awaited \cup {c} ELSE awaited
  /\ UNCHANGED <<disposed, stopping, shutdownPc, ready, refusing, stops>>

(* The call, after what the caller constructed in the same turn registered.*)
StartupPending(c, inside) == count' \in count..MaxEntries /\ StartupPendingCall(c, inside)

(* Mutant of Resume: the waiter does not check again.                      *)
ResumeUnchecked(c) ==
  /\ pc[c] = "resumed"
  /\ pc' = [pc EXCEPT ![c] = "returned"]
  /\ UNCHANGED <<count, startedIndex, disposed, batch, cur, stopping, shutdownPc, ready,
                 awaited, refusing, status, starts, stops>>

(* A waiter goes on after the batch it awaited: it checks for work that    *)
(* was registered in the meantime.                                         *)
Resume(c) ==
  /\ pc[c] = "resumed"
  /\ UNCHANGED count
  /\ Loop(c)
  /\ UNCHANGED <<disposed, stopping, shutdownPc, ready, awaited, refusing, stops>>

-----------------------------------------------------------------------------
(* Shutdown *)

(* shutdown(): the first call that passes the guards; later ones share its *)
(* promise and a refused one changes nothing.                              *)
Shutdown ==
  /\ shutdownPc = "none"
  /\ CanShutdown
  /\ disposed' = TRUE
  /\ StopFrom("shutdown", startedIndex, status, ready)
  /\ UNCHANGED <<count, cur, pc, awaited, refusing, starts>>

(* An awaited shutdown() hook settles, rejected or not: its ReadyValue is  *)
(* disposed and the loop goes on.                                          *)
StopHookSettled(p) ==
  /\ stopping[p] # 0
  /\ StopFrom(p, startedIndex, [status EXCEPT ![stopping[p]] = "down"],
              [ready EXCEPT ![stopping[p]] = "disposed"])
  /\ UNCHANGED <<count, disposed, cur, pc, awaited, refusing, starts>>

-----------------------------------------------------------------------------

Startup ==
  \/ \E c \in Callers, inside \in BOOLEAN : StartupPending(c, inside)
  \/ \E c \in Callers : Resume(c)
  \/ \E object \in BOOLEAN : HookStarted(object)
  \/ SealFailed
  \/ HookFailed
  \/ BatchFinally

(* Every step but a call of shutdown().                                    *)
Internal ==
  \/ Register
  \/ \E i \in Guarded : ToggleGuard(i)
  \/ Startup
  \/ \E p \in Stoppers : StopHookSettled(p)

(* What the class permits: shutdown() at any moment.                       *)
ConcurrentNext == Internal \/ Shutdown

(* Mutant of ShutdownAfterStartup: a batch in progress is not awaited.     *)
ShutdownDuringStartup == Shutdown

(* What AppBootstrap.shutdown() grants for the startup that ready() runs:  *)
(* it awaits readyPromise first, so no batch is in progress.               *)
ShutdownAfterStartup == batch = "none" /\ Shutdown

Next == Internal \/ ShutdownAfterStartup

(* Promise reactions run, and every hook settles.                          *)
LifecycleFairness ==
  /\ \A c \in Callers : WF_lifecycleVars(Resume(c))
  /\ WF_lifecycleVars(BatchFinally)
  /\ WF_lifecycleVars(HookFailed \/ SealFailed \/ \E object \in BOOLEAN : HookStarted(object))
  /\ \A p \in Stoppers : WF_lifecycleVars(StopHookSettled(p))

Spec == LifecycleInit /\ [][Next]_lifecycleVars

FairSpec == Spec /\ LifecycleFairness

ConcurrentSpec == LifecycleInit /\ [][ConcurrentNext]_lifecycleVars

-----------------------------------------------------------------------------
(* Properties *)

(* A caller of startupPending() that is not inside a startup hook gets its *)
(* answer only when every lifecycle registered by then runs and none was   *)
(* stopped, even if shutdown() is called at the worst moment: the waiters  *)
(* check again after the batch, and assertCanStart() is the last word.     *)
ReturnsWhenAllRun ==
  [][\A c \in Callers :
       pc[c] # "returned" /\ pc'[c] = "returned"
         => ~disposed /\ \A i \in 1..count' : status[i] = "up"]_lifecycleVars

(* No entry's startup() or shutdown() hook is called twice, whatever       *)
(* fails: a rollback and a later shutdown() do not stop the same entry.    *)
HooksOnce == \A i \in Entries : starts[i] <= 1 /\ stops[i] <= 1

(* While an entry is being stopped, everything registered after it is no   *)
(* longer running and everything before it still is: a resource never      *)
(* outlives one it was built on.                                           *)
StopsInReverse ==
  \A i \in Entries : status[i] = "stopping" =>
    /\ \A j \in Entries : j < i => status[j] = "up"
    /\ \A j \in Entries : j > i => status[j] \notin {"starting", "up", "stopping"}

(* The ReadyValue of an entry can be used inside its own shutdown() hook,  *)
(* and so can those of all entries that were registered before it.         *)
ReadyValueUsableInShutdown ==
  \A i \in Entries : status[i] = "stopping" =>
    \A j \in 1..i : ready[j] # "disposed"

(* The teardown peels the services off in the reverse order of their       *)
(* registration, and what a shutdown() hook builds on is still usable.     *)
TeardownInOrder == StopsInReverse /\ ReadyValueUsableInShutdown

(* Once shutdown() resolved, or a failed batch was forgotten, no resource  *)
(* is left running.                                                        *)
NothingLeftRunning ==
  shutdownPc = "done" \/ (disposed /\ batch = "none" /\ shutdownPc = "none")
    => \A i \in Entries : status[i] \in {"new", "failed", "down"}

(* Hooks run one at a time.                                                *)
OneHookAtATime ==
  \A i, j \in Entries :
    status[i] \in {"starting", "stopping"} /\ status[j] \in {"starting", "stopping"} => i = j

(* Hooks are called once and in turn, although batches, rollbacks and      *)
(* shutdowns of several callers meet.                                      *)
HooksInTurn == HooksOnce /\ OneHookAtATime

(* The hook that runs waits for the batch that waits for it: it called     *)
(* startupPending() without the context by which that would be recognised. *)
WaitsForItself == awaited # {} /\ cur \in ContextLost

(* Every caller of startupPending() is answered, also one inside a startup *)
(* hook that the hook itself waits for, as "a hook cannot await its own    *)
(* completion" (lifecycle.lib.ts:60): in async mode always, and in sync    *)
(* mode unless a hook calls it that has lost its context.                  *)
CallersAnswered ==
  \A c \in Callers :
    pc[c] \in {"waiting", "resumed"} ~> pc[c] \notin {"waiting", "resumed"} \/ WaitsForItself

-----------------------------------------------------------------------------
(* Refinement *)

(* The resources a completed startup() opened and no shutdown() released.  *)
Running == {i \in Entries : status[i] \in {"up", "stopping"}}

Stack == INSTANCE ResourceStack WITH running <- Running, closed <- disposed

(* The manager implements the stack of resources: what is running is a     *)
(* prefix of the registered entries and it is torn down from its top.      *)
ImplementsStack == Stack!Spec

(* The same with its liveness: a closed stack is emptied.                  *)
ImplementsFairStack == Stack!FairSpec

=============================================================================
