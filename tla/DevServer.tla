------------------------------- MODULE DevServer -------------------------------
(***************************************************************************)
(* `zelt dev`: every change of the sources restarts the application in a   *)
(* child process, after the plugins have run again; a signal stops the     *)
(* watcher and the child.  Nothing keeps two restarts, or a restart and    *)
(* the shutdown, apart.  A `zelt build` may run beside the server, which   *)
(* may be killed.                                                          *)
(***************************************************************************)
EXTENDS OutputsLedger

CONSTANTS
  Builds,      \* the runs of `zelt build`; the others are those of the server
  Nobody,
  MaxChanges   \* bound on the changes of the sources

ASSUME DevAssumption == Builds \subseteq Runs /\ Nobody \notin Runs /\ MaxChanges \in Nat

VARIABLES
  server,        \* "off", "up", "closing", "killing", "down" or "crashed"
  childProcess,  \* state.childProcess, a child being named by the run that spawned it
  child,         \* each child: "none", "alive", "exited" (with a code) or "signalled"
  killed,        \* the children that were sent SIGTERM
  awaited,       \* the child whose exit a run awaits
  stopping,      \* the child whose exit the shutdown awaits
  forceKillTimers,  \* the children whose time to end is running
  debounceTimer,
  version,       \* how often the sources changed
  served,        \* the version of the sources when the last child was spawned
  loose          \* history: runs (and children) that overlapped another or the shutdown

devVars == <<server, childProcess, child, killed, awaited, stopping, forceKillTimers, debounceTimer,
             version, served, loose>>
vars == <<ledgerVars, devVars>>

DevRuns == Runs \ Builds

DevInit ==
  /\ LedgerInit
  /\ server = "off"
  /\ childProcess = Nobody
  /\ child = [r \in Runs |-> "none"]
  /\ killed = {}
  /\ awaited = [r \in Runs |-> Nobody]
  /\ stopping = Nobody
  /\ forceKillTimers = {}
  /\ debounceTimer = FALSE
  /\ version = 0 /\ served = 0
  /\ loose = {}

Alive == {c \in DevRuns : child[c] = "alive"}

(* The next run of the server.                                             *)
Fresh(r) == r \in DevRuns /\ step[r] = "new" /\ \A q \in DevRuns : step[q] = "new" => r <= q

BeginDev(r, where) ==
  /\ Begin(r, where)
  /\ loose' = IF AtWork \cap DevRuns = {} THEN loose
              ELSE loose \cup (AtWork \cap DevRuns) \cup {r}

(* startDevServer(): signals and changes are heard from now on.            *)
StartDevServer(r) ==
  /\ server = "off" /\ Fresh(r) /\ AtWork = {}
  /\ server' = "up"
  /\ BeginDev(r, "hooks")
  /\ UNCHANGED <<childProcess, child, killed, awaited, stopping, forceKillTimers, debounceTimer,
                 version, served>>

(* The watcher sets the timer anew on every change.                        *)
Change ==
  /\ version < MaxChanges
  /\ version' = version + 1
  /\ debounceTimer' = (server = "up")
  /\ UNCHANGED <<ledgerVars, server, childProcess, child, killed, awaited, stopping,
                 forceKillTimers, served, loose>>

(* What killProcess() does for a child: it resolves at once, it sends      *)
(* SIGTERM and awaits the exit, or it awaits an exit that was long ago:    *)
(* exitCode is null for a child that died of a signal.                     *)
KillResolves(c) ==
  /\ c \in {Nobody} \cup killed \cup {d \in DevRuns : child[d] = "exited"}
  /\ UNCHANGED <<killed, forceKillTimers>>
KillWaits(c) ==
  /\ c \in Alive \ killed
  /\ killed' = killed \cup {c}
  /\ forceKillTimers' = forceKillTimers \cup {c}
KillHangs(c) ==
  /\ c \in {d \in DevRuns : child[d] = "signalled"} \ killed
  /\ forceKillTimers' = forceKillTimers \cup {c}
  /\ UNCHANGED killed

(* The child has had its time.  It is killed unless child.killed is set or *)
(* it has an exit code; but it is set as soon as SIGTERM is sent.          *)
ForceKill(c) ==
  /\ c \in forceKillTimers
  /\ forceKillTimers' = forceKillTimers \ {c}
  /\ child' = IF c \in Alive \ killed THEN [child EXCEPT ![c] = "signalled"] ELSE child
  /\ UNCHANGED <<ledgerVars, server, childProcess, killed, awaited, stopping, debounceTimer,
                 version, served, loose>>

(* The timer fires: restart() up to its first await.                       *)
Restart(r) ==
  /\ debounceTimer /\ server = "up" /\ Fresh(r)
  /\ debounceTimer' = FALSE
  /\ \/ KillResolves(childProcess) /\ BeginDev(r, "hooks") /\ UNCHANGED awaited
     \/ /\ KillWaits(childProcess) /\ BeginDev(r, "killing")
        /\ awaited' = [awaited EXCEPT ![r] = childProcess]
     \/ KillHangs(childProcess) /\ BeginDev(r, "stuck") /\ UNCHANGED awaited
  /\ UNCHANGED <<server, childProcess, child, stopping, version, served>>

(* The 'exit' event of the child that restart() awaits.                    *)
ChildGone(r) ==
  /\ step[r] = "killing" /\ child[awaited[r]] # "alive"
  /\ GoTo(r, "hooks")
  /\ awaited' = [awaited EXCEPT ![r] = Nobody]
  /\ UNCHANGED <<disk, ledger, outputs, stale, removing, overlapped, untracked, byHand,
                 server, childProcess, child, killed, stopping, forceKillTimers, debounceTimer,
                 version, served, loose>>

(* runHooks().                                                             *)
Hooks(r) == (HookStep(r) \/ HookFails(r)) /\ UNCHANGED devVars

Spawns(r) ==
  /\ child' = [child EXCEPT ![r] = "alive"]
  /\ childProcess' = r
  /\ served' = version

(* Mutant of StartProcess: a run whose hooks failed starts nothing.        *)
StartProcessUnlessFailed(r) ==
  /\ r \in DevRuns /\ Done(r)
  /\ Spawns(r) \/ (outputs[r] = {} /\ UNCHANGED <<child, childProcess, served>>)
  /\ UNCHANGED <<server, killed, awaited, stopping, forceKillTimers, debounceTimer, version, loose>>

(* The hooks settled, well or not: startProcess(), also in a server that   *)
(* has shut down meanwhile.                                                *)
StartProcess(r) ==
  /\ r \in DevRuns /\ Done(r)
  /\ Spawns(r)
  /\ UNCHANGED <<server, killed, awaited, stopping, forceKillTimers, debounceTimer, version, loose>>

(* A child ends by itself or because it was told to, with an exit code or  *)
(* by a signal, whoever sent it; how, matters only for one that is not     *)
(* known to be killed.                                                     *)
Exit(c) ==
  /\ child[c] = "alive"
  /\ \E how \in {"exited", "signalled"} :
       /\ c \in killed => how = "exited"
       /\ child' = [child EXCEPT ![c] = how]
  /\ forceKillTimers' = forceKillTimers \ {c}
  /\ loose' = loose \ {c}
  /\ UNCHANGED <<ledgerVars, server, childProcess, killed, awaited, stopping, debounceTimer,
                 version, served>>

(* Mutant of Signal: the timer is not cleared.                             *)
SignalKeepsTimer ==
  /\ server = "up"
  /\ server' = "closing"
  /\ loose' = loose \cup (AtWork \cap DevRuns)
  /\ UNCHANGED <<ledgerVars, childProcess, child, killed, awaited, stopping, forceKillTimers,
                 debounceTimer, version, served>>

(* SIGINT or SIGTERM: the shutdown handler up to watcher.close(), which    *)
(* clears the timer.                                                       *)
Signal ==
  /\ server = "up"
  /\ server' = "closing"
  /\ debounceTimer' = FALSE
  /\ loose' = loose \cup (AtWork \cap DevRuns)
  /\ UNCHANGED <<ledgerVars, childProcess, child, killed, awaited, stopping, forceKillTimers,
                 version, served>>

(* The child there is by now is killed; without one, or if its exit never  *)
(* comes, nothing keeps the process.                                       *)
WatcherClosed ==
  /\ server = "closing"
  /\ stopping' = childProcess
  /\ \/ KillResolves(childProcess) /\ server' = "down"
     \/ KillWaits(childProcess) /\ server' = "killing"
     \/ KillHangs(childProcess) /\ server' = "down"
  /\ UNCHANGED <<ledgerVars, childProcess, child, awaited, debounceTimer, version, served, loose>>

ShutDown ==
  /\ server = "killing" /\ child[stopping] # "alive"
  /\ server' = "down"
  /\ UNCHANGED <<ledgerVars, childProcess, child, killed, awaited, stopping, forceKillTimers,
                 debounceTimer, version, served, loose>>

(* The process of the server is killed.                                    *)
Crash ==
  /\ server \notin {"off", "down", "crashed"}
  /\ server' = "crashed" /\ debounceTimer' = FALSE /\ forceKillTimers' = {}
  /\ Die(AtWork \cap DevRuns)
  /\ UNCHANGED <<childProcess, child, killed, awaited, stopping, version, served, loose>>

(* `zelt build`.  A bound: not while the server is up, which overlaps with *)
(* itself.                                                                 *)
Build(b) ==
  /\ server \in {"off", "down", "crashed"}
  /\ \/ step[b] = "new" /\ Begin(b, "hooks")
     \/ Done(b)
     \/ b \in AtWork /\ Die({b})
  /\ UNCHANGED devVars

-----------------------------------------------------------------------------

DevNext ==
  \/ \E r \in Runs : StartDevServer(r) \/ Restart(r) \/ ChildGone(r) \/ Hooks(r) \/ StartProcess(r)
  \/ \E c \in DevRuns : Exit(c) \/ ForceKill(c)
  \/ Change \/ Signal \/ WatcherClosed \/ ShutDown \/ Crash
  \/ \E b \in Builds : Build(b)
  \/ \E f \in Files : UserWrites(f) /\ UNCHANGED devVars

(* Timers fire and plugins settle; a child may stay, whoever tells it to   *)
(* end.                                                                    *)
DevFairness ==
  /\ WF_vars(WatcherClosed) /\ WF_vars(ShutDown)
  /\ \A r \in DevRuns :
       /\ WF_vars(Restart(r)) /\ WF_vars(ChildGone(r)) /\ WF_vars(Hooks(r))
       /\ WF_vars(StartProcess(r))
       /\ WF_vars(ForceKill(r))

DevSpec == DevInit /\ [][DevNext]_vars /\ DevFairness

-----------------------------------------------------------------------------
(* Properties *)

DevTypeOK ==
  /\ LedgerTypeOK
  /\ server \in {"off", "up", "closing", "killing", "down", "crashed"}
  /\ {childProcess, stopping} \subseteq DevRuns \cup {Nobody}
  /\ child \in [Runs -> {"none", "alive", "exited", "signalled"}]
  /\ killed \subseteq {c \in DevRuns : child[c] # "none"}
  /\ forceKillTimers \subseteq {c \in DevRuns : child[c] \in {"alive", "signalled"}}
  /\ awaited \in [Runs -> DevRuns \cup {Nobody}]
  /\ version \in 0..MaxChanges /\ served \in 0..version
  /\ debounceTimer => server = "up"
  /\ \A r \in Runs : step[r] = "killing" => awaited[r] \in killed

(* Two applications never run at the same time, and none runs on untold    *)
(* after the shutdown, unless a restart overlapped another or the shutdown.*)
OneAppAtATime ==
  /\ \A c, d \in Alive \ loose : c = d
  /\ server = "down" => Alive \subseteq killed \cup loose

NothingLeftBehind == OneAppAtATime /\ OutputsTracked

(* The child died of a signal that the server did not send: no restart     *)
(* gets past it.                                                           *)
Deaf == childProcess # Nobody /\ child[childProcess] = "signalled" /\ childProcess \notin killed

(* A shutdown ends: a child that does not end when it is told to is killed *)
(* after a while.                                                          *)
ShutdownEnds == server = "closing" ~> server \in {"down", "crashed"}

(* The application runs from the sources as they are, or has ended.        *)
Settled ==
  \/ server \in {"off", "down", "crashed"}
  \/ server = "up" /\ childProcess # Nobody /\ (served = version \/ Deaf)

(* What the code does guarantee: the start and every change are followed   *)
(* by a start of the application, also when the plugins fail, and a        *)
(* shutdown ends, unless there is a child for ever that was told to end    *)
(* and does not.                                                           *)
DevServerSettles == []<>Settled \/ <>[](killed \cap Alive # {})
=============================================================================
