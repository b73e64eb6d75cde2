------------------------------- MODULE DevProofs -------------------------------
(***************************************************************************)
(* For any number of restarts, builds and files: the development server    *)
(* leaves nothing behind.  The first half is about the ledger, whoever     *)
(* runs; the second about the child processes.                             *)
(***************************************************************************)
EXTENDS DevServer, TLAPS

(* What a run registered lasts from the hooks to its end.                  *)
OutputsInv ==
  \A r \in Runs : step[r] \notin {"registered", "sweeping", "settled"} => outputs[r] = {}

(* Who is at work without having overlapped is alone.                      *)
AloneInv == \A r \in AtWork : r \in overlapped \/ AtWork = {r}

(* A sweep that is alone has still to look at every file that would drop   *)
(* out of the ledger, or to remove it, and spares what was just generated. *)
SweepInv ==
  \A r \in Runs :
    /\ step[r] # "sweeping" => removing[r] = {}
    /\ step[r] = "sweeping" =>
         /\ (stale[r] \cup removing[r]) \cap outputs[r] = {}
         /\ r \notin overlapped => \A f \in ledger \ outputs[r] :
              f \in stale[r] \cup removing[r] \/ disk[f] # "generated"

(* What a run that is alone has generated is there until the run ends.     *)
KeptInv ==
  \A r \in Runs : step[r] \in {"registered", "sweeping", "settled"} /\ r \notin overlapped =>
    \A f \in outputs[r] : disk[f] # "absent"

(* The user writes no file that belongs to the tool, and no run is about   *)
(* to remove what he wrote.                                                *)
HandInv ==
  \A f \in byHand :
    f \notin ZeltDir /\ disk[f] = "handwritten" /\ \A r \in Runs : f \notin removing[r]

(* The first part of OutputsTracked.                                       *)
TrackedInv ==
  \A f \in Files : disk[f] = "generated" =>
    \/ f \in ledger \cup untracked
    \/ \E r \in AtWork : step[r] \in {"registered", "sweeping"} /\ f \in outputs[r]

LedgerInv ==
  LedgerTypeOK /\ OutputsInv /\ AloneInv /\ SweepInv /\ KeptInv /\ HandInv /\ TrackedInv

(* Of two runs of the server at work both are loose, and all are when it   *)
(* no longer serves.                                                       *)
LooseInv ==
  /\ \A r, q \in AtWork \cap DevRuns : r # q => r \in loose
  /\ server # "up" => AtWork \cap DevRuns \subseteq loose

(* Nothing runs before the server does; a child is there only when the run *)
(* that spawned it is over.                                                *)
SpawnInv ==
  /\ \A c \in DevRuns : child[c] # "none" => step[c] = "done"
  /\ server = "off" => AtWork \cap DevRuns = {} /\ Alive = {}

(* A child that was told to end and did not yet is awaited by a restart.   *)
KilledInv ==
  server = "up" =>
    \A c \in killed \cap Alive : \E q \in DevRuns : step[q] = "killing" /\ awaited[q] = c

(* The child that is not loose is the current one, until a restart or the  *)
(* shutdown tells it to end; from then on all are told.                    *)
CurrentInv ==
  /\ server \in {"up", "closing"} =>
       /\ Alive \ loose \subseteq killed \cup {childProcess}
       /\ AtWork \cap DevRuns # {} => Alive \ loose \subseteq killed
  /\ server \in {"killing", "down"} => Alive \subseteq killed \cup loose

SingleInv == \A c, d \in Alive \ loose : c = d

DevInv ==
  DevTypeOK /\ LedgerInv /\ LooseInv /\ SpawnInv /\ KilledInv /\ CurrentInv /\ SingleInv

-----------------------------------------------------------------------------
(* The ledger                                                              *)

(* What a step of the server, of a build or of the user may do to it.      *)
Resumes(r) ==
  /\ step[r] = "killing" /\ GoTo(r, "hooks")
  /\ UNCHANGED <<disk, ledger, outputs, stale, removing, overlapped, untracked, byHand>>

LedgerStep ==
  \/ \E r \in Runs, where \in {"hooks", "killing", "stuck"} : step[r] = "new" /\ Begin(r, where)
  \/ \E r \in Runs : Resumes(r) \/ HookStep(r) \/ HookFails(r) \/ Done(r)
  \/ \E runs \in SUBSET AtWork : Die(runs)
  \/ \E f \in Files : UserWrites(f)

(* These are the steps there are.                                          *)
LEMMA LedgerSteps ==
  ASSUME DevTypeOK, [DevNext]_vars
  PROVE  LedgerStep \/ UNCHANGED ledgerVars
<1> USE DevAssumption, LedgerAssumption DEF DevRuns
<1>1. CASE UNCHANGED vars
  BY <1>1 DEF vars
<1>2. ASSUME NEW r \in Runs, StartDevServer(r) PROVE LedgerStep
  BY <1>2 DEF StartDevServer, Fresh, BeginDev, LedgerStep
<1>3. ASSUME NEW r \in Runs, Restart(r) PROVE LedgerStep
  BY <1>3 DEF Restart, Fresh, BeginDev, LedgerStep
<1>4. ASSUME NEW r \in Runs, ChildGone(r) PROVE LedgerStep
  BY <1>4 DEF ChildGone, Resumes, LedgerStep
<1>5. ASSUME NEW r \in Runs, Hooks(r) PROVE LedgerStep
  BY <1>5 DEF Hooks, LedgerStep
<1>6. ASSUME NEW r \in Runs, StartProcess(r) PROVE LedgerStep
  BY <1>6 DEF StartProcess, LedgerStep
<1>7. ASSUME NEW c \in DevRuns, Exit(c) \/ ForceKill(c) PROVE UNCHANGED ledgerVars
  BY <1>7 DEF Exit, ForceKill
<1>8. CASE Change \/ Signal \/ WatcherClosed \/ ShutDown
  BY <1>8 DEF Change, Signal, WatcherClosed, ShutDown
<1>9. CASE Crash
  BY <1>9 DEF Crash, LedgerStep
<1>10. ASSUME NEW b \in Builds, Build(b) PROVE LedgerStep
  <2>1. b \in Runs /\ {b} \in SUBSET Runs
    OBVIOUS
  <2> QED BY <1>10, <2>1 DEF Build, LedgerStep
<1>11. ASSUME NEW f \in Files, UserWrites(f) PROVE LedgerStep
  BY <1>11 DEF LedgerStep
<1> QED
  BY <1>1, <1>2, <1>3, <1>4, <1>5, <1>6, <1>7, <1>8, <1>9, <1>10, <1>11 DEF DevNext

(* The invariant of the ledger is inductive.  What a sweep of a run that is*)
(* alone has not looked at it knows, since nobody else changes the ledger; *)
(* so once it has looked at everything the ledger may drop what it drops.  *)
LEMMA LedgerKeepsInv ==
  ASSUME LedgerInv, LedgerStep
  PROVE  LedgerInv'
<1> USE LedgerAssumption
    DEF LedgerInv, LedgerTypeOK, OutputsInv, AloneInv, SweepInv, KeptInv, HandInv, TrackedInv,
        AtWork, GoTo
<1>1. ASSUME NEW r \in Runs, NEW where \in {"hooks", "killing", "stuck"},
             step[r] = "new", Begin(r, where)
      PROVE  LedgerInv'
  <2>1. AloneInv'
    BY <1>1 DEF Begin
  <2>2. (LedgerTypeOK /\ OutputsInv /\ SweepInv /\ KeptInv)'
    BY <1>1 DEF Begin
  <2>3. (HandInv /\ TrackedInv)'
    BY <1>1 DEF Begin
  <2> QED BY <2>1, <2>2, <2>3 DEF LedgerInv
<1>2. ASSUME NEW r \in Runs, Resumes(r) PROVE LedgerInv'
  BY <1>2 DEF Resumes
<1>3. ASSUME NEW r \in Runs, PreBuild(r) PROVE LedgerInv'
  <2>1. (OutputsInv /\ KeptInv)'
    BY <1>3 DEF PreBuild, Generates
  <2>2. (HandInv /\ TrackedInv)'
    BY <1>3 DEF PreBuild, Generates
  <2>3. (LedgerTypeOK /\ AloneInv /\ SweepInv)'
    BY <1>3 DEF PreBuild, Generates
  <2> QED BY <2>1, <2>2, <2>3 DEF LedgerInv
<1>4. ASSUME NEW r \in Runs, PreBuildFails(r) PROVE LedgerInv'
  <2>1. (HandInv /\ TrackedInv)'
    BY <1>4 DEF PreBuildFails, Generates
  <2>2. (KeptInv /\ SweepInv)'
    BY <1>4 DEF PreBuildFails, Generates
  <2>3. (LedgerTypeOK /\ OutputsInv /\ AloneInv)'
    BY <1>4 DEF PreBuildFails, Generates
  <2> QED BY <2>1, <2>2, <2>3 DEF LedgerInv
<1>5. ASSUME NEW r \in Runs, ReadLedger(r) PROVE LedgerInv'
  <2>1. SweepInv'
    BY <1>5 DEF ReadLedger
  <2>2. (LedgerTypeOK /\ OutputsInv /\ AloneInv)'
    BY <1>5 DEF ReadLedger
  <2>3. (KeptInv /\ HandInv /\ TrackedInv)'
    BY <1>5 DEF ReadLedger
  <2> QED BY <2>1, <2>2, <2>3 DEF LedgerInv
<1>6. ASSUME NEW r \in Runs, Look(r) PROVE LedgerInv'
  <2>1. PICK f \in stale[r] :
          /\ stale' = [stale EXCEPT ![r] = @ \ {f}]
          /\ removing' = IF IsOurs(f) THEN [removing EXCEPT ![r] = {f}] ELSE removing
    BY <1>6 DEF Look
  <2>2. /\ step[r] = "sweeping" /\ removing[r] = {}
        /\ UNCHANGED <<disk, ledger, step, outputs, overlapped, untracked, byHand>>
    BY <1>6 DEF Look
  <2>3. SweepInv'
    BY <2>1, <2>2 DEF IsOurs
  <2>4. HandInv'
    BY <2>1, <2>2 DEF IsOurs
  <2>5. (KeptInv /\ TrackedInv)'
    BY <2>1, <2>2
  <2>6. (LedgerTypeOK /\ OutputsInv /\ AloneInv)'
    BY <2>1, <2>2
  <2> QED BY <2>3, <2>4, <2>5, <2>6 DEF LedgerInv
<1>11. ASSUME NEW r \in Runs, Remove(r) PROVE LedgerInv'
  <2>1. SweepInv'
    BY <1>11 DEF Remove
  <2>2. KeptInv'
    BY <1>11 DEF Remove
  <2>3. (HandInv /\ TrackedInv)'
    BY <1>11 DEF Remove
  <2>4. (LedgerTypeOK /\ OutputsInv /\ AloneInv)'
    BY <1>11 DEF Remove
  <2> QED BY <2>1, <2>2, <2>3, <2>4 DEF LedgerInv
<1>12. ASSUME NEW r \in Runs, SweepFails(r) PROVE LedgerInv'
  <2>1. TrackedInv'
    BY <1>12 DEF SweepFails
  <2>2. (SweepInv /\ KeptInv)'
    BY <1>12 DEF SweepFails
  <2>3. (LedgerTypeOK /\ OutputsInv /\ AloneInv /\ HandInv)'
    BY <1>12 DEF SweepFails
  <2> QED BY <2>1, <2>2, <2>3 DEF LedgerInv
<1>7. ASSUME NEW r \in Runs, WriteLedger(r) PROVE LedgerInv'
  <2>1. TrackedInv'
    BY <1>7 DEF WriteLedger, Records
  <2>2. (SweepInv /\ KeptInv)'
    BY <1>7 DEF WriteLedger, Records
  <2>3. (LedgerTypeOK /\ OutputsInv /\ AloneInv /\ HandInv)'
    BY <1>7 DEF WriteLedger, Records
  <2> QED BY <2>1, <2>2, <2>3 DEF LedgerInv
<1>8. ASSUME NEW r \in Runs, Done(r) PROVE LedgerInv'
  <2>1. (OutputsInv /\ AloneInv)'
    BY <1>8 DEF Done, End
  <2>2. (SweepInv /\ KeptInv)'
    BY <1>8 DEF Done, End
  <2>3. (LedgerTypeOK /\ HandInv /\ TrackedInv)'
    BY <1>8 DEF Done, End
  <2> QED BY <2>1, <2>2, <2>3 DEF LedgerInv
<1>9. ASSUME NEW runs \in SUBSET AtWork, Die(runs) PROVE LedgerInv'
  <2> USE <1>9 DEF Die, End
  <2>1. LedgerTypeOK'
    <3>1. UNION {outputs[r] : r \in {q \in runs : step[q] \in {"registered", "sweeping"}}} \subseteq Files
      <4>1. runs \subseteq Runs /\ outputs \in [Runs -> SUBSET Files]
        OBVIOUS
      <4> HIDE DEF LedgerInv, Die, End, LedgerTypeOK, OutputsInv, AloneInv, SweepInv, KeptInv,
                   HandInv, TrackedInv, AtWork
      <4> QED BY <4>1
    <3>2. /\ outputs' \in [Runs -> SUBSET Files] /\ stale' \in [Runs -> SUBSET Files]
          /\ removing' \in [Runs -> SUBSET Files]
      OBVIOUS
    <3>3. untracked' \in SUBSET Files /\ overlapped' \subseteq Runs
      BY <3>1
    <3> QED BY <3>2, <3>3
  <2>2. (OutputsInv /\ AloneInv)'
    OBVIOUS
  <2>3. (SweepInv)'
    OBVIOUS
  <2>4. (KeptInv)'
    OBVIOUS
  <2>5. ASSUME NEW f \in Files, disk'[f] = "generated"
        PROVE  f \in ledger' \cup untracked'
                 \/ \E r \in AtWork' : step'[r] \in {"registered", "sweeping"} /\ f \in outputs'[r]
    <3>1. f \notin ledger' => (f \in untracked \/ \E r \in AtWork :
                                  step[r] \in {"registered", "sweeping"} /\ f \in outputs[r])
      BY <2>5
    <3>2. CASE f \in untracked
      BY <3>2
    <3>3. ASSUME NEW r \in AtWork, step[r] \in {"registered", "sweeping"}, f \in outputs[r],
                 f \notin ledger
          PROVE  f \in untracked' \/ (r \in AtWork' /\ step'[r] = step[r] /\ f \in outputs'[r])
      BY <3>3
    <3> QED BY <3>1, <3>2, <3>3
  <2>6. (HandInv /\ TrackedInv)'
    BY <2>5
  <2> QED BY <2>1, <2>2, <2>3, <2>4, <2>6
<1>10. ASSUME NEW f \in Files, UserWrites(f) PROVE LedgerInv'
  <2>1. HandInv'
    BY <1>10 DEF UserWrites
  <2>2. (SweepInv /\ KeptInv /\ TrackedInv)'
    BY <1>10 DEF UserWrites
  <2>3. (LedgerTypeOK /\ OutputsInv /\ AloneInv)'
    BY <1>10 DEF UserWrites
  <2> QED BY <2>1, <2>2, <2>3 DEF LedgerInv
<1> QED
  BY <1>1, <1>2, <1>3, <1>4, <1>5, <1>6, <1>7, <1>8, <1>9, <1>10, <1>11, <1>12
     DEF LedgerStep, HookStep, HookFails

-----------------------------------------------------------------------------
(* The children                                                            *)

ServerInv == DevTypeOK /\ LooseInv /\ SpawnInv /\ KilledInv /\ CurrentInv /\ SingleInv

(* Steps that leave the server alone and only move a run on in its hooks,  *)
(* or a build.                                                             *)
LEMMA QuietKeepsInv ==
  ASSUME ServerInv, LedgerTypeOK', UNCHANGED devVars,
         \A r \in Runs : step'[r] = "killing" => step[r] = "killing",
         \A r \in DevRuns : step[r] = "killing" => step'[r] = "killing",
         AtWork' \cap DevRuns = AtWork \cap DevRuns,
         \A r \in DevRuns : step[r] = "done" => step'[r] = "done"
  PROVE  ServerInv'
<1> USE DevAssumption DEF ServerInv, DevRuns, Alive, devVars
<1>1. DevTypeOK'
  BY DEF DevTypeOK
<1>2. LooseInv'
  BY DEF LooseInv
<1>3. SpawnInv'
  BY DEF SpawnInv
<1>4. (KilledInv /\ CurrentInv /\ SingleInv)'
  BY DEF KilledInv, CurrentInv, SingleInv
<1> QED BY <1>1, <1>2, <1>3, <1>4

(* So is the invariant of the server.  A child that is started when no     *)
(* other run is at work finds the one before it gone: told to end, and     *)
(* awaited by the restart, which therefore is at work.                     *)
LEMMA ServerKeepsInv ==
  ASSUME ServerInv, [DevNext]_vars, LedgerTypeOK'
  PROVE  ServerInv'
<1> USE DevAssumption, LedgerAssumption
    DEF ServerInv, DevTypeOK, LooseInv, SpawnInv, KilledInv, CurrentInv, SingleInv,
        DevRuns, Alive, AtWork, GoTo, LedgerTypeOK
<1>0. CASE UNCHANGED vars
  BY <1>0 DEF vars, ledgerVars, devVars
<1>1. ASSUME NEW r \in Runs, StartDevServer(r) PROVE ServerInv'
  <2>1. LooseInv'
    BY <1>1 DEF StartDevServer, Fresh, BeginDev, Begin
  <2>2. DevTypeOK'
    BY <1>1 DEF StartDevServer, Fresh, BeginDev, Begin
  <2>3. (SpawnInv /\ KilledInv /\ CurrentInv /\ SingleInv)'
    BY <1>1 DEF StartDevServer, Fresh, BeginDev, Begin
  <2> QED BY <2>1, <2>2, <2>3 DEF ServerInv
<1>2. ASSUME NEW r \in Runs, Restart(r) PROVE ServerInv'
  <2> HIDE DEF LooseInv, SpawnInv, KilledInv, CurrentInv, SingleInv
  <2>1. /\ r \in DevRuns /\ step[r] = "new" /\ server = "up" /\ server' = "up"
        /\ UNCHANGED <<childProcess, child, stopping, version, served>>
        /\ debounceTimer' = FALSE
    BY <1>2 DEF Restart, Fresh
  <2>2. PICK where \in {"hooks", "killing", "stuck"} :
          /\ BeginDev(r, where)
          /\ forceKillTimers' \subseteq
               forceKillTimers \cup ({childProcess} \cap {c \in DevRuns : child[c] \in {"alive", "signalled"}})
          /\ where = "killing" => /\ childProcess \in Alive /\ killed' = killed \cup {childProcess}
                                  /\ awaited' = [awaited EXCEPT ![r] = childProcess]
          /\ where # "killing" => /\ childProcess \notin Alive \ killed /\ killed' = killed
                                  /\ awaited' = awaited
    <3>1. CASE KillResolves(childProcess) /\ BeginDev(r, "hooks") /\ UNCHANGED awaited
      BY <3>1 DEF KillResolves
    <3>2. CASE KillWaits(childProcess) /\ BeginDev(r, "killing")
               /\ awaited' = [awaited EXCEPT ![r] = childProcess]
      BY <3>2 DEF KillWaits
    <3>3. CASE KillHangs(childProcess) /\ BeginDev(r, "stuck") /\ UNCHANGED awaited
      BY <3>3 DEF KillHangs
    <3> QED BY <1>2, <3>1, <3>2, <3>3 DEF Restart
  <2>3. /\ step' = [step EXCEPT ![r] = where]
        /\ loose' = IF AtWork \cap DevRuns = {} THEN loose
                    ELSE loose \cup (AtWork \cap DevRuns) \cup {r}
    BY <2>2 DEF BeginDev, Begin
  <2>4. /\ Alive' = Alive /\ Alive \subseteq Runs
        /\ AtWork' \cap DevRuns \subseteq (AtWork \cap DevRuns) \cup {r}
        /\ killed \subseteq killed' /\ killed' \subseteq killed \cup (Alive \cap {childProcess})
        /\ loose \subseteq loose'
        /\ \A q \in Runs : q # r => step'[q] = step[q] /\ awaited'[q] = awaited[q]
    BY <2>1, <2>2, <2>3
  <2>5. DevTypeOK'
    <3>1. awaited' \in [Runs -> DevRuns \cup {Nobody}]
      BY <2>1, <2>2
    <3>2. killed' \subseteq {c \in DevRuns : child'[c] # "none"}
      BY <2>1, <2>4
    <3>3. step'[r] = "killing" => awaited'[r] \in killed'
      BY <2>2, <2>3
    <3>4. \A q \in Runs : step'[q] = "killing" => awaited'[q] \in killed'
      BY <2>4, <3>3
    <3>5. forceKillTimers' \subseteq {c \in DevRuns : child'[c] \in {"alive", "signalled"}}
      BY <2>1, <2>2
    <3>6. step' \in [Runs -> {"new", "killing", "stuck", "hooks", "registered", "sweeping", "settled",
                             "done", "dead"}]
      BY <2>3
    <3>7. LedgerTypeOK'
      BY <2>2, <3>6 DEF BeginDev, Begin
    <3> QED BY <2>1, <3>1, <3>2, <3>4, <3>5, <3>7
  <2>6. (LooseInv /\ SpawnInv)'
    BY <2>1, <2>3, <2>4 DEF LooseInv, SpawnInv
  <2>7. KilledInv'
    <3>1. ASSUME NEW c \in killed \cap Alive
          PROVE  \E q \in DevRuns : step'[q] = "killing" /\ awaited'[q] = c
      <4>1. PICK q \in DevRuns : step[q] = "killing" /\ awaited[q] = c
        BY <2>1 DEF KilledInv
      <4> QED BY <2>1, <2>4, <4>1
    <3>2. where = "killing" => step'[r] = "killing" /\ awaited'[r] = childProcess
      BY <2>2, <2>3
    <3>3. \A c \in killed' : c \in killed \/ (where = "killing" /\ c = childProcess)
      BY <2>2
    <3> QED BY <2>1, <2>4, <3>1, <3>2, <3>3 DEF KilledInv
  <2>8. Alive \ loose \subseteq killed'
    <3>1. Alive \ loose \subseteq killed \cup {childProcess}
      BY <2>1 DEF CurrentInv
    <3>2. childProcess \in Alive => childProcess \in killed'
      BY <2>2
    <3> HIDE DEF Alive, ServerInv, DevTypeOK, LedgerTypeOK
    <3> QED BY <2>4, <3>1, <3>2
  <2>9. (CurrentInv /\ SingleInv)'
    BY <2>1, <2>4, <2>8 DEF CurrentInv, SingleInv
  <2> QED BY <2>5, <2>6, <2>7, <2>9
<1>3. ASSUME NEW r \in Runs, ChildGone(r) PROVE ServerInv'
  <2>1. DevTypeOK'
    BY <1>3 DEF ChildGone
  <2>2. (LooseInv /\ SpawnInv)'
    BY <1>3 DEF ChildGone
  <2>3. KilledInv'
    BY <1>3 DEF ChildGone
  <2>4. (CurrentInv /\ SingleInv)'
    BY <1>3 DEF ChildGone
  <2> QED BY <2>1, <2>2, <2>3, <2>4 DEF ServerInv
<1>4. ASSUME NEW r \in Runs, Hooks(r) PROVE ServerInv'
  <2>1. /\ UNCHANGED devVars
        /\ \/ step' = step
           \/ /\ step[r] \in {"hooks", "registered", "sweeping"}
              /\ \E where \in {"registered", "sweeping", "settled"} : step' = [step EXCEPT ![r] = where]
    BY <1>4 DEF Hooks, HookStep, HookFails, PreBuild, PreBuildFails, ReadLedger, Look, Remove,
                SweepFails, WriteLedger
  <2>2. \A q \in Runs : \/ step'[q] = step[q]
                         \/ /\ step[q] \in {"hooks", "registered", "sweeping"}
                            /\ step'[q] \in {"registered", "sweeping", "settled"}
    BY <2>1
  <2>3. AtWork' = AtWork
    BY <2>2
  <2> QED BY <2>1, <2>2, <2>3, QuietKeepsInv
<1>5. ASSUME NEW r \in Runs, StartProcess(r) PROVE ServerInv'
  <2> HIDE DEF LooseInv, SpawnInv, KilledInv, CurrentInv, SingleInv
  <2>1. /\ r \in AtWork \cap DevRuns /\ step[r] = "settled"
        /\ step' = [q \in Runs |-> IF q \in {r} THEN "done" ELSE step[q]]
        /\ child' = [child EXCEPT ![r] = "alive"] /\ childProcess' = r /\ served' = version
        /\ UNCHANGED <<server, killed, awaited, stopping, forceKillTimers, debounceTimer, version,
                       loose>>
    BY <1>5 DEF StartProcess, Spawns, Done, End
  <2>2. /\ Alive' = Alive \cup {r}
        /\ AtWork' \cap DevRuns = (AtWork \cap DevRuns) \ {r}
        /\ \A q \in Runs : step'[q] = "killing" <=> step[q] = "killing"
    BY <2>1
  <2>3. r \notin Alive /\ r \notin killed /\ server # "off"
    BY <2>1 DEF SpawnInv
  <2>4. /\ AtWork' \cap DevRuns # {} => r \in loose
        /\ server # "up" => r \in loose
    <3>1. ASSUME NEW q \in AtWork' \cap DevRuns PROVE r \in loose
      <4>1. q \in AtWork \cap DevRuns /\ q # r
        BY <2>2
      <4> QED BY <2>1, <4>1 DEF LooseInv
    <3>2. server # "up" => r \in loose
      BY <2>1 DEF LooseInv
    <3> QED BY <3>1, <3>2
  <2>5. server \in {"up", "closing"} => Alive \ loose \subseteq killed
    BY <2>1 DEF CurrentInv
  <2>6. DevTypeOK'
    <3>1. /\ killed' \subseteq {c \in DevRuns : child'[c] # "none"}
          /\ forceKillTimers' \subseteq {c \in DevRuns : child'[c] \in {"alive", "signalled"}}
          /\ child' \in [Runs -> {"none", "alive", "exited", "signalled"}]
      BY <2>1, <2>3
    <3>2. \A q \in Runs : step'[q] = "killing" => awaited'[q] \in killed'
      BY <2>1, <2>2
    <3> QED BY <2>1, <3>1, <3>2
  <2>7. (LooseInv /\ SpawnInv)'
    BY <2>1, <2>2, <2>3 DEF LooseInv, SpawnInv
  <2>8. KilledInv'
    BY <2>1, <2>2, <2>3 DEF KilledInv
  <2>9. CurrentInv'
    <3>1. server \in {"up", "closing"} =>
            /\ Alive' \ loose' \subseteq killed' \cup {childProcess'}
            /\ AtWork' \cap DevRuns # {} => Alive' \ loose' \subseteq killed'
      <4>1. Alive' \ loose' = (Alive \ loose) \cup ({r} \ loose)
        BY <2>1, <2>2
      <4>2. killed' = killed /\ childProcess' = r
        BY <2>1
      <4> HIDE DEF Alive, AtWork, DevRuns, ServerInv
      <4> QED BY <2>4, <2>5, <4>1, <4>2
    <3>2. server \in {"killing", "down"} => Alive' \subseteq killed' \cup loose'
      BY <2>1, <2>2, <2>4 DEF CurrentInv
    <3> QED BY <2>1, <3>1, <3>2 DEF CurrentInv
  <2>10. SingleInv'
    <3>1. ASSUME r \notin loose PROVE Alive \ loose = {}
      <4>1. SUFFICES ASSUME NEW c \in Alive \ loose PROVE FALSE
        OBVIOUS
      <4>2. server = "up" /\ c \in killed
        BY <2>4, <2>5, <3>1, <4>1
      <4>3. PICK q \in DevRuns : step[q] = "killing"
        BY <4>1, <4>2 DEF KilledInv
      <4> QED BY <2>1, <3>1, <4>3 DEF LooseInv
    <3> QED BY <2>1, <2>2, <3>1 DEF SingleInv
  <2> QED BY <2>6, <2>7, <2>8, <2>9, <2>10
<1>6. ASSUME NEW r \in DevRuns, Exit(r) PROVE ServerInv'
  <2>1. DevTypeOK'
    BY <1>6 DEF Exit, ledgerVars
  <2>2. (SpawnInv /\ KilledInv)'
    BY <1>6 DEF Exit, ledgerVars
  <2>3. (LooseInv /\ CurrentInv /\ SingleInv)'
    BY <1>6 DEF Exit, ledgerVars
  <2> QED BY <2>1, <2>2, <2>3 DEF ServerInv
<1>14. ASSUME NEW c \in DevRuns, ForceKill(c) PROVE ServerInv'
  <2> HIDE DEF LooseInv, SpawnInv, KilledInv, CurrentInv, SingleInv
  <2>1. /\ Alive' \subseteq Alive /\ AtWork' = AtWork
        /\ \A d \in DevRuns : child'[d] # "none" <=> child[d] # "none"
        /\ child' \in [Runs -> {"none", "alive", "exited", "signalled"}]
    BY <1>14 DEF ForceKill, ledgerVars
  <2>2. forceKillTimers' \subseteq {d \in DevRuns : child'[d] \in {"alive", "signalled"}}
    BY <1>14 DEF ForceKill
  <2>3. DevTypeOK'
    BY <1>14, <2>1, <2>2 DEF ForceKill, ledgerVars
  <2>4. (LooseInv /\ SpawnInv /\ KilledInv)'
    BY <1>14, <2>1 DEF ForceKill, ledgerVars, LooseInv, SpawnInv, KilledInv
  <2>5. (CurrentInv /\ SingleInv)'
    BY <1>14, <2>1 DEF ForceKill, ledgerVars, CurrentInv, SingleInv
  <2> QED BY <2>3, <2>4, <2>5
<1>7. CASE Change
  <2>1. version' \in 0..MaxChanges /\ served' \in 0..version'
    BY <1>7 DEF Change
  <2>2. debounceTimer' => server' = "up"
    BY <1>7, Zenon DEF Change
  <2>3. DevTypeOK'
    BY <1>7, <2>1, <2>2 DEF Change, ledgerVars
  <2>4. (LooseInv /\ SpawnInv /\ KilledInv /\ CurrentInv /\ SingleInv)'
    BY <1>7 DEF Change, ledgerVars
  <2> QED BY <2>3, <2>4
<1>8. ASSUME Signal PROVE ServerInv'
  <2>1. DevTypeOK'
    BY <1>8 DEF Signal, ledgerVars
  <2>2. LooseInv'
    BY <1>8 DEF Signal, ledgerVars
  <2>3. (SpawnInv /\ KilledInv /\ CurrentInv /\ SingleInv)'
    BY <1>8 DEF Signal, ledgerVars
  <2> QED BY <2>1, <2>2, <2>3 DEF ServerInv
<1>9. CASE WatcherClosed
  <2> HIDE DEF LooseInv, SpawnInv, KilledInv, CurrentInv, SingleInv
  <2>1. /\ server = "closing" /\ server' \in {"killing", "down"}
        /\ stopping' = childProcess
        /\ UNCHANGED <<ledgerVars, childProcess, child, awaited, debounceTimer, version, served, loose>>
    BY <1>9 DEF WatcherClosed
  <2>2. /\ killed \subseteq killed' /\ killed' \subseteq killed \cup (Alive \cap {childProcess})
        /\ childProcess \in Alive => childProcess \in killed'
        /\ forceKillTimers' \subseteq
             forceKillTimers \cup ({childProcess} \cap {c \in DevRuns : child[c] \in {"alive", "signalled"}})
    <3>1. CASE KillResolves(childProcess)
      BY <3>1 DEF KillResolves
    <3>2. CASE KillWaits(childProcess)
      BY <3>2 DEF KillWaits
    <3>3. CASE KillHangs(childProcess)
      BY <3>3 DEF KillHangs
    <3> QED BY <1>9, <3>1, <3>2, <3>3 DEF WatcherClosed
  <2>3. Alive' = Alive /\ AtWork' = AtWork /\ step' = step /\ ~debounceTimer'
    BY <2>1 DEF ledgerVars
  <2>4. DevTypeOK'
    <3>1. killed' \subseteq {c \in DevRuns : child'[c] # "none"}
      BY <2>1, <2>2
    <3>2. \A q \in Runs : step'[q] = "killing" => awaited'[q] \in killed'
      BY <2>1, <2>2, <2>3
    <3>3. forceKillTimers' \subseteq {c \in DevRuns : child'[c] \in {"alive", "signalled"}}
      BY <2>1, <2>2
    <3> QED BY <2>1, <2>3, <3>1, <3>2, <3>3
  <2>5. (LooseInv /\ SpawnInv /\ KilledInv)'
    BY <2>1, <2>3 DEF LooseInv, SpawnInv, KilledInv, ledgerVars
  <2>6. Alive \ loose \subseteq killed'
    <3>1. Alive \ loose \subseteq killed \cup {childProcess}
      BY <2>1 DEF CurrentInv
    <3>2. childProcess \in Alive => childProcess \in killed'
      BY <2>2
    <3> HIDE DEF Alive, ServerInv, DevTypeOK, LedgerTypeOK
    <3> QED BY <2>2, <3>1, <3>2
  <2>7. (CurrentInv /\ SingleInv)'
    BY <2>1, <2>3, <2>6 DEF CurrentInv, SingleInv
  <2> QED BY <2>4, <2>5, <2>7
<1>10. ASSUME ShutDown PROVE ServerInv'
  <2>1. DevTypeOK'
    BY <1>10 DEF ShutDown, ledgerVars
  <2>2. CurrentInv'
    BY <1>10 DEF ShutDown, ledgerVars
  <2>3. (LooseInv /\ SpawnInv /\ KilledInv /\ SingleInv)'
    BY <1>10 DEF ShutDown, ledgerVars
  <2> QED BY <2>1, <2>2, <2>3 DEF ServerInv
<1>11. ASSUME Crash PROVE ServerInv'
  <2>1. DevTypeOK'
    BY <1>11 DEF Crash, Die, End
  <2>2. (LooseInv /\ SpawnInv)'
    BY <1>11 DEF Crash, Die, End
  <2>3. (KilledInv /\ CurrentInv /\ SingleInv)'
    BY <1>11 DEF Crash, Die, End
  <2> QED BY <2>1, <2>2, <2>3 DEF ServerInv
<1>12. ASSUME NEW r \in Builds, Build(r) PROVE ServerInv'
  <2>1. UNCHANGED devVars
    BY <1>12 DEF Build
  <2>2. step'[r] # "killing" /\ \A q \in Runs : q # r => step'[q] = step[q]
    <3>1. CASE step[r] = "new" /\ Begin(r, "hooks")
      BY <3>1 DEF Begin
    <3>2. CASE Done(r)
      BY <3>2 DEF Done, End
    <3>3. CASE Die({r})
      BY <3>3 DEF Die, End
    <3> QED BY <1>12, <3>1, <3>2, <3>3 DEF Build
  <2>3. AtWork' \cap DevRuns = AtWork \cap DevRuns
    <3>1. \A q \in DevRuns : step'[q] = step[q]
      BY <2>2
    <3> QED BY <3>1
  <2> QED BY <2>1, <2>2, <2>3, QuietKeepsInv
<1>13. ASSUME NEW f \in Files, UserWrites(f) /\ UNCHANGED devVars PROVE ServerInv'
  BY <1>13, QuietKeepsInv DEF UserWrites
<1> QED BY <1>0, <1>1, <1>2, <1>3, <1>4, <1>5, <1>6, <1>7, <1>8, <1>9, <1>10, <1>11, <1>12, <1>13,
         <1>14 DEF DevNext

-----------------------------------------------------------------------------
(* The theorems                                                            *)

(* The inductive invariant holds throughout.                               *)
THEOREM DevInvariance == DevSpec => []DevInv
<1>1. DevInit => DevInv
  <2> USE DevAssumption, LedgerAssumption DEF DevInit, LedgerInit, DevRuns, Alive, AtWork
  <2>1. ASSUME DevInit PROVE DevTypeOK
    BY <2>1 DEF DevTypeOK, LedgerTypeOK
  <2>2. ASSUME DevInit PROVE LedgerInv
    BY <2>2, <2>1 DEF DevTypeOK, LedgerInv, OutputsInv, AloneInv, SweepInv, KeptInv, HandInv, TrackedInv
  <2>3. ASSUME DevInit PROVE LooseInv /\ SpawnInv /\ KilledInv /\ CurrentInv /\ SingleInv
    BY <2>3 DEF LooseInv, SpawnInv, KilledInv, CurrentInv, SingleInv
  <2> QED BY <2>1, <2>2, <2>3 DEF DevInv
<1>2. DevInv /\ [DevNext]_vars => DevInv'
  <2> SUFFICES ASSUME DevInv, [DevNext]_vars PROVE DevInv'
    OBVIOUS
  <2>1. LedgerInv'
    <3>1. CASE LedgerStep
      BY <3>1, LedgerKeepsInv DEF DevInv
    <3>2. CASE UNCHANGED ledgerVars
      BY <3>2 DEF DevInv, ledgerVars, LedgerInv, LedgerTypeOK, OutputsInv, AloneInv, SweepInv,
                  KeptInv, HandInv, TrackedInv, AtWork
    <3> QED BY <3>1, <3>2, LedgerSteps DEF DevInv
  <2>2. ServerInv'
    BY <2>1, ServerKeepsInv DEF DevInv, ServerInv, LedgerInv
  <2> QED BY <2>1, <2>2 DEF DevInv, ServerInv
<1> QED BY <1>1, <1>2, PTL DEF DevSpec

(* Each of the variables keeps its type, for any number of restarts and    *)
(* builds: a restart that awaits the end of a child has told it to end, and*)
(* the debounce timer runs only while the server is up.                    *)
THEOREM DevTypes == DevSpec => []DevTypeOK
<1>1. DevInv => DevTypeOK
  BY DEF DevInv
<1> QED BY <1>1, DevInvariance, PTL

(* For any number of restarts, builds and files: no two applications run   *)
(* and none is left running, and no generated file escapes the ledger,     *)
(* but for what overlapping runs, a failed or killed run explain           *)
(* (startDevServer(), sweepStaleOutputs()).                                *)
THEOREM NothingIsLeft == DevSpec => []NothingLeftBehind
<1>1. DevInv => NothingLeftBehind
  <2> SUFFICES ASSUME DevInv PROVE NothingLeftBehind
    OBVIOUS
  <2>1. OneAppAtATime
    BY DEF DevInv, OneAppAtATime, SingleInv, CurrentInv
  <2>2. OutputsTracked
    BY DEF DevInv, LedgerInv, OutputsTracked, KeptInv, HandInv, TrackedInv
  <2> QED BY <2>1, <2>2 DEF NothingLeftBehind
<1> QED BY <1>1, DevInvariance, PTL

=============================================================================
