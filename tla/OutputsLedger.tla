----------------------------- MODULE OutputsLedger -----------------------------
(***************************************************************************)
(* What the runs of `zelt build` and of the development server generate,   *)
(* and the ledger by which later runs find and remove what is stale.       *)
(* Files within .zelt belong to the tool; elsewhere a file is removed only *)
(* if it carries the marker of generated files.  Runs may overlap; any     *)
(* call of the file system may reject, and the process die at any step.    *)
(***************************************************************************)
EXTENDS Naturals

CONSTANTS
  Runs,
  Files,
  ZeltDir   \* the files within .zelt

ASSUME LedgerAssumption == Runs \subseteq Nat /\ ZeltDir \subseteq Files

VARIABLES
  disk,        \* each file: "absent", "generated" with the marker, or "handwritten"
  ledger,      \* .zelt/outputs.json
  step,        \* where each run is
  outputs,     \* the files that a run generated and registered
  stale,       \* the entries of the ledger that a run has yet to look at
  removing,    \* those it found to be generated and is about to remove
  overlapped,  \* history: runs at work that were so together with another one
  untracked,   \* history: files of runs that did not come to record them
  byHand       \* history: files that the user was the last to write, and not
               \* while a run was about to remove them

ledgerVars == <<disk, ledger, step, outputs, stale, removing, overlapped, untracked, byHand>>

LedgerInit ==
  /\ disk = [f \in Files |-> "absent"]
  /\ ledger = {}
  /\ step = [r \in Runs |-> "new"]
  /\ outputs = [r \in Runs |-> {}]
  /\ stale = [r \in Runs |-> {}]
  /\ removing = [r \in Runs |-> {}]
  /\ overlapped = {}
  /\ untracked = {}
  /\ byHand = {}

AtWork == {r \in Runs : step[r] \notin {"new", "stuck", "done", "dead"}}

GoTo(r, where) == step' = [step EXCEPT ![r] = where]

(* A run begins.                                                           *)
Begin(r, where) ==
  /\ GoTo(r, where)
  /\ overlapped' = IF AtWork = {} THEN {} ELSE overlapped \cup AtWork \cup {r}
  /\ UNCHANGED <<disk, ledger, outputs, stale, removing, untracked, byHand>>

Generates(files) ==
  /\ disk' = [f \in Files |-> IF f \in files THEN "generated" ELSE disk[f]]
  /\ byHand' = byHand \ files

(* runPreBuildHooks() and writePrebuiltModule(): plugins write files and   *)
(* register them.                                                          *)
PreBuild(r) ==
  /\ step[r] = "hooks"
  /\ GoTo(r, "registered")
  /\ \E files \in SUBSET Files :
       Generates(files) /\ outputs' = [outputs EXCEPT ![r] = files]
  /\ UNCHANGED <<ledger, stale, removing, overlapped, untracked>>

(* One of them throws after others wrote their files.                      *)
PreBuildFails(r) ==
  /\ step[r] = "hooks"
  /\ GoTo(r, "settled")
  /\ \E files \in SUBSET Files :
       Generates(files) /\ untracked' = untracked \cup (files \ ledger)
  /\ UNCHANGED <<ledger, outputs, stale, removing, overlapped>>

(* sweepStaleOutputs(): readLedger(),                                      *)
ReadLedger(r) ==
  /\ step[r] = "registered"
  /\ GoTo(r, "sweeping")
  /\ stale' = [stale EXCEPT ![r] = ledger \ outputs[r]]
  /\ UNCHANGED <<disk, ledger, outputs, removing, overlapped, untracked, byHand>>

IsOurs(f) == disk[f] = "generated" \/ (disk[f] # "absent" /\ f \in ZeltDir)

(* then, for one stale file after the other, the look at what is there     *)
Look(r) ==
  /\ step[r] = "sweeping" /\ removing[r] = {}
  /\ \E f \in stale[r] :
       /\ stale' = [stale EXCEPT ![r] = @ \ {f}]
       /\ removing' = IF IsOurs(f) THEN [removing EXCEPT ![r] = {f}] ELSE removing
  /\ UNCHANGED <<disk, ledger, step, outputs, overlapped, untracked, byHand>>

(* and the removal, of whatever is there by then,                          *)
Remove(r) ==
  /\ step[r] = "sweeping" /\ removing[r] # {}
  /\ disk' = [f \in Files |-> IF f \in removing[r] THEN "absent" ELSE disk[f]]
  /\ removing' = [removing EXCEPT ![r] = {}]
  /\ UNCHANGED <<ledger, step, outputs, stale, overlapped, untracked, byHand>>

Records(r) ==
  /\ ledger' = outputs[r]
  /\ untracked' = (IF r \in overlapped THEN untracked \cup ledger ELSE untracked) \ outputs[r]
  /\ UNCHANGED <<disk, outputs, removing, overlapped, byHand>>

(* Mutant of WriteLedger: the ledger is written before the files go.       *)
WriteLedgerFirst(r) ==
  /\ step[r] = "sweeping" /\ Records(r)
  /\ \/ ledger # outputs[r] /\ UNCHANGED <<step, stale>>
     \/ stale[r] \cup removing[r] = {} /\ GoTo(r, "settled") /\ UNCHANGED stale

(* and writeLedger(), which replaces the ledger at once.  The build and    *)
(* postBuild hooks that follow may fail or not; the run goes on.           *)
WriteLedger(r) ==
  /\ step[r] = "sweeping" /\ stale[r] \cup removing[r] = {}
  /\ Records(r)
  /\ GoTo(r, "settled") /\ UNCHANGED stale

(* Any of this may reject, the ledger being corrupt for one; the run then  *)
(* stops where it is and records nothing.                                  *)
SweepFails(r) ==
  /\ step[r] \in {"registered", "sweeping"}
  /\ GoTo(r, "settled")
  /\ stale' = [stale EXCEPT ![r] = {}] /\ removing' = [removing EXCEPT ![r] = {}]
  /\ untracked' = untracked \cup (outputs[r] \ ledger)
  /\ UNCHANGED <<disk, ledger, outputs, overlapped, byHand>>

HookStep(r) == PreBuild(r) \/ ReadLedger(r) \/ Look(r) \/ Remove(r) \/ WriteLedger(r)
HookFails(r) == PreBuildFails(r) \/ SweepFails(r)

(* Runs end, and their variables with them,                                *)
End(runs, how) ==
  /\ step' = [r \in Runs |-> IF r \in runs THEN how ELSE step[r]]
  /\ outputs' = [r \in Runs |-> IF r \in runs THEN {} ELSE outputs[r]]
  /\ stale' = [r \in Runs |-> IF r \in runs THEN {} ELSE stale[r]]
  /\ removing' = [r \in Runs |-> IF r \in runs THEN {} ELSE removing[r]]
  /\ overlapped' = overlapped \ runs
  /\ UNCHANGED <<disk, ledger, byHand>>

(* by themselves, or since their process dies.                             *)
Done(r) == step[r] = "settled" /\ End({r}, "done") /\ UNCHANGED untracked
Die(runs) ==
  /\ End(runs, "dead")
  /\ LET registered == UNION {outputs[r] : r \in {q \in runs : step[q] \in {"registered", "sweeping"}}}
     IN  untracked' = untracked \cup (registered \ ledger)

(* The user writes a file of his own, perhaps over a generated one.        *)
UserWrites(f) ==
  /\ f \notin ZeltDir \cup byHand
  /\ disk' = [disk EXCEPT ![f] = "handwritten"]
  /\ byHand' = IF \E r \in Runs : f \in removing[r] THEN byHand ELSE byHand \cup {f}
  /\ UNCHANGED <<ledger, step, outputs, stale, removing, overlapped, untracked>>

-----------------------------------------------------------------------------
(* Properties *)

LedgerTypeOK ==
  /\ disk \in [Files -> {"absent", "generated", "handwritten"}]
  /\ {ledger, untracked, byHand} \subseteq SUBSET Files
  /\ step \in [Runs -> {"new", "killing", "stuck", "hooks", "registered", "sweeping", "settled",
                        "done", "dead"}]
  /\ {outputs, stale, removing} \subseteq [Runs -> SUBSET Files]
  /\ overlapped \subseteq Runs

(* Every generated file is in the ledger, so that a later run removes it   *)
(* when it is stale, whichever run died half way through its sweep; except *)
(* what a run generated that failed before it came to record it, or that   *)
(* ran together with another one.  No run removes what it has generated,   *)
(* unless runs overlap; and none removes what the user wrote, unless he    *)
(* wrote it between the look at the file before and its removal.           *)
OutputsTracked ==
  /\ \A f \in Files : disk[f] = "generated" =>
       \/ f \in ledger \cup untracked
       \/ \E r \in AtWork : step[r] \in {"registered", "sweeping"} /\ f \in outputs[r]
  /\ \A r \in Runs : \A f \in outputs[r] :
       step[r] = "settled" /\ r \notin overlapped => disk[f] # "absent"
  /\ \A f \in byHand : disk[f] = "handwritten"
=============================================================================
