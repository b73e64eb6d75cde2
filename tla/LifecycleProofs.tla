--------------------------- MODULE LifecycleProofs ---------------------------
(***************************************************************************)
(* Proofs about the lifecycle manager and about the runtime that drives    *)
(* it, for any number of entries, callers and callbacks.                   *)
(*                                                                         *)
(* The first part is about the manager alone: what holds even when         *)
(* shutdown() is called at the worst moment, where the invariant describes *)
(* the manager until it is disposed; what needs the startup batch to be    *)
(* over when shutdown() begins, where it says that there is then one       *)
(* stopper, working down from the top of the running prefix; and that the  *)
(* manager implements the stack of resources.  The second part is about    *)
(* the manager in its runtime, with a server.                              *)
(***************************************************************************)
EXTENDS Servers, TLAPS

(* The type invariant without the Boolean `disposed`, which the proofs     *)
(* treat on its own.                                                       *)
Typed ==
  /\ count \in 0..MaxEntries
  /\ startedIndex \in 0..MaxEntries
  /\ batch \in {"none", "starting", "rollback", "drained", "failed"}
  /\ cur \in 0..MaxEntries
  /\ stopping \in [Stoppers -> 0..MaxEntries]
  /\ shutdownPc \in {"none", "stopping", "done"}
  /\ ready \in [Entries -> {"pending", "ready", "disposed"}]
  /\ pc \in [Callers -> {"idle", "waiting", "resumed", "returned", "reentered", "threw"}]
  /\ awaited \subseteq Callers
  /\ refusing \subseteq Guarded
  /\ status \in [Entries -> {"new", "starting", "up", "failed", "stopping", "down"}]
  /\ starts \in [Entries -> 0..2]
  /\ stops \in [Entries -> 0..2]

(* The indices stay inside the registered entries.                         *)
Bounds ==
  /\ startedIndex <= count
  /\ batch = "starting" => startedIndex < count /\ cur \in 1..count

(* Until it is disposed the manager runs exactly the first startedIndex    *)
(* entries, is starting at most the next one, and stops nothing.           *)
Open ==
  /\ batch \in {"none", "starting", "drained"}
  /\ batch = "starting" => cur = startedIndex + 1
  /\ \A p \in Stoppers : stopping[p] = 0
  /\ shutdownPc = "none"
  /\ \A i \in Entries :
       IF i <= startedIndex THEN status[i] = "up"
       ELSE status[i] = IF batch = "starting" /\ i = cur THEN "starting" ELSE "new"

OpenInv == ~disposed => Open

ConcurrentInv == TypeOK /\ Bounds /\ OpenInv

-----------------------------------------------------------------------------
(* The concurrent manager *)

LEMMA EntriesAreNat == MaxEntries \in Nat /\ Entries \subseteq Nat \ {0}
  BY LifecycleAssumption DEF Entries

LEMMA TypedIsTypeOK == TypeOK <=> Typed /\ disposed \in BOOLEAN
  BY DEF TypeOK, Typed

LEMMA InitConcurrent == LifecycleInit => ConcurrentInv
<1> SUFFICES ASSUME LifecycleInit PROVE ConcurrentInv
  OBVIOUS
<1>1. Typed
  BY EntriesAreNat DEF LifecycleInit, Typed
<1>2. disposed \in BOOLEAN
  BY DEF LifecycleInit
<1>3. Bounds
  BY DEF LifecycleInit, Bounds
<1>4. OpenInv
  BY EntriesAreNat DEF LifecycleInit, OpenInv, Open, Entries
<1>5. QED
  BY <1>1, <1>2, <1>3, <1>4, TypedIsTypeOK DEF ConcurrentInv

(* One pass of the startup loop, with `idx` entries started.               *)
LEMMA StartFromTyped ==
  ASSUME Typed, count' \in count..MaxEntries, NEW idx \in 0..count',
         NEW st \in [Entries -> {"new", "starting", "up", "failed", "stopping", "down"}],
         StartFrom(idx, st)
  PROVE  /\ startedIndex' \in 0..MaxEntries
         /\ batch' \in {"starting", "drained"}
         /\ cur' \in 0..MaxEntries
         /\ status' \in [Entries -> {"new", "starting", "up", "failed", "stopping", "down"}]
         /\ starts' \in [Entries -> 0..2]
         /\ Bounds'
<1>1. CASE idx < count'
  <2>1. /\ startedIndex' = idx
        /\ batch' = "starting"
        /\ cur' = idx + 1
        /\ status' = [st EXCEPT ![idx + 1] = "starting"]
        /\ starts' = OnceMore(starts, idx + 1)
    BY <1>1 DEF StartFrom
  <2>2. count' \in Nat /\ idx + 1 \in Entries /\ idx + 1 \in 1..count'
    BY <1>1, EntriesAreNat DEF Typed, Entries
  <2>3. starts' \in [Entries -> 0..2]
    BY <2>1, <2>2 DEF Typed, OnceMore
  <2>4. QED
    BY <1>1, <2>1, <2>2, <2>3, EntriesAreNat DEF Bounds, Entries
<1>2. CASE ~(idx < count')
  BY <1>2, EntriesAreNat DEF Typed, Bounds, StartFrom
<1>3. QED
  BY <1>1, <1>2

(* One pass of the stop loop, with `idx` entries counted as started.       *)
LEMMA StopFromTyped ==
  ASSUME Typed, NEW p \in Stoppers, NEW idx \in 0..count,
         NEW st \in [Entries -> {"new", "starting", "up", "failed", "stopping", "down"}],
         NEW rd \in [Entries -> {"pending", "ready", "disposed"}],
         StopFrom(p, idx, st, rd)
  PROVE  /\ startedIndex' \in 0..idx
         /\ batch' \in {"none", "starting", "rollback", "drained", "failed"}
         /\ batch' = "starting" => batch = "starting" /\ p = "shutdown"
         /\ stopping' \in [Stoppers -> 0..MaxEntries]
         /\ shutdownPc' \in {"none", "stopping", "done"}
         /\ ready' \in [Entries -> {"pending", "ready", "disposed"}]
         /\ status' \in [Entries -> {"new", "starting", "up", "failed", "stopping", "down"}]
         /\ stops' \in [Entries -> 0..2]
<1>0. idx \in 0..MaxEntries
  BY EntriesAreNat DEF Typed
<1>1. /\ stopping' = [stopping EXCEPT ![p] = idx]
      /\ batch' = IF p = "shutdown" THEN batch ELSE IF idx > 0 THEN "rollback" ELSE "failed"
      /\ shutdownPc' = IF p = "rollback" THEN shutdownPc ELSE IF idx > 0 THEN "stopping" ELSE "done"
  BY DEF StopFrom
<1>2. stopping' \in [Stoppers -> 0..MaxEntries]
  BY <1>0, <1>1 DEF Typed
<1>3. /\ batch' \in {"none", "starting", "rollback", "drained", "failed"}
      /\ batch' = "starting" => batch = "starting" /\ p = "shutdown"
  BY <1>1 DEF Typed
<1>4. shutdownPc' \in {"none", "stopping", "done"}
  BY <1>1 DEF Typed
<1>5. CASE idx > 0
  <2>1. /\ startedIndex' = idx - 1
        /\ status' = [st EXCEPT ![idx] = "stopping"]
        /\ stops' = OnceMore(stops, idx)
        /\ ready' = rd
    BY <1>5 DEF StopFrom
  <2>2. startedIndex' \in 0..idx
    BY <1>5, <2>1
  <2>3. stops' \in [Entries -> 0..2]
    <3>1. stops \in [Entries -> 0..2]
      BY DEF Typed
    <3>2. (IF stops[idx] = 0 THEN 1 ELSE 2) \in 0..2
      OBVIOUS
    <3>3. stops' = [stops EXCEPT ![idx] = IF stops[idx] = 0 THEN 1 ELSE 2]
      BY <2>1 DEF OnceMore
    <3>4. QED
      BY <3>1, <3>2, <3>3
  <2>4. status' \in [Entries -> {"new", "starting", "up", "failed", "stopping", "down"}]
    BY <2>1
  <2>5. QED
    BY <1>2, <1>3, <1>4, <2>1, <2>2, <2>3, <2>4
<1>6. CASE ~(idx > 0)
  <2>1. /\ startedIndex' = 0
        /\ status' = st
        /\ ready' = [i \in Entries |-> IF i <= count THEN "disposed" ELSE rd[i]]
        /\ stops' = stops
    BY <1>6 DEF StopFrom
  <2>2. ready' \in [Entries -> {"pending", "ready", "disposed"}]
    BY <2>1
  <2>3. startedIndex' \in 0..idx /\ stops' \in [Entries -> 0..2]
    BY <1>6, <2>1 DEF Typed
  <2>4. QED
    BY <1>2, <1>3, <1>4, <2>1, <2>2, <2>3
<1>7. QED
  BY <1>5, <1>6

(* Every step of the concurrent manager keeps the types and the bounds.    *)
LEMMA TypedStep ==
  ASSUME Typed, Bounds, [ConcurrentNext]_lifecycleVars
  PROVE  Typed' /\ Bounds'
<1> USE EntriesAreNat
<1>1. CASE Register
  BY <1>1 DEF Register, Typed, Bounds
<1>2. ASSUME NEW i \in Guarded, ToggleGuard(i)
      PROVE  Typed' /\ Bounds'
  BY <1>2 DEF ToggleGuard, Typed, Bounds
<1>3. ASSUME NEW c \in Callers, count' \in count..MaxEntries, Loop(c), awaited' \subseteq Callers,
             UNCHANGED <<stopping, shutdownPc, ready, refusing, stops>>
      PROVE  Typed' /\ Bounds'
  <2>1. pc' \in [Callers -> {"idle", "waiting", "resumed", "returned", "reentered", "threw"}]
    BY <1>3 DEF Loop, Typed
  <2>2. CASE UNCHANGED <<startedIndex, batch, cur, status, starts>>
    BY <1>3, <2>1, <2>2 DEF Typed, Bounds
  <2>3. CASE StartFrom(startedIndex, status) /\ startedIndex < count'
    <3>1. startedIndex \in 0..count' /\ count' \in count..MaxEntries
      BY <1>3 DEF Typed, Bounds
    <3>2. QED
      BY <1>3, <2>1, <2>3, <3>1, StartFromTyped DEF Typed
  <2>4. QED
    BY <1>3, <2>2, <2>3 DEF Loop
<1>4. ASSUME NEW c \in Callers, NEW inside \in BOOLEAN, StartupPending(c, inside)
      PROVE  Typed' /\ Bounds'
  <2>1. CASE Loop(c) /\ awaited' = IF inside THEN awaited \cup {c} ELSE awaited
    <3>1. awaited' \subseteq Callers
      BY <2>1 DEF Typed
    <3>2. QED
      BY <1>3, <1>4, <2>1, <3>1 DEF StartupPending, StartupPendingCall
  <2>2. CASE UNCHANGED <<startedIndex, batch, cur, status, starts, awaited>>
    BY <1>4, <2>2 DEF StartupPending, StartupPendingCall, Loop, Typed, Bounds
  <2>3. QED
    BY <1>4, <2>1, <2>2 DEF StartupPending, StartupPendingCall
<1>5. ASSUME NEW c \in Callers, Resume(c)
      PROVE  Typed' /\ Bounds'
  BY <1>3, <1>5 DEF Resume, Typed
<1>6. ASSUME NEW object \in BOOLEAN, HookStarted(object)
      PROVE  Typed' /\ Bounds'
  <2> DEFINE st == [status EXCEPT ![cur] = "up"]
  <2>1. /\ batch = "starting"
        /\ StartFrom(startedIndex + 1, st)
        /\ ready' = IF object THEN [ready EXCEPT ![cur] = "ready"] ELSE ready
        /\ UNCHANGED <<count, stopping, shutdownPc, pc, awaited, refusing, stops>>
    BY <1>6 DEF HookStarted, HookSettles
  <2>2. startedIndex + 1 \in 0..count' /\ count' \in count..MaxEntries
    BY <2>1 DEF Typed, Bounds
  <2>3. st \in [Entries -> {"new", "starting", "up", "failed", "stopping", "down"}]
    BY DEF Typed
  <2>4. ready' \in [Entries -> {"pending", "ready", "disposed"}]
    BY <2>1 DEF Typed
  <2> HIDE DEF st
  <2>5. QED
    BY <2>1, <2>2, <2>3, <2>4, StartFromTyped DEF Typed
<1>7. ASSUME NEW p \in Stoppers, NEW idx \in 0..count,
             NEW st \in [Entries -> {"new", "starting", "up", "failed", "stopping", "down"}],
             NEW rd \in [Entries -> {"pending", "ready", "disposed"}],
             StopFrom(p, idx, st, rd),
             batch = "starting" /\ p = "shutdown" => idx <= startedIndex,
             UNCHANGED <<count, cur, pc, awaited, refusing, starts>>
      PROVE  Typed' /\ Bounds'
  <2>1. Typed'
    BY <1>7, StopFromTyped DEF Typed
  <2>2. Bounds'
    BY <1>7, StopFromTyped DEF Typed, Bounds
  <2>3. QED
    BY <2>1, <2>2
<1>8. CASE SealFailed \/ HookFailed
  <2>1. PICK idx \in {startedIndex, startedIndex + 1}, v \in {"up", "failed"} :
          /\ batch = "starting"
          /\ StopFrom("rollback", idx, [status EXCEPT ![cur] = v], ready)
          /\ UNCHANGED <<count, cur, pc, awaited, refusing, starts>>
    BY <1>8 DEF SealFailed, HookFailed, FailStartup, HookSettles
  <2>2. idx \in 0..count
    BY <2>1 DEF Typed, Bounds
  <2>3. /\ [status EXCEPT ![cur] = v]
             \in [Entries -> {"new", "starting", "up", "failed", "stopping", "down"}]
        /\ ready \in [Entries -> {"pending", "ready", "disposed"}]
    BY DEF Typed
  <2>4. "rollback" \in Stoppers /\ "rollback" # "shutdown"
    BY DEF Stoppers
  <2>5. QED
    BY <1>7, <2>1, <2>2, <2>3, <2>4
<1>9. CASE BatchFinally
  BY <1>9 DEF BatchFinally, Typed, Bounds
<1>10. ASSUME NEW p \in Stoppers, StopHookSettled(p)
       PROVE  Typed' /\ Bounds'
  <2>1. startedIndex \in 0..count /\ startedIndex <= startedIndex
    BY DEF Typed, Bounds
  <2>2. /\ [status EXCEPT ![stopping[p]] = "down"]
             \in [Entries -> {"new", "starting", "up", "failed", "stopping", "down"}]
        /\ [ready EXCEPT ![stopping[p]] = "disposed"]
             \in [Entries -> {"pending", "ready", "disposed"}]
    BY DEF Typed
  <2>3. QED
    BY <1>7, <1>10, <2>1, <2>2 DEF StopHookSettled
<1>11. CASE Shutdown
  <2>1. startedIndex \in 0..count /\ startedIndex <= startedIndex
    BY DEF Typed, Bounds
  <2>2. "shutdown" \in Stoppers
    BY DEF Stoppers
  <2>3. QED
    BY <1>7, <1>11, <2>1, <2>2 DEF Shutdown, Typed
<1>12. CASE UNCHANGED lifecycleVars
  BY <1>12 DEF lifecycleVars, Typed, Bounds
<1>13. QED
  BY <1>1, <1>2, <1>4, <1>5, <1>6, <1>8, <1>9, <1>10, <1>11, <1>12
  DEF ConcurrentNext, Internal, Startup

(* A pass of the startup loop over a prefix of running entries keeps it so.*)
LEMMA StartFromOpen ==
  ASSUME Typed, count' \in Nat, NEW idx \in 0..count',
         NEW st \in [Entries -> {"new", "starting", "up", "failed", "stopping", "down"}],
         \A i \in Entries : st[i] = IF i <= idx THEN "up" ELSE "new",
         \A p \in Stoppers : stopping[p] = 0, shutdownPc = "none",
         UNCHANGED <<stopping, shutdownPc>>,
         StartFrom(idx, st)
  PROVE  Open'
<1>1. CASE idx < count'
  <2>1. /\ startedIndex' = idx
        /\ batch' = "starting"
        /\ cur' = idx + 1
        /\ status' = [st EXCEPT ![idx + 1] = "starting"]
    BY <1>1 DEF StartFrom
  <2>2. \A i \in Entries : i \in Nat
    BY EntriesAreNat
  <2>3. QED
    BY <2>1, <2>2 DEF Open
<1>2. CASE ~(idx < count')
  BY <1>2 DEF StartFrom, Open
<1>3. QED
  BY <1>1, <1>2

(* Until it is disposed, every step keeps the running entries a prefix.    *)
LEMMA OpenStep ==
  ASSUME Typed, Bounds, OpenInv, [ConcurrentNext]_lifecycleVars
  PROVE  OpenInv'
<1>1. SUFFICES ASSUME ~disposed' PROVE Open'
  BY DEF OpenInv
<1>2. CASE Register
  BY <1>1, <1>2 DEF Register, OpenInv, Open
<1>3. ASSUME NEW i \in Guarded, ToggleGuard(i) PROVE Open'
  BY <1>1, <1>3 DEF ToggleGuard, OpenInv, Open
<1>4. ASSUME NEW c \in Callers, count' \in count..MaxEntries, Loop(c),
             UNCHANGED <<disposed, stopping, shutdownPc>>
      PROVE  Open'
  <2>1. Open
    BY <1>1, <1>4 DEF OpenInv, Open
  <2>2. CASE UNCHANGED <<startedIndex, batch, cur, status, starts>>
    BY <1>4, <2>1, <2>2 DEF Open
  <2>3. CASE batch = "none" /\ StartFrom(startedIndex, status)
    <3>1. startedIndex \in 0..count' /\ count' \in Nat
      BY <1>4 DEF Typed, Bounds
    <3>2. status \in [Entries -> {"new", "starting", "up", "failed", "stopping", "down"}]
      BY DEF Typed
    <3>3. \A i \in Entries : status[i] = IF i <= startedIndex THEN "up" ELSE "new"
      BY <2>1, <2>3 DEF Open
    <3>4. QED
      BY <1>4, <2>1, <2>3, <3>1, <3>2, <3>3, StartFromOpen DEF Open
  <2>4. QED
    BY <1>4, <2>2, <2>3 DEF Loop
<1>5. ASSUME NEW c \in Callers, NEW inside \in BOOLEAN, StartupPending(c, inside) PROVE Open'
  <2>1. CASE Loop(c)
    BY <1>4, <1>5, <2>1 DEF StartupPending, StartupPendingCall
  <2>2. CASE UNCHANGED <<startedIndex, batch, cur, status, starts>>
    BY <1>1, <1>5, <2>2 DEF StartupPending, StartupPendingCall, OpenInv, Open
  <2>3. QED
    BY <1>5, <2>1, <2>2 DEF StartupPending, StartupPendingCall
<1>6. ASSUME NEW c \in Callers, Resume(c) PROVE Open'
  BY <1>4, <1>6 DEF Resume, Typed
<1>7. ASSUME NEW object \in BOOLEAN, HookStarted(object) PROVE Open'
  <2> DEFINE st == [status EXCEPT ![cur] = "up"]
  <2>1. /\ batch = "starting"
        /\ StartFrom(startedIndex + 1, st)
        /\ UNCHANGED <<count, stopping, shutdownPc>>
    BY <1>7 DEF HookStarted, HookSettles
  <2>2. Open
    BY <1>1, <1>7 DEF HookStarted, OpenInv, Open
  <2>3. startedIndex + 1 \in 0..count' /\ count' \in Nat /\ startedIndex \in Nat
    BY <2>1 DEF Typed, Bounds
  <2>4. st \in [Entries -> {"new", "starting", "up", "failed", "stopping", "down"}]
    BY DEF Typed
  <2>5. \A i \in Entries : st[i] = IF i <= startedIndex + 1 THEN "up" ELSE "new"
    BY <2>1, <2>2, <2>3, EntriesAreNat DEF Open, Typed
  <2> HIDE DEF st
  <2>6. QED
    BY <2>1, <2>2, <2>3, <2>4, <2>5, StartFromOpen DEF Open
<1>8. CASE SealFailed \/ HookFailed \/ Shutdown
  BY <1>1, <1>8 DEF SealFailed, HookFailed, FailStartup, Shutdown
<1>9. CASE BatchFinally
  BY <1>1, <1>9 DEF BatchFinally, OpenInv, Open
<1>10. ASSUME NEW p \in Stoppers, StopHookSettled(p) PROVE Open'
  BY <1>1, <1>10 DEF StopHookSettled, OpenInv, Open
<1>11. CASE UNCHANGED lifecycleVars
  BY <1>1, <1>11 DEF lifecycleVars, OpenInv, Open
<1>12. QED
  BY <1>2, <1>3, <1>5, <1>6, <1>7, <1>8, <1>9, <1>10, <1>11
  DEF ConcurrentNext, Internal, Startup

(* `disposed` is a Boolean that is never reset.                            *)
LEMMA DisposedStep ==
  ASSUME disposed \in BOOLEAN, [ConcurrentNext]_lifecycleVars
  PROVE  disposed' \in BOOLEAN /\ (disposed => disposed')
BY DEF ConcurrentNext, Internal, Startup, lifecycleVars, Register, ToggleGuard, StartupPending,
       StartupPendingCall, Resume, HookStarted, SealFailed, HookFailed, FailStartup,
       BatchFinally, StopHookSettled, Shutdown

LEMMA ConcurrentStep == ConcurrentInv /\ [ConcurrentNext]_lifecycleVars => ConcurrentInv'
  BY TypedStep, OpenStep, DisposedStep, TypedIsTypeOK DEF ConcurrentInv, TypeOK, Typed

LEMMA ConcurrentCorrect == ConcurrentSpec => []ConcurrentInv
  BY InitConcurrent, ConcurrentStep, PTL DEF ConcurrentSpec

(* The type invariant holds for any number of entries and callers, even    *)
(* when shutdown() overlaps a startup batch: startedIndex, which both      *)
(* loops move, never leaves the lifecycles array.                          *)
THEOREM TypeCorrect == ConcurrentSpec => []TypeOK
  BY ConcurrentCorrect, PTL DEF ConcurrentInv

(* A caller is answered by the last pass of the loop, over a prefix that   *)
(* runs.                                                                   *)
LEMMA AnswerStep ==
  ConcurrentInv /\ [ConcurrentNext]_lifecycleVars
    => [\A c \in Callers :
          pc[c] # "returned" /\ pc'[c] = "returned"
            => ~disposed /\ \A i \in 1..count' : status[i] = "up"]_lifecycleVars
<1> SUFFICES ASSUME ConcurrentInv, [ConcurrentNext]_lifecycleVars, NEW c \in Callers,
                    pc[c] # "returned", pc'[c] = "returned"
             PROVE  ~disposed /\ \A i \in 1..count' : status[i] = "up"
  OBVIOUS
<1>1. PICK d \in Callers : count' \in count..MaxEntries /\ Loop(d)
  <2>1. CASE BatchFinally
    BY <2>1 DEF BatchFinally, ConcurrentInv, TypeOK
  <2>2. CASE \E d \in Callers, inside \in BOOLEAN : StartupPending(d, inside)
    BY <2>2 DEF StartupPending, StartupPendingCall, ConcurrentInv, TypeOK
  <2>3. CASE \E d \in Callers : Resume(d)
    BY <2>3 DEF Resume, ConcurrentInv, TypeOK
  <2>4. CASE UNCHANGED pc
    BY <2>4
  <2>5. QED
    BY <2>1, <2>2, <2>3, <2>4
    DEF ConcurrentNext, Internal, Startup, lifecycleVars, Register, ToggleGuard, HookStarted,
        SealFailed, HookFailed, StopHookSettled, Shutdown
<1>2. ~disposed /\ batch = "none" /\ startedIndex >= count'
  BY <1>1 DEF Loop, ConcurrentInv, TypeOK
<1>3. count' \in Nat /\ count' <= MaxEntries /\ startedIndex \in Nat
  BY <1>1, EntriesAreNat DEF ConcurrentInv, TypeOK
<1>4. Open /\ \A i \in 1..count' : i \in Entries /\ i <= startedIndex
  BY <1>2, <1>3, EntriesAreNat DEF ConcurrentInv, OpenInv, Entries
<1>5. QED
  BY <1>2, <1>4 DEF Open

(* A caller of startupPending() is answered only when everything that was  *)
(* registered by then runs, whatever other callers and shutdown() do.      *)
THEOREM AnswerMeansRunning == ConcurrentSpec => ReturnsWhenAllRun
  BY AnswerStep, ConcurrentCorrect, PTL DEF ConcurrentSpec, ReturnsWhenAllRun

-----------------------------------------------------------------------------
(* The teardown *)

StatusValues == {"new", "starting", "up", "failed", "stopping", "down"}

ReadyValues == {"pending", "ready", "disposed"}

(* While it is torn down there is one stopper, at the top of the stack.    *)
TearingDown ==
  /\ batch \in {"none", "rollback", "failed"}
  /\ batch = "rollback" <=> stopping["rollback"] > 0
  /\ shutdownPc = "stopping" <=> stopping["shutdown"] > 0
  /\ batch # "none" => shutdownPc = "none"
  /\ \A p \in Stoppers : stopping[p] > 0 => stopping[p] = startedIndex + 1
  /\ (\A p \in Stoppers : stopping[p] = 0) => startedIndex = 0
  /\ \A i \in Entries :
       IF i <= startedIndex THEN status[i] = "up"
       ELSE IF \E p \in Stoppers : stopping[p] = i THEN status[i] = "stopping"
       ELSE status[i] \in {"new", "failed", "down"}

ClosedInv == disposed => TearingDown

(* What the hooks' history says of a status.                               *)
Recorded(st, sta, sto) ==
  \A i \in Entries :
    /\ sta[i] = IF st[i] = "new" THEN 0 ELSE 1
    /\ sto[i] = IF st[i] \in {"stopping", "down"} THEN 1 ELSE 0

HistoryInv == Recorded(status, starts, stops)

(* No ReadyValue is disposed before its entry is down.                     *)
ReadyInv ==
  /\ ~disposed => \A i \in Entries : ready[i] # "disposed"
  /\ \A i \in Entries : status[i] \in {"up", "stopping"} => ready[i] # "disposed"

SerialInv == ConcurrentInv /\ ClosedInv /\ HistoryInv /\ ReadyInv

-----------------------------------------------------------------------------

LEMMA InitSerial == LifecycleInit => SerialInv
<1> SUFFICES ASSUME LifecycleInit PROVE SerialInv
  OBVIOUS
<1>1. ClosedInv
  BY DEF LifecycleInit, ClosedInv
<1>2. HistoryInv
  BY DEF LifecycleInit, HistoryInv, Recorded
<1>3. ReadyInv
  BY DEF LifecycleInit, ReadyInv
<1>4. QED
  BY <1>1, <1>2, <1>3, InitConcurrent DEF SerialInv

(* A pass of the stop loop of p, the only stopper, over a prefix of        *)
(* running entries with nothing in motion above it.                        *)
LEMMA StopFromClosed ==
  ASSUME Typed, NEW p \in Stoppers, NEW idx \in 0..count,
         NEW st \in [Entries -> StatusValues], NEW rd \in [Entries -> ReadyValues],
         \A i \in Entries : IF i <= idx THEN st[i] = "up" ELSE st[i] \in {"new", "failed", "down"},
         \A q \in Stoppers : q # p => stopping[q] = 0,
         IF p = "shutdown" THEN batch = "none" ELSE shutdownPc = "none",
         StopFrom(p, idx, st, rd)
  PROVE  TearingDown'
<1>0. idx \in 0..MaxEntries /\ Entries \subseteq Nat \ {0}
  BY EntriesAreNat DEF Typed
<1>1. CASE idx > 0
  BY <1>0, <1>1 DEF Typed, StopFrom, Stoppers, TearingDown, StatusValues
<1>2. CASE idx = 0
  BY <1>0, <1>2 DEF Typed, StopFrom, Stoppers, TearingDown, StatusValues
<1>3. QED
  BY <1>0, <1>1, <1>2

(* What a stopper finds when it begins a pass: a failed startup, a call of *)
(* shutdown(), or a settled shutdown() hook.                               *)
LEMMA FailureFinds ==
  ASSUME ConcurrentInv, ClosedInv, batch = "starting",
         NEW idx, NEW st,
         \/ idx = startedIndex + 1 /\ st = [status EXCEPT ![cur] = "up"]
         \/ idx = startedIndex /\ st = [status EXCEPT ![cur] = "failed"]
  PROVE  /\ idx \in 0..count
         /\ st \in [Entries -> StatusValues]
         /\ \A i \in Entries :
              IF i <= idx THEN st[i] = "up" ELSE st[i] \in {"new", "failed", "down"}
         /\ \A q \in Stoppers : stopping[q] = 0
         /\ shutdownPc = "none"
<1>1. Typed /\ Bounds
  BY TypedIsTypeOK DEF ConcurrentInv
<1>2. Open
  BY DEF ConcurrentInv, OpenInv, ClosedInv, TearingDown
<1>3. startedIndex \in Nat /\ count \in Nat /\ cur = startedIndex + 1 /\ startedIndex < count
  BY <1>1, <1>2 DEF Typed, Bounds, Open
<1>4. st \in [Entries -> StatusValues] /\ idx \in 0..count
  BY <1>1, <1>3 DEF Typed, StatusValues
<1>5. \A i \in Entries :
        IF i <= idx THEN st[i] = "up" ELSE st[i] \in {"new", "failed", "down"}
  BY <1>1, <1>2, <1>3, EntriesAreNat DEF Typed, Open
<1>6. QED
  BY <1>2, <1>4, <1>5 DEF Open

LEMMA ShutdownFinds ==
  ASSUME ConcurrentInv, ClosedInv, batch = "none", shutdownPc = "none"
  PROVE  /\ startedIndex \in 0..count
         /\ status \in [Entries -> StatusValues]
         /\ \A i \in Entries :
              IF i <= startedIndex THEN status[i] = "up" ELSE status[i] \in {"new", "failed", "down"}
         /\ \A q \in Stoppers : stopping[q] = 0
<1>1. Typed /\ Bounds
  BY TypedIsTypeOK DEF ConcurrentInv
<1>2. startedIndex \in 0..count /\ status \in [Entries -> StatusValues]
  BY <1>1 DEF Typed, Bounds, StatusValues
<1>3. CASE Open
  BY <1>2, <1>3 DEF Open
<1>4. CASE TearingDown
  <2>1. \A q \in Stoppers : stopping[q] = 0
    BY <1>1, <1>4 DEF TearingDown, Stoppers, Typed
  <2>2. QED
    BY <1>2, <1>4, <2>1, EntriesAreNat DEF TearingDown
<1>5. QED
  BY <1>3, <1>4 DEF ConcurrentInv, OpenInv, ClosedInv

LEMMA StopperFinds ==
  ASSUME ConcurrentInv, ClosedInv, NEW p \in Stoppers, stopping[p] # 0,
         NEW st, st = [status EXCEPT ![stopping[p]] = "down"]
  PROVE  /\ startedIndex \in 0..count
         /\ startedIndex < stopping[p]
         /\ st \in [Entries -> StatusValues]
         /\ \A i \in Entries :
              IF i <= startedIndex THEN st[i] = "up" ELSE st[i] \in {"new", "failed", "down"}
         /\ \A q \in Stoppers : q # p => stopping[q] = 0
         /\ IF p = "shutdown" THEN batch = "none" ELSE shutdownPc = "none"
<1>1. Typed /\ Bounds
  BY TypedIsTypeOK DEF ConcurrentInv
<1>2. TearingDown
  BY DEF ConcurrentInv, OpenInv, Open, ClosedInv
<1>3. stopping[p] = startedIndex + 1 /\ startedIndex \in 0..count /\ count \in Nat
  BY <1>1, <1>2 DEF Typed, Bounds, TearingDown
<1>4. /\ \A q \in Stoppers : q # p => stopping[q] = 0
      /\ IF p = "shutdown" THEN batch = "none" ELSE shutdownPc = "none"
  BY <1>1, <1>2 DEF Typed, TearingDown, Stoppers
<1>5. st \in [Entries -> StatusValues]
  BY <1>1 DEF Typed, StatusValues
<1>6. \A i \in Entries :
        IF i <= startedIndex THEN st[i] = "up" ELSE st[i] \in {"new", "failed", "down"}
  BY <1>1, <1>2, <1>3, <1>4, EntriesAreNat DEF Typed, TearingDown
<1>7. QED
  BY <1>3, <1>4, <1>5, <1>6

-----------------------------------------------------------------------------

LEMMA ClosedStep ==
  ASSUME SerialInv, [Next]_lifecycleVars
  PROVE  ClosedInv'
<1> USE DEF SerialInv
<1>1. Typed /\ disposed \in BOOLEAN
  BY TypedIsTypeOK DEF ConcurrentInv
<1>2. SUFFICES ASSUME disposed' PROVE TearingDown'
  BY DEF ClosedInv
<1>3. CASE UNCHANGED <<startedIndex, disposed, batch, stopping, shutdownPc, status>>
  BY <1>2, <1>3 DEF ClosedInv, TearingDown
<1>4. CASE SealFailed \/ HookFailed
  <2>1. PICK idx \in {startedIndex, startedIndex + 1},
             st \in {[status EXCEPT ![cur] = "up"], [status EXCEPT ![cur] = "failed"]} :
          /\ batch = "starting"
          /\ \/ idx = startedIndex + 1 /\ st = [status EXCEPT ![cur] = "up"]
             \/ idx = startedIndex /\ st = [status EXCEPT ![cur] = "failed"]
          /\ StopFrom("rollback", idx, st, ready)
    BY <1>4 DEF SealFailed, HookFailed, FailStartup, HookSettles
  <2>2. "rollback" \in Stoppers /\ "rollback" # "shutdown" /\ ready \in [Entries -> ReadyValues]
    BY <1>1 DEF Stoppers, Typed, ReadyValues
  <2>3. QED
    BY <1>1, <2>1, <2>2, FailureFinds, StopFromClosed
<1>5. CASE ShutdownAfterStartup
  <2>1. "shutdown" \in Stoppers /\ ready \in [Entries -> ReadyValues]
    BY <1>1 DEF Stoppers, Typed, ReadyValues
  <2>2. /\ batch = "none" /\ shutdownPc = "none"
        /\ StopFrom("shutdown", startedIndex, status, ready)
    BY <1>5 DEF ShutdownAfterStartup, Shutdown
  <2>3. QED
    BY <1>1, <2>1, <2>2, ShutdownFinds, StopFromClosed
<1>6. ASSUME NEW p \in Stoppers, StopHookSettled(p) PROVE TearingDown'
  <2> DEFINE rd == [ready EXCEPT ![stopping[p]] = "disposed"]
             st == [status EXCEPT ![stopping[p]] = "down"]
  <2>1. rd \in [Entries -> ReadyValues]
    BY <1>1 DEF Typed, ReadyValues
  <2>2. stopping[p] # 0 /\ StopFrom(p, startedIndex, st, rd)
    BY <1>6 DEF StopHookSettled
  <2> HIDE DEF rd
  <2>3. QED
    BY <1>1, <2>1, <2>2, StopperFinds, StopFromClosed
<1>7. CASE BatchFinally
  <2>1. TearingDown /\ batch = "failed"
    BY <1>2, <1>7 DEF BatchFinally, ClosedInv, TearingDown
  <2>2. QED
    BY <1>7, <2>1 DEF BatchFinally, TearingDown
<1>8. ASSUME NEW object \in BOOLEAN, HookStarted(object) PROVE FALSE
  BY <1>2, <1>8 DEF HookStarted, HookSettles, ClosedInv, TearingDown
<1>9. ASSUME NEW c \in Callers, Loop(c), UNCHANGED <<disposed, stopping, shutdownPc>> PROVE TearingDown'
  BY <1>2, <1>3, <1>9 DEF Loop
<1>10. ASSUME NEW c \in Callers, NEW inside \in BOOLEAN, StartupPending(c, inside) PROVE TearingDown'
  BY <1>2, <1>3, <1>10 DEF StartupPending, StartupPendingCall
<1>11. ASSUME NEW c \in Callers, Resume(c) PROVE TearingDown'
  BY <1>9, <1>11 DEF Resume
<1>12. CASE Register \/ UNCHANGED lifecycleVars \/ \E i \in Guarded : ToggleGuard(i)
  BY <1>3, <1>12 DEF Register, ToggleGuard, lifecycleVars
<1>13. QED
  BY <1>4, <1>5, <1>6, <1>7, <1>8, <1>10, <1>11, <1>12 DEF Next, Internal, Startup

(* The hooks' history through a pass of each loop.                         *)
LEMMA StopFromRecorded ==
  ASSUME Typed, NEW p \in Stoppers, NEW idx \in 0..count, NEW st \in [Entries -> StatusValues],
         NEW rd, idx > 0 => st[idx] = "up", Recorded(st, starts, stops),
         StopFrom(p, idx, st, rd), starts' = starts
  PROVE  HistoryInv'
<1>1. idx \in 0..MaxEntries /\ Entries = 1..MaxEntries
  BY EntriesAreNat DEF Typed, Entries
<1>2. CASE idx > 0
  <2>1. idx \in Entries /\ st[idx] = "up" /\ stops[idx] = 0
    BY <1>1, <1>2 DEF Recorded
  <2>2. status' = [st EXCEPT ![idx] = "stopping"] /\ stops' = OnceMore(stops, idx)
    BY <1>2 DEF StopFrom
  <2>3. stops' = [stops EXCEPT ![idx] = 1]
    BY <2>1, <2>2 DEF Typed, OnceMore
  <2>4. ASSUME NEW i \in Entries
        PROVE  /\ starts'[i] = IF status'[i] = "new" THEN 0 ELSE 1
               /\ stops'[i] = IF status'[i] \in {"stopping", "down"} THEN 1 ELSE 0
    <3>1. CASE i = idx
      BY <2>1, <2>2, <2>3, <3>1 DEF Typed, Recorded
    <3>2. CASE i # idx
      BY <2>2, <2>3, <3>2 DEF Typed, Recorded
    <3>3. QED
      BY <3>1, <3>2
  <2>5. QED
    BY <2>4 DEF HistoryInv, Recorded
<1>3. CASE idx = 0
  BY <1>3 DEF StopFrom, Recorded, HistoryInv
<1>4. QED
  BY <1>1, <1>2, <1>3

LEMMA StartFromRecorded ==
  ASSUME Typed, count' \in count..MaxEntries, NEW idx \in 0..count',
         NEW st \in [Entries -> StatusValues],
         \A i \in Entries : i > idx => st[i] = "new", Recorded(st, starts, stops),
         StartFrom(idx, st), stops' = stops
  PROVE  HistoryInv'
<1>1. CASE idx < count'
  <2>1. idx + 1 \in Entries /\ idx + 1 > idx
    BY <1>1, EntriesAreNat DEF Typed, Entries
  <2>2. status' = [st EXCEPT ![idx + 1] = "starting"] /\ starts' = OnceMore(starts, idx + 1)
    BY <1>1 DEF StartFrom
  <2>3. QED
    BY <2>1, <2>2 DEF Typed, Recorded, HistoryInv, OnceMore
<1>2. CASE ~(idx < count')
  BY <1>2 DEF StartFrom, Recorded, HistoryInv
<1>3. QED
  BY <1>1, <1>2

LEMMA HistoryStep ==
  ASSUME SerialInv, [Next]_lifecycleVars
  PROVE  HistoryInv'
<1> USE DEF SerialInv
<1>1. Typed /\ Bounds /\ status \in [Entries -> StatusValues]
  BY TypedIsTypeOK DEF ConcurrentInv, Typed, StatusValues
<1>2. CASE UNCHANGED <<status, starts, stops>>
  BY <1>2 DEF HistoryInv, Recorded
<1>3. CASE SealFailed \/ HookFailed
  <2>1. PICK idx \in {startedIndex, startedIndex + 1},
             st \in {[status EXCEPT ![cur] = "up"], [status EXCEPT ![cur] = "failed"]} :
          /\ batch = "starting"
          /\ \/ idx = startedIndex + 1 /\ st = [status EXCEPT ![cur] = "up"]
             \/ idx = startedIndex /\ st = [status EXCEPT ![cur] = "failed"]
          /\ StopFrom("rollback", idx, st, ready)
          /\ starts' = starts
    BY <1>3 DEF SealFailed, HookFailed, FailStartup, HookSettles
  <2>2. /\ idx \in 0..count /\ st \in [Entries -> StatusValues]
        /\ idx > 0 => st[idx] = "up"
    <3>1. idx \in 0..count => (idx > 0 => idx \in Entries /\ idx <= idx)
      BY <1>1, EntriesAreNat DEF Typed, Entries
    <3>2. QED
      BY <2>1, <3>1, FailureFinds
  <2>3. Open
    BY <2>1 DEF ConcurrentInv, OpenInv, ClosedInv, TearingDown
  <2>4. Recorded(st, starts, stops)
    BY <1>1, <2>1, <2>3, EntriesAreNat DEF Open, Typed, Bounds, HistoryInv, Recorded
  <2>5. "rollback" \in Stoppers
    BY DEF Stoppers
  <2>6. QED
    BY <1>1, <2>1, <2>2, <2>4, <2>5, StopFromRecorded
<1>4. CASE ShutdownAfterStartup
  <2>1. /\ batch = "none" /\ shutdownPc = "none"
        /\ StopFrom("shutdown", startedIndex, status, ready)
        /\ starts' = starts
    BY <1>4 DEF ShutdownAfterStartup, Shutdown
  <2>2. startedIndex \in 0..count /\ (startedIndex > 0 => status[startedIndex] = "up")
    <3>1. startedIndex > 0 => startedIndex \in Entries /\ startedIndex <= startedIndex
      BY <1>1, EntriesAreNat DEF Typed, Bounds, Entries
    <3>2. QED
      BY <2>1, <3>1, ShutdownFinds
  <2>3. "shutdown" \in Stoppers
    BY DEF Stoppers
  <2>4. QED
    BY <1>1, <2>1, <2>2, <2>3, StopFromRecorded DEF HistoryInv
<1>5. ASSUME NEW p \in Stoppers, StopHookSettled(p) PROVE HistoryInv'
  <2> DEFINE st == [status EXCEPT ![stopping[p]] = "down"]
             rd == [ready EXCEPT ![stopping[p]] = "disposed"]
  <2>1. stopping[p] # 0 /\ StopFrom(p, startedIndex, st, rd) /\ starts' = starts
    BY <1>5 DEF StopHookSettled
  <2>2. /\ startedIndex \in 0..count /\ st \in [Entries -> StatusValues]
        /\ startedIndex > 0 => st[startedIndex] = "up"
    <3>1. startedIndex > 0 => startedIndex \in Entries /\ startedIndex <= startedIndex
      BY <1>1, EntriesAreNat DEF Typed, Bounds, Entries
    <3>2. QED
      BY <2>1, <3>1, StopperFinds
  <2>3. status[stopping[p]] = "stopping"
    <3>1. TearingDown
      BY <2>1 DEF ConcurrentInv, OpenInv, Open, ClosedInv
    <3>2. stopping[p] \in Entries /\ ~(stopping[p] <= startedIndex)
      BY <1>1, <2>1, <3>1, EntriesAreNat DEF TearingDown, Typed, Bounds, Entries
    <3>3. QED
      BY <3>1, <3>2 DEF TearingDown
  <2>4. Recorded(st, starts, stops)
    BY <1>1, <2>3 DEF HistoryInv, Recorded
  <2> HIDE DEF st, rd
  <2>5. QED
    BY <1>1, <2>1, <2>2, <2>4, StopFromRecorded
<1>6. ASSUME NEW object \in BOOLEAN, HookStarted(object) PROVE HistoryInv'
  <2> DEFINE st == [status EXCEPT ![cur] = "up"]
  <2>1. batch = "starting" /\ count' = count /\ StartFrom(startedIndex + 1, st) /\ stops' = stops
    BY <1>6 DEF HookStarted, HookSettles
  <2>2. Open
    BY <2>1 DEF ConcurrentInv, OpenInv, ClosedInv, TearingDown
  <2>3. startedIndex + 1 \in 0..count' /\ count' \in count..MaxEntries
    BY <1>1, <2>1 DEF Typed, Bounds
  <2>4. st \in [Entries -> StatusValues] /\ \A i \in Entries : i > startedIndex + 1 => st[i] = "new"
    <3>1. st \in [Entries -> StatusValues]
      BY <1>1 DEF StatusValues
    <3>2. startedIndex \in Nat /\ cur = startedIndex + 1
      BY <1>1, <2>1, <2>2 DEF Open, Typed
    <3>3. ASSUME NEW i \in Entries, i > startedIndex + 1 PROVE status[i] = "new" /\ i # cur
      BY <2>2, <3>2, <3>3, EntriesAreNat DEF Open
    <3>4. QED
      BY <1>1, <3>1, <3>3
  <2>5. Recorded(st, starts, stops)
    BY <1>1, <2>1, <2>2, EntriesAreNat DEF Open, Typed, Bounds, HistoryInv, Recorded
  <2> HIDE DEF st
  <2>6. QED
    BY <1>1, <2>1, <2>3, <2>4, <2>5, StartFromRecorded
<1>7. ASSUME NEW c \in Callers, count' \in count..MaxEntries, Loop(c), UNCHANGED <<stops, disposed>>
      PROVE  HistoryInv'
  <2>1. CASE UNCHANGED <<startedIndex, batch, cur, status, starts>>
    BY <1>2, <1>7, <2>1
  <2>2. CASE batch = "none" /\ ~disposed /\ StartFrom(startedIndex, status)
    <3>1. startedIndex \in 0..count' /\ count' \in count..MaxEntries
      BY <1>1, <1>7 DEF Typed, Bounds
    <3>2. \A i \in Entries : i > startedIndex => status[i] = "new"
      BY <1>1, <2>2, EntriesAreNat DEF ConcurrentInv, OpenInv, Open, Typed
    <3>3. QED
      BY <1>1, <1>7, <2>2, <3>1, <3>2, StartFromRecorded DEF HistoryInv
  <2>3. QED
    BY <1>7, <2>1, <2>2 DEF Loop
<1>8. ASSUME NEW c \in Callers, NEW inside \in BOOLEAN, StartupPending(c, inside) PROVE HistoryInv'
  BY <1>2, <1>7, <1>8 DEF StartupPending, StartupPendingCall
<1>9. ASSUME NEW c \in Callers, Resume(c) PROVE HistoryInv'
  BY <1>1, <1>7, <1>9 DEF Resume, Typed
<1>10. CASE \/ Register \/ BatchFinally \/ UNCHANGED lifecycleVars
            \/ \E i \in Guarded : ToggleGuard(i)
  BY <1>2, <1>10 DEF Register, BatchFinally, ToggleGuard, lifecycleVars
<1>11. QED
  BY <1>3, <1>4, <1>5, <1>6, <1>8, <1>9, <1>10 DEF Next, Internal, Startup

-----------------------------------------------------------------------------

(* A pass of the stop loop disposes no ReadyValue of a running entry.      *)
LEMMA StopFromReady ==
  ASSUME Typed, NEW p \in Stoppers, NEW idx \in 0..count,
         NEW st \in [Entries -> StatusValues], NEW rd \in [Entries -> ReadyValues],
         \A i \in Entries : IF i <= idx THEN st[i] = "up" ELSE st[i] \in {"new", "failed", "down"},
         \A i \in Entries : i <= idx => rd[i] # "disposed",
         disposed' = TRUE, StopFrom(p, idx, st, rd)
  PROVE  ReadyInv'
<1>0. idx \in Nat /\ Entries \subseteq Nat \ {0}
  BY EntriesAreNat DEF Typed
<1>1. CASE idx > 0
  <2>1. status' = [st EXCEPT ![idx] = "stopping"] /\ ready' = rd
    BY <1>1 DEF StopFrom
  <2>2. ASSUME NEW i \in Entries, status'[i] \in {"up", "stopping"} PROVE rd[i] # "disposed"
    <3>1. CASE i <= idx
      BY <3>1
    <3>2. CASE ~(i <= idx)
      <4>1. i # idx
        BY <1>0, <3>2
      <4>2. status'[i] = st[i] /\ st[i] \in {"new", "failed", "down"}
        BY <2>1, <3>2, <4>1
      <4>3. QED
        BY <2>2, <4>2
    <3>3. QED
      BY <3>1, <3>2
  <2>3. QED
    BY <2>1, <2>2 DEF ReadyInv
<1>2. CASE ~(idx > 0)
  <2>1. status' = st
    BY <1>2 DEF StopFrom
  <2>2. \A i \in Entries : ~(i <= idx)
    BY <1>0, <1>2
  <2>3. QED
    BY <2>1, <2>2 DEF ReadyInv
<1>3. QED
  BY <1>1, <1>2

LEMMA ReadyStep ==
  ASSUME SerialInv, [Next]_lifecycleVars
  PROVE  ReadyInv'
<1> USE DEF SerialInv
<1>1. Typed /\ Bounds /\ ready \in [Entries -> ReadyValues] /\ disposed \in BOOLEAN
  BY TypedIsTypeOK DEF ConcurrentInv, Typed, ReadyValues
<1>2. CASE UNCHANGED <<disposed, status, ready>>
  BY <1>2 DEF ReadyInv
<1>3. CASE SealFailed \/ HookFailed
  <2>1. PICK idx \in {startedIndex, startedIndex + 1},
             st \in {[status EXCEPT ![cur] = "up"], [status EXCEPT ![cur] = "failed"]} :
          /\ batch = "starting"
          /\ \/ idx = startedIndex + 1 /\ st = [status EXCEPT ![cur] = "up"]
             \/ idx = startedIndex /\ st = [status EXCEPT ![cur] = "failed"]
          /\ StopFrom("rollback", idx, st, ready)
          /\ disposed' = TRUE
    BY <1>3 DEF SealFailed, HookFailed, FailStartup, HookSettles
  <2>2. "rollback" \in Stoppers /\ \A i \in Entries : ready[i] # "disposed"
    BY <2>1 DEF Stoppers, ReadyInv, ClosedInv, TearingDown
  <2>3. QED
    BY <1>1, <2>1, <2>2, FailureFinds, StopFromReady
<1>4. CASE ShutdownAfterStartup
  <2>1. /\ batch = "none" /\ shutdownPc = "none" /\ disposed' = TRUE
        /\ StopFrom("shutdown", startedIndex, status, ready)
    BY <1>4 DEF ShutdownAfterStartup, Shutdown
  <2>2. "shutdown" \in Stoppers /\ \A i \in Entries : i <= startedIndex => ready[i] # "disposed"
    BY <2>1, ShutdownFinds DEF Stoppers, ReadyInv
  <2>3. QED
    BY <1>1, <2>1, <2>2, ShutdownFinds, StopFromReady
<1>5. ASSUME NEW p \in Stoppers, StopHookSettled(p) PROVE ReadyInv'
  <2> DEFINE st == [status EXCEPT ![stopping[p]] = "down"]
             rd == [ready EXCEPT ![stopping[p]] = "disposed"]
  <2>1. stopping[p] # 0 /\ StopFrom(p, startedIndex, st, rd) /\ disposed' = disposed
    BY <1>5 DEF StopHookSettled
  <2>2. disposed = TRUE
    BY <1>1, <2>1 DEF ConcurrentInv, OpenInv, Open
  <2>3. rd \in [Entries -> ReadyValues]
    BY <1>1 DEF ReadyValues
  <2>4. /\ startedIndex \in 0..count /\ startedIndex < stopping[p]
        /\ st \in [Entries -> StatusValues]
        /\ \A i \in Entries :
             IF i <= startedIndex THEN st[i] = "up" ELSE st[i] \in {"new", "failed", "down"}
    BY <2>1, StopperFinds
  <2>5. ASSUME NEW i \in Entries, i <= startedIndex PROVE rd[i] # "disposed"
    <3>1. status[i] = "up"
      BY <2>2, <2>5 DEF ClosedInv, TearingDown
    <3>2. i # stopping[p]
      BY <1>1, <2>4, <2>5, EntriesAreNat DEF Typed
    <3>3. QED
      BY <1>1, <3>1, <3>2 DEF ReadyInv
  <2> HIDE DEF st, rd
  <2>6. QED
    BY <1>1, <2>1, <2>2, <2>3, <2>4, <2>5, StopFromReady
<1>6. ASSUME ~disposed, \A i \in Entries : ready'[i] # "disposed" PROVE ReadyInv'
  BY <1>6 DEF ReadyInv
<1>7. ASSUME NEW object \in BOOLEAN, HookStarted(object) PROVE ReadyInv'
  <2>1. batch = "starting" /\ ready' \in {ready, [ready EXCEPT ![cur] = "ready"]}
    BY <1>7 DEF HookStarted, HookSettles
  <2>2. ~disposed
    BY <2>1 DEF ClosedInv, TearingDown
  <2>3. \A i \in Entries : ready'[i] # "disposed"
    BY <1>1, <2>1, <2>2 DEF ReadyInv
  <2>4. QED
    BY <1>6, <2>2, <2>3
<1>8. ASSUME NEW c \in Callers, Loop(c), UNCHANGED <<disposed, ready>> PROVE ReadyInv'
  BY <1>2, <1>6, <1>8 DEF Loop, ReadyInv
<1>9. ASSUME NEW c \in Callers, NEW inside \in BOOLEAN, StartupPending(c, inside) PROVE ReadyInv'
  BY <1>2, <1>8, <1>9 DEF StartupPending, StartupPendingCall
<1>10. ASSUME NEW c \in Callers, Resume(c) PROVE ReadyInv'
  BY <1>8, <1>10 DEF Resume
<1>11. CASE \/ Register \/ BatchFinally \/ UNCHANGED lifecycleVars
            \/ \E i \in Guarded : ToggleGuard(i)
  BY <1>2, <1>11 DEF Register, BatchFinally, ToggleGuard, lifecycleVars
<1>12. QED
  BY <1>3, <1>4, <1>5, <1>7, <1>9, <1>10, <1>11 DEF Next, Internal, Startup

-----------------------------------------------------------------------------
(* The theorems *)

LEMMA SerialStep == SerialInv /\ [Next]_lifecycleVars => SerialInv'
<1> SUFFICES ASSUME SerialInv, [Next]_lifecycleVars PROVE SerialInv'
  OBVIOUS
<1>1. [ConcurrentNext]_lifecycleVars
  BY DEF Next, ConcurrentNext, ShutdownAfterStartup
<1>2. ConcurrentInv'
  BY <1>1, ConcurrentStep DEF SerialInv
<1>3. QED
  BY <1>2, ClosedStep, HistoryStep, ReadyStep DEF SerialInv

LEMMA SerialCorrect == Spec => []SerialInv
  BY InitSerial, SerialStep, PTL DEF Spec

(* No startup() or shutdown() hook runs twice.                             *)
THEOREM HooksRunOnce == Spec => []HooksOnce
<1>1. SerialInv => HooksOnce
  BY DEF SerialInv, HistoryInv, Recorded, HooksOnce
<1>2. QED
  BY <1>1, SerialCorrect, PTL

(* Entries are stopped in the reverse order of their registration.         *)
THEOREM ReverseOrder == Spec => []StopsInReverse
<1>1. SerialInv => StopsInReverse
  <2> SUFFICES ASSUME SerialInv, NEW i \in Entries, status[i] = "stopping"
               PROVE  /\ \A j \in Entries : j < i => status[j] = "up"
                      /\ \A j \in Entries : j > i => status[j] \notin {"starting", "up", "stopping"}
    BY DEF StopsInReverse
  <2>1. Typed /\ TearingDown
    BY TypedIsTypeOK DEF SerialInv, ConcurrentInv, OpenInv, Open, ClosedInv
  <2>2. startedIndex \in Nat /\ i = startedIndex + 1
    BY <2>1, EntriesAreNat DEF Typed, TearingDown
  <2>3. \A q \in Stoppers : stopping[q] \in Nat /\ (stopping[q] > 0 => stopping[q] = i)
    BY <2>1, <2>2 DEF Typed, TearingDown
  <2>4. QED
    BY <2>1, <2>2, <2>3, EntriesAreNat DEF TearingDown
<1>2. QED
  BY <1>1, SerialCorrect, PTL

(* A shutdown() hook can use the ReadyValue of its entry and of all the    *)
(* entries registered before it.                                           *)
THEOREM ReadyValuesOutliveHooks == Spec => []ReadyValueUsableInShutdown
<1>1. SerialInv /\ StopsInReverse => ReadyValueUsableInShutdown
  <2> SUFFICES ASSUME SerialInv, StopsInReverse, NEW i \in Entries, status[i] = "stopping",
                      NEW j \in 1..i
               PROVE  ready[j] # "disposed"
    BY DEF ReadyValueUsableInShutdown
  <2>1. j \in Entries /\ (j < i \/ j = i)
    BY EntriesAreNat DEF Entries
  <2>2. QED
    BY <2>1 DEF SerialInv, ReadyInv, StopsInReverse
<1>2. QED
  BY <1>1, SerialCorrect, ReverseOrder, PTL

(* When the one stopper is through, it has stopped everything.             *)
LEMMA SerialStopped == SerialInv => NothingLeftRunning
<1> SUFFICES ASSUME SerialInv,
                    shutdownPc = "done" \/ (disposed /\ batch = "none" /\ shutdownPc = "none")
             PROVE  \A i \in Entries : status[i] \in {"new", "failed", "down"}
  BY DEF NothingLeftRunning
<1>1. Typed /\ TearingDown
  BY TypedIsTypeOK DEF SerialInv, ConcurrentInv, OpenInv, Open, ClosedInv
<1>2. \A p \in Stoppers : stopping[p] = 0
  BY <1>1 DEF Typed, TearingDown, Stoppers
<1>3. QED
  BY <1>1, <1>2, EntriesAreNat DEF TearingDown

(* After a completed shutdown(), or a failed startup, nothing runs.        *)
THEOREM NothingLeft == Spec => []NothingLeftRunning
  BY SerialStopped, SerialCorrect, PTL

(* At most one startup() or shutdown() hook runs at a time.                *)
THEOREM HooksOneAtATime == Spec => []OneHookAtATime
<1>1. SerialInv => OneHookAtATime
  <2>1. CASE SerialInv /\ Open
    BY <2>1 DEF Open, OneHookAtATime
  <2>2. CASE SerialInv /\ TearingDown
    BY <2>2, TypedIsTypeOK, EntriesAreNat DEF SerialInv, ConcurrentInv, Typed, TearingDown, OneHookAtATime
  <2>3. QED
    BY <2>1, <2>2 DEF SerialInv, ConcurrentInv, OpenInv, ClosedInv
<1>2. QED
  BY <1>1, SerialCorrect, PTL

(* Hooks are called once and in turn.                                      *)
THEOREM HooksCalledInTurn == Spec => []HooksInTurn
  BY HooksRunOnce, HooksOneAtATime, PTL DEF HooksInTurn

(* Services are torn down in reverse order, and ReadyValues outlive what   *)
(* uses them.                                                              *)
THEOREM TeardownOrdered == Spec => []TeardownInOrder
  BY ReverseOrder, ReadyValuesOutliveHooks, PTL DEF TeardownInOrder

-----------------------------------------------------------------------------
(* The stack of resources *)

InUse == {"up", "stopping"}

(* Beginning to stop an entry, or to start one, opens and releases nothing.*)
LEMMA StopFromRunning ==
  ASSUME NEW p \in Stoppers, NEW idx, NEW st \in [Entries -> StatusValues], NEW rd,
         idx > 0 => st[idx] = "up", StopFrom(p, idx, st, rd)
  PROVE  Running' = {i \in Entries : st[i] \in InUse}
BY DEF StopFrom, Running, InUse

LEMMA StartFromRunning ==
  ASSUME NEW idx, NEW st \in [Entries -> StatusValues],
         idx < count' => st[idx + 1] = "new", StartFrom(idx, st)
  PROVE  Running' = {i \in Entries : st[i] \in InUse}
BY DEF StartFrom, Running, InUse

LEMMA OpenRuns ==
  ASSUME Typed, Bounds, Open, batch = "starting"
  PROVE  /\ cur \in Entries /\ status[cur] = "starting"
         /\ cur = startedIndex + 1 /\ startedIndex \in Nat
         /\ Running = 1..(cur - 1)
<1>1. /\ cur \in Entries /\ status[cur] = "starting"
      /\ cur = startedIndex + 1 /\ startedIndex \in Nat
  BY EntriesAreNat DEF Typed, Bounds, Open, Entries
<1>2. \A i \in Entries : i \in Running <=> i <= startedIndex
  BY <1>1 DEF Open, Running
<1>3. 1..(cur - 1) \subseteq Entries /\ \A i \in Entries : i <= startedIndex <=> i \in 1..(cur - 1)
  BY <1>1, EntriesAreNat DEF Entries
<1>4. QED
  BY <1>1, <1>2, <1>3 DEF Running

LEMMA StackInit == LifecycleInit => Stack!Init
  BY DEF LifecycleInit, Stack!Init, Running

(* The steps of the manager are steps of the stack.                        *)
LEMMA StackStep ==
  ASSUME SerialInv, [Next]_lifecycleVars
  PROVE  [Stack!Next]_(Stack!stackVars)
<1> USE DEF SerialInv
<1>1. Typed /\ Bounds /\ status \in [Entries -> StatusValues] /\ disposed \in BOOLEAN
  BY TypedIsTypeOK DEF ConcurrentInv, Typed, StatusValues
<1>2. CASE UNCHANGED <<disposed, status>>
  BY <1>2 DEF Stack!stackVars, Running
<1>3. ASSUME NEW i \in Entries, Stack!Open(i) \/ Stack!Release(i) PROVE Stack!Next
  BY <1>3 DEF Stack!Next, Entries
<1>4. CASE HookFailed
  <2> DEFINE st == [status EXCEPT ![cur] = "failed"]
  <2>1. batch = "starting" /\ disposed' = TRUE /\ StopFrom("rollback", startedIndex, st, ready)
    BY <1>4 DEF HookFailed, HookSettles, FailStartup
  <2>2. Open
    BY <2>1 DEF ConcurrentInv, OpenInv, ClosedInv, TearingDown
  <2>3. st \in [Entries -> StatusValues] /\ (startedIndex > 0 => st[startedIndex] = "up")
    <3>1. startedIndex > 0 => startedIndex \in Entries /\ startedIndex <= startedIndex
      BY <1>1, EntriesAreNat DEF Typed, Bounds, Entries
    <3>2. QED
      BY <2>1, <3>1, FailureFinds
  <2>4. {i \in Entries : st[i] \in InUse} = Running
    BY <1>1, <2>1, <2>2, OpenRuns DEF Running, InUse
  <2> HIDE DEF st
  <2>5. Running' = Running
    BY <2>1, <2>3, <2>4, StopFromRunning DEF Stoppers
  <2>6. QED
    BY <2>1, <2>5 DEF Stack!Next, Stack!Close
<1>5. CASE SealFailed
  <2> DEFINE st == [status EXCEPT ![cur] = "up"]
  <2>1. /\ batch = "starting" /\ disposed' = TRUE
        /\ StopFrom("rollback", startedIndex + 1, st, ready)
    BY <1>5 DEF SealFailed, HookSettles, FailStartup
  <2>2. Open /\ ~disposed
    BY <2>1 DEF ConcurrentInv, OpenInv, ClosedInv, TearingDown
  <2>3. cur \in Entries /\ cur = startedIndex + 1 /\ Running = 1..(cur - 1)
    BY <1>1, <2>1, <2>2, OpenRuns
  <2>4. st \in [Entries -> StatusValues] /\ st[startedIndex + 1] = "up"
    BY <1>1, <2>3 DEF StatusValues
  <2>5. {i \in Entries : st[i] \in InUse} = Running \cup {cur}
    BY <1>1, <2>3 DEF Running, InUse
  <2> HIDE DEF st
  <2>6. Running' = Running \cup {cur}
    BY <2>1, <2>4, <2>5, StopFromRunning DEF Stoppers
  <2>7. QED
    BY <1>3, <2>1, <2>2, <2>3, <2>6 DEF Stack!Open
<1>6. ASSUME NEW object \in BOOLEAN, HookStarted(object) PROVE Stack!Next
  <2> DEFINE st == [status EXCEPT ![cur] = "up"]
  <2>1. /\ batch = "starting" /\ disposed' = disposed /\ count' = count
        /\ StartFrom(startedIndex + 1, st)
    BY <1>6 DEF HookStarted, HookSettles
  <2>2. Open /\ ~disposed
    BY <2>1 DEF ConcurrentInv, OpenInv, ClosedInv, TearingDown
  <2>3. /\ cur \in Entries /\ cur = startedIndex + 1 /\ startedIndex \in Nat
        /\ Running = 1..(cur - 1)
    BY <1>1, <2>1, <2>2, OpenRuns
  <2>4. ASSUME startedIndex + 1 < count' PROVE st[startedIndex + 1 + 1] = "new"
    <3>1. /\ startedIndex + 1 + 1 \in Entries /\ startedIndex + 1 + 1 # cur
          /\ ~(startedIndex + 1 + 1 <= startedIndex)
      BY <1>1, <2>1, <2>3, <2>4, EntriesAreNat DEF Typed, Entries
    <3>2. status[startedIndex + 1 + 1] = "new"
      BY <2>2, <3>1 DEF Open
    <3>3. QED
      BY <1>1, <3>1, <3>2
  <2>5. st \in [Entries -> StatusValues] /\ {i \in Entries : st[i] \in InUse} = Running \cup {cur}
    BY <1>1, <2>3 DEF Running, InUse, StatusValues
  <2> HIDE DEF st
  <2>6. Running' = Running \cup {cur}
    BY <2>1, <2>4, <2>5, StartFromRunning
  <2>7. QED
    BY <1>1, <1>3, <2>1, <2>2, <2>3, <2>6 DEF Stack!Open
<1>7. CASE ShutdownAfterStartup
  <2>1. /\ batch = "none" /\ shutdownPc = "none" /\ disposed' = TRUE
        /\ StopFrom("shutdown", startedIndex, status, ready)
    BY <1>7 DEF ShutdownAfterStartup, Shutdown
  <2>2. startedIndex > 0 => status[startedIndex] = "up"
    <3>1. startedIndex > 0 => startedIndex \in Entries /\ startedIndex <= startedIndex
      BY <1>1, EntriesAreNat DEF Typed, Bounds, Entries
    <3>2. QED
      BY <2>1, <3>1, ShutdownFinds
  <2>3. Running' = Running
    BY <1>1, <2>1, <2>2, StopFromRunning DEF Stoppers, Running, InUse
  <2>4. QED
    BY <2>1, <2>3 DEF Stack!Next, Stack!Close
<1>8. ASSUME NEW p \in Stoppers, StopHookSettled(p) PROVE Stack!Next
  <2> DEFINE st == [status EXCEPT ![stopping[p]] = "down"]
             rd == [ready EXCEPT ![stopping[p]] = "disposed"]
  <2>1. stopping[p] # 0 /\ StopFrom(p, startedIndex, st, rd) /\ disposed' = disposed
    BY <1>8 DEF StopHookSettled
  <2>2. disposed /\ TearingDown
    BY <2>1 DEF ConcurrentInv, OpenInv, Open, ClosedInv
  <2>3. /\ stopping[p] \in Entries /\ stopping[p] = startedIndex + 1 /\ startedIndex \in Nat
        /\ status[stopping[p]] = "stopping"
    BY <1>1, <2>1, <2>2, EntriesAreNat DEF TearingDown, Typed, Entries
  <2>4. ASSUME NEW j \in Running PROVE j <= stopping[p]
    <3>1. \A q \in Stoppers : stopping[q] > 0 => stopping[q] = stopping[p]
      BY <2>2, <2>3 DEF TearingDown
    <3>2. QED
      BY <2>2, <2>3, <3>1, EntriesAreNat DEF TearingDown, Running
  <2>5. st \in [Entries -> StatusValues] /\ (startedIndex > 0 => st[startedIndex] = "up")
    <3>1. startedIndex > 0 => startedIndex \in Entries /\ startedIndex <= startedIndex
      BY <1>1, EntriesAreNat DEF Typed, Bounds, Entries
    <3>2. QED
      BY <2>1, <3>1, StopperFinds
  <2>6. {i \in Entries : st[i] \in InUse} = Running \ {stopping[p]}
    BY <1>1, <2>3 DEF Running, InUse
  <2> HIDE DEF st, rd
  <2>7. Running' = Running \ {stopping[p]}
    BY <2>1, <2>5, <2>6, StopFromRunning
  <2>8. stopping[p] \in Running
    BY <2>3 DEF Running
  <2>9. QED
    BY <1>3, <2>1, <2>2, <2>3, <2>4, <2>7, <2>8 DEF Stack!Release
<1>9. ASSUME NEW c \in Callers, count' \in count..MaxEntries, Loop(c), disposed' = disposed
      PROVE  Running' = Running
  <2>1. CASE UNCHANGED status
    BY <2>1 DEF Running
  <2>2. CASE batch = "none" /\ ~disposed /\ startedIndex < count' /\ StartFrom(startedIndex, status)
    <3>1. startedIndex + 1 \in Entries /\ ~(startedIndex + 1 <= startedIndex)
      BY <1>1, <1>9, <2>2, EntriesAreNat DEF Typed, Entries
    <3>2. status[startedIndex + 1] = "new"
      BY <2>2, <3>1 DEF ConcurrentInv, OpenInv, Open
    <3>3. QED
      BY <1>1, <2>2, <3>2, StartFromRunning DEF Running, InUse
  <2>3. QED
    BY <1>9, <2>1, <2>2 DEF Loop
<1>10. ASSUME NEW c \in Callers, NEW inside \in BOOLEAN, StartupPending(c, inside)
       PROVE  UNCHANGED Stack!stackVars
  BY <1>2, <1>9, <1>10 DEF StartupPending, StartupPendingCall, Stack!stackVars, Running
<1>11. ASSUME NEW c \in Callers, Resume(c) PROVE UNCHANGED Stack!stackVars
  BY <1>1, <1>9, <1>11 DEF Resume, Typed, Stack!stackVars
<1>12. CASE \/ Register \/ BatchFinally \/ UNCHANGED lifecycleVars
            \/ \E i \in Guarded : ToggleGuard(i)
  BY <1>2, <1>12 DEF Register, BatchFinally, ToggleGuard, lifecycleVars
<1>13. QED
  BY <1>4, <1>5, <1>6, <1>7, <1>8, <1>10, <1>11, <1>12 DEF Next, Internal, Startup

(* The manager implements the stack of resources.                          *)
THEOREM RefinesStack == Spec => ImplementsStack
<1>1. SerialInv /\ [Next]_lifecycleVars => [Stack!Next]_(Stack!stackVars)
  BY StackStep
<1>2. QED
  BY <1>1, StackInit, SerialCorrect, PTL DEF Spec, ImplementsStack, Stack!Spec

-----------------------------------------------------------------------------
(* The manager in a runtime *)

(* Which stopper runs is what the batch and shutdownPc say, and a batch    *)
(* has a caller that waits for it, even if shutdown() overlaps it.         *)
Linked ==
  /\ batch = "rollback" <=> stopping["rollback"] # 0
  /\ shutdownPc = "stopping" <=> stopping["shutdown"] # 0
  /\ batch # "none" => \E c \in Callers : pc[c] = "waiting"

(* The application is disposed by the shutdown that stops the services,    *)
(* and by no other.                                                        *)
DisposedInv ==
  /\ app = "disposed" <=> phase \in {"stopping", "after", "done"}
  /\ app = "disposed" <=> shutdownPc # "none"
  /\ app = "disposed" => disposed
  /\ phase \in {"after", "done"} => shutdownPc = "done"
  /\ overlap => app = "disposed"
  /\ registry = "disposed" => phase = "done"

(* A set of callbacks is emptied by the phase that calls it, and this      *)
(* phase lasts until they have settled.                                    *)
CallbacksInv ==
  \A k \in Callbacks :
    /\ cb[k] = "before" => phase \in {"none", "scheduled", "refused"}
    /\ cb[k] = "inBefore" => phase = "before"
    /\ cb[k] = "after" => phase \notin {"after", "done"}
    /\ cb[k] = "inAfter" => phase = "after"

(* Where createRuntime() is, its call of startupPending() and its ready    *)
(* promise correspond; the registry is activated before ready() runs.      *)
BootInv ==
  /\ pc[Boot] \in {"waiting", "resumed"} => boot \in {"configs", "readying"}
  /\ boot = "readying" /\ pc[Boot] \in {"waiting", "resumed"} => readyP = "pending"
  /\ boot \in {"new", "configs", "realizing"} => readyP = "none"
  /\ boot = "readying" => readyP # "none"
  /\ readyP # "none" => registry # "pending"
  /\ phase = "done" /\ registry = "ready" => boot \in {"cleanup", "failed"}

(* The server and the callback that listen() registered.                   *)
ServerInv ==
  /\ server \in {"none", "binding", "listening", "failed", "closing", "closed"}
  /\ server = "none" <=> cb[Listen] = "none"
  /\ cb[Listen] \in {"none", "before", "inBefore", "alone", "done"}
  /\ cb[Listen] = "done" => server \in {"failed", "closed"}

RuntimeInv ==
  /\ RuntimeTypeOK
  /\ ConcurrentInv
  /\ Linked
  /\ ~overlap => SerialInv
  /\ DisposedInv
  /\ CallbacksInv
  /\ BootInv

ServersInv == RuntimeInv /\ ServerInv

-----------------------------------------------------------------------------
LEMMA RuntimeInitially == RuntimeInit => RuntimeInv
<1> SUFFICES ASSUME RuntimeInit PROVE RuntimeInv
  OBVIOUS
<1>1. LifecycleInit /\ TypeOK /\ ConcurrentInv /\ SerialInv
  BY InitSerial DEF RuntimeInit, SerialInv, ConcurrentInv
<1>2. RuntimeTypeOK
  BY <1>1 DEF RuntimeInit, RuntimeTypeOK
<1>3. Linked
  BY <1>1 DEF LifecycleInit, Linked, Stoppers
<1>4. DisposedInv /\ CallbacksInv
  BY <1>1 DEF RuntimeInit, LifecycleInit, DisposedInv, CallbacksInv
<1>5. BootInv
  BY <1>1, RuntimeAssumption DEF RuntimeInit, LifecycleInit, BootInv
<1>6. QED
  BY <1>1, <1>2, <1>3, <1>4, <1>5 DEF RuntimeInv

(* The links of the manager's state are kept by its every step.            *)
LEMMA LinkedStep ==
  ASSUME TypeOK, Linked, [ConcurrentNext]_lifecycleVars
  PROVE  Linked'
<1> USE DEF TypeOK, Linked, Stoppers
<1>1. CASE Register
  BY <1>1 DEF Register
<1>2. ASSUME NEW i \in Guarded, ToggleGuard(i) PROVE Linked'
  BY <1>2 DEF ToggleGuard
<1>3. ASSUME NEW c \in Callers, NEW inside \in BOOLEAN, StartupPending(c, inside)
      PROVE  Linked'
  BY <1>3 DEF StartupPending, StartupPendingCall, Loop, StartFrom
<1>4. ASSUME NEW c \in Callers, Resume(c) PROVE Linked'
  BY <1>4 DEF Resume, Loop, StartFrom
<1>5. ASSUME NEW object \in BOOLEAN, HookStarted(object) PROVE Linked'
  BY <1>5 DEF HookStarted, HookSettles, StartFrom
<1>6. CASE SealFailed \/ HookFailed
  BY <1>6 DEF SealFailed, HookFailed, HookSettles, FailStartup, StopFrom
<1>7. CASE BatchFinally
  BY <1>7 DEF BatchFinally
<1>8. ASSUME NEW p \in Stoppers, StopHookSettled(p) PROVE Linked'
  BY <1>8 DEF StopHookSettled, StopFrom
<1>9. CASE Shutdown
  BY <1>9 DEF Shutdown, StopFrom
<1>10. CASE UNCHANGED lifecycleVars
  BY <1>10 DEF lifecycleVars
<1>11. QED
  BY <1>1, <1>2, <1>3, <1>4, <1>5, <1>6, <1>7, <1>8, <1>9, <1>10
  DEF ConcurrentNext, Internal, Startup

(* Whatever happens but a call of shutdown(), the manager is shut down     *)
(* afterwards if it was before, and then it stays so.                      *)
LEMMA InternalStep ==
  ASSUME TypeOK, Linked, [Internal]_lifecycleVars
  PROVE  /\ shutdownPc' = "none" <=> shutdownPc = "none"
         /\ shutdownPc = "done" => shutdownPc' = "done"
         /\ disposed => disposed'
<1> USE DEF TypeOK, Linked, Stoppers
<1>1. CASE \E p \in Stoppers : StopHookSettled(p)
  BY <1>1 DEF StopHookSettled, StopFrom
<1>2. CASE SealFailed \/ HookFailed
  BY <1>2 DEF SealFailed, HookFailed, FailStartup, StopFrom
<1>3. CASE UNCHANGED <<shutdownPc, disposed>>
  BY <1>3
<1>4. QED
  BY <1>1, <1>2, <1>3
  DEF Internal, Startup, lifecycleVars, Register, ToggleGuard, StartupPending, StartupPendingCall,
      Resume, HookStarted, BatchFinally

(* AppBootstrap.shutdown() calls the manager's shutdown() when no before   *)
(* callback runs and the ready promise is not pending.                     *)
Disposes ==
  /\ phase \in {"before", "awaitReady"} /\ readyP # "pending"
  /\ phase = "awaitReady" \/ \A k \in Callbacks : cb[k] # "inBefore"
  /\ phase' = "stopping" /\ app' = "disposed"
  /\ ShutDownManager
  /\ UNCHANGED <<boot, readyP, registry, cb, hookJoins>>

(* Every other step of the runtime is none of the manager, or one that the *)
(* manager makes by itself.                                                *)
LEMMA ManagerStep ==
  ASSUME RuntimeTypeOK, [RuntimeNext]_vars
  PROVE  \/ Disposes
         \/ [Internal]_lifecycleVars /\ overlap' = overlap /\ (app' = "disposed" <=> app = "disposed")
<1> USE DEF RuntimeTypeOK
<1>1. CASE BeforeDone \/ ReadySettled
  BY <1>1 DEF BeforeDone, ReadySettled, DisposeApp, Disposes
<1>2. ASSUME NEW c \in Callers, Construct, StartupPendingCall(c, FALSE) PROVE Internal
  BY <1>2 DEF Construct, Internal, Startup, StartupPending
<1>3. ASSUME Construct,
             UNCHANGED <<startedIndex, disposed, batch, cur, stopping, shutdownPc, ready, pc,
                         awaited, refusing, status, starts, stops>>
      PROVE  [Internal]_lifecycleVars
  <2>1. count' \in (count + 1)..MaxEntries \/ count' = count
    BY <1>3, EntriesAreNat DEF Construct, TypeOK
  <2>2. QED
    BY <1>3, <2>1 DEF Internal, Register, lifecycleVars
<1>4. CASE PrepareConfigs \/ Realize
  BY <1>2, <1>3, <1>4, RuntimeAssumption DEF PrepareConfigs, Realize
<1>5. CASE Activate
  BY <1>5, RuntimeAssumption DEF Activate, Internal, Startup
<1>6. ASSUME NEW g \in Getters, Get(g)
      PROVE  [Internal]_lifecycleVars /\ overlap' = overlap /\ app' = app
  BY <1>2, <1>3, <1>6 DEF Get, Getters, runtimeVars, appVars
<1>7. CASE Lifecycles
  <2>1. Internal
    BY <1>7 DEF Lifecycles, Internal, Startup, StartupHook
  <2>2. QED
    BY <1>7, <2>1 DEF Lifecycles, runtimeVars, appVars
<1>8. CASE DoReady \/ BootReady \/ BootFails \/ CleanedUp \/ CallShutdown \/ HookJoins
  BY <1>8 DEF DoReady, BootReady, BootFails, Fail, CleanedUp, CallShutdown, HookJoins
<1>9. CASE BeginShutdown \/ ServicesStopped \/ ShutdownFinally
  BY <1>9 DEF BeginShutdown, ServicesStopped, ShutdownFinally
<1>10. ASSUME NEW k \in Callbacks,
              CallbackSettled(k) \/ RunHandle(k)
                \/ \E set \in {"before", "after"} : RegisterShutdown(k, set)
       PROVE  UNCHANGED <<lifecycleVars, overlap, app>>
  BY <1>10 DEF CallbackSettled, RunHandle, RegisterShutdown
<1>11. CASE UNCHANGED vars
  BY <1>11 DEF vars, runtimeVars, appVars
<1>12. QED
  BY <1>1, <1>4, <1>5, <1>6, <1>7, <1>8, <1>9, <1>10, <1>11
  DEF RuntimeNext, CreateRuntime, RunShutdown

(* A shutdown of the manager that meets a batch meets that of a get(), or  *)
(* that of the configs.                                                    *)
Overlaps ==
  overlap' /\ (overlap \/ \E c \in Callers : pc[c] = "waiting" /\ (c = Boot => boot = "configs"))

LEMMA ManagerStepSerial ==
  ASSUME RuntimeInv, [RuntimeNext]_vars
  PROVE  /\ [ConcurrentNext]_lifecycleVars
         /\ [Next \/ Overlaps]_lifecycleVars
         /\ ~overlap' => ~overlap /\ [Next]_lifecycleVars
<1> USE DEF RuntimeInv
<1>1. CASE Disposes
  <2>1. Shutdown /\ overlap' = (batch # "none") /\ app # "disposed" /\ ~overlap
    BY <1>1 DEF Disposes, ShutDownManager, DisposedInv
  <2>2. CASE batch = "none"
    BY <2>1, <2>2 DEF ConcurrentNext, Next, ShutdownAfterStartup
  <2>3. CASE batch # "none"
    <3>1. PICK c \in Callers : pc[c] = "waiting"
      BY <2>3 DEF Linked
    <3>2. c = Boot => boot = "configs"
      BY <1>1, <3>1 DEF BootInv, Disposes
    <3>3. QED
      BY <2>1, <2>3, <3>1, <3>2 DEF Overlaps, ConcurrentNext
  <2>4. QED
    BY <2>2, <2>3
<1>2. CASE [Internal]_lifecycleVars /\ overlap' = overlap
  BY <1>2 DEF ConcurrentNext, Next
<1>3. QED
  BY <1>1, <1>2, ManagerStep

(* A running batch is left only by its hook's settling.                    *)
LEMMA BatchGoesOn ==
  ASSUME RuntimeTypeOK, Linked, batch = "starting", [RuntimeNext]_vars
  PROVE  batch' = "starting" \/ ~hookJoins'
<1> USE DEF RuntimeTypeOK, TypeOK, Linked
<1>1. ASSUME NEW c, StartupPendingCall(c, FALSE) PROVE batch' = "starting"
  BY <1>1 DEF StartupPendingCall, Loop
<1>2. CASE BeforeDone \/ ReadySettled
  BY <1>2 DEF BeforeDone, ReadySettled, DisposeApp, ShutDownManager, Shutdown, StopFrom, lifecycleVars
<1>3. CASE PrepareConfigs \/ Realize \/ Activate \/ \E g \in Getters : Get(g)
  BY <1>1, <1>3 DEF PrepareConfigs, Realize, Activate, Get, StartupPending, lifecycleVars
<1>4. CASE Lifecycles
  <2>1. CASE StartupHook
    BY <1>4, <2>1 DEF Lifecycles, StartupHook, runtimeVars
  <2>2. CASE \E c \in Callers : Resume(c)
    BY <2>2 DEF Resume, Loop
  <2>3. CASE \E p \in Stoppers : StopHookSettled(p)
    BY <2>3 DEF StopHookSettled, StopFrom, Stoppers
  <2>4. QED
    BY <1>4, <2>1, <2>2, <2>3 DEF Lifecycles, ToggleGuard, BatchFinally
<1>5. CASE UNCHANGED lifecycleVars
  BY <1>5 DEF lifecycleVars
<1>6. QED
  BY <1>2, <1>3, <1>4, <1>5
  DEF RuntimeNext, CreateRuntime, RunShutdown, BeginShutdown, ServicesStopped, ShutdownFinally,
      CallShutdown, HookJoins, DoReady, BootReady, BootFails, CleanedUp, CallbackSettled,
      RunHandle, RegisterShutdown, vars

(* Every step of the runtime keeps its types.                              *)
LEMMA RuntimeTypeStep ==
  ASSUME RuntimeInv, TypeOK', [RuntimeNext]_vars
  PROVE  RuntimeTypeOK'
<1> USE DEF RuntimeInv, RuntimeTypeOK, RequestShutdown
<1> DEFINE Joins == hookJoins \in BOOLEAN /\ (hookJoins => batch = "starting" /\ phase # "none")
           Types == RuntimeTypeOK!2 /\ RuntimeTypeOK!3 /\ RuntimeTypeOK!4 /\ RuntimeTypeOK!5
                      /\ RuntimeTypeOK!6 /\ RuntimeTypeOK!7 /\ RuntimeTypeOK!8
<1>1. ASSUME NEW set, NEW in \in {"inBefore", "inAfter"}, RunAll(set, in)
      PROVE  cb' \in [Callbacks -> {"none", "before", "after", "inBefore", "inAfter", "alone", "done"}]
  BY <1>1 DEF RunAll
<1>2. Types'
  <2>1. CASE CreateRuntime
    BY <2>1 DEF CreateRuntime, PrepareConfigs, Realize, Activate, DoReady, BootReady, BootFails,
                Fail, CleanedUp
  <2>2. CASE BeginShutdown \/ ServicesStopped \/ ShutdownFinally
    BY <1>1, <2>2 DEF BeginShutdown, ServicesStopped, ShutdownFinally
  <2>3. CASE BeforeDone \/ ReadySettled
    BY <2>3 DEF BeforeDone, ReadySettled, DisposeApp, ShutDownManager
  <2>4. CASE CallShutdown \/ HookJoins
    BY <2>4 DEF CallShutdown, HookJoins
  <2>5. ASSUME NEW k \in Callbacks,
               CallbackSettled(k) \/ RunHandle(k)
                 \/ \E set \in {"before", "after"} : RegisterShutdown(k, set)
        PROVE  Types'
    BY <2>5 DEF CallbackSettled, RunHandle, RegisterShutdown
  <2>6. CASE UNCHANGED runtimeVars
    BY <2>6 DEF runtimeVars, appVars
  <2>7. QED
    BY <2>1, <2>2, <2>3, <2>4, <2>5, <2>6 DEF RuntimeNext, RunShutdown, Lifecycles, Get, vars
<1>3. Joins'
  <2>1. UNCHANGED hookJoins \/ hookJoins' = FALSE \/ HookJoins
    BY DEF RuntimeNext, CreateRuntime, PrepareConfigs, Realize, Activate, DoReady, BootReady,
           BootFails, Fail, CleanedUp, RunShutdown, BeginShutdown, BeforeDone, ReadySettled,
           ServicesStopped, ShutdownFinally, CallShutdown, CallbackSettled, RunHandle,
           RegisterShutdown, Get, Lifecycles, vars, runtimeVars
  <2>2. hookJoins' => phase' # "none"
    BY <2>1
    DEF RuntimeNext, CreateRuntime, PrepareConfigs, Realize, Activate, DoReady, BootReady,
        BootFails, Fail, CleanedUp, RunShutdown, BeginShutdown, BeforeDone, ReadySettled,
        ServicesStopped, ShutdownFinally, CallShutdown, HookJoins, CallbackSettled, RunHandle,
        RegisterShutdown, Get, Lifecycles, vars, runtimeVars, appVars, DisposeApp
  <2>3. hookJoins' => batch' = "starting"
    BY <2>1, BatchGoesOn DEF HookJoins, lifecycleVars
  <2>4. hookJoins' \in BOOLEAN
    BY <2>1 DEF HookJoins
  <2>5. QED
    BY <2>2, <2>3, <2>4
<1>4. QED
  BY <1>2, <1>3

(* The application is disposed together with the manager, and only then.   *)
LEMMA AppDisposedStep ==
  ASSUME RuntimeInv, [RuntimeNext]_vars
  PROVE  DisposedInv'
<1> USE DEF RuntimeInv, RuntimeTypeOK, TypeOK, DisposedInv, RequestShutdown
<1>1. CASE Disposes
  BY <1>1 DEF Disposes, ShutDownManager, Shutdown, StopFrom
<1>2. CASE [Internal]_lifecycleVars /\ overlap' = overlap /\ (app' = "disposed" <=> app = "disposed")
  <2>1. /\ shutdownPc' = "none" <=> shutdownPc = "none"
        /\ shutdownPc = "done" => shutdownPc' = "done"
        /\ disposed => disposed'
    BY <1>2, InternalStep
  <2>2. /\ phase \in {"stopping", "after", "done"} <=> phase' \in {"stopping", "after", "done"}
        /\ phase' \in {"after", "done"} => phase \in {"after", "done"} \/ shutdownPc = "done"
        /\ registry' = "disposed" => phase' = "done"
    BY <1>2
    DEF RuntimeNext, CreateRuntime, PrepareConfigs, Realize, Activate, DoReady, BootReady,
        BootFails, Fail, CleanedUp, RunShutdown, BeginShutdown, BeforeDone, ReadySettled,
        ServicesStopped, ShutdownFinally, CallShutdown, HookJoins, CallbackSettled, RunHandle,
        RegisterShutdown, Get, Lifecycles, vars, runtimeVars, appVars, DisposeApp
  <2>3. QED
    BY <1>2, <2>1, <2>2
<1>3. QED
  BY <1>1, <1>2, ManagerStep

(* Callbacks are called by their phase of the shutdown and settle in it.   *)
LEMMA CallbacksStep ==
  ASSUME RuntimeInv, [RuntimeNext]_vars
  PROVE  CallbacksInv'
<1> USE DEF RuntimeInv, RuntimeTypeOK, DisposedInv, CallbacksInv, RequestShutdown
<1>1. CASE CreateRuntime
  BY <1>1 DEF CreateRuntime, PrepareConfigs, Realize, Activate, DoReady, BootReady, BootFails,
              Fail, CleanedUp
<1>2. CASE BeginShutdown
  BY <1>2 DEF BeginShutdown, RunAll
<1>3. CASE BeforeDone
  BY <1>3 DEF BeforeDone, DisposeApp
<1>4. CASE ReadySettled
  BY <1>4 DEF ReadySettled, DisposeApp
<1>5. CASE ServicesStopped
  BY <1>5 DEF ServicesStopped, RunAll
<1>6. CASE ShutdownFinally
  BY <1>6 DEF ShutdownFinally
<1>7. CASE CallShutdown \/ HookJoins
  BY <1>7 DEF CallShutdown, HookJoins
<1>8. ASSUME NEW k \in Callbacks,
             CallbackSettled(k) \/ RunHandle(k)
               \/ \E set \in {"before", "after"} : RegisterShutdown(k, set)
      PROVE  CallbacksInv'
  BY <1>8 DEF CallbackSettled, RunHandle, RegisterShutdown
<1>9. CASE UNCHANGED runtimeVars
  BY <1>9 DEF runtimeVars, appVars
<1>10. QED
  BY <1>1, <1>2, <1>3, <1>4, <1>5, <1>6, <1>7, <1>8, <1>9
  DEF RuntimeNext, RunShutdown, Lifecycles, Get, vars

(* createRuntime() waits for the startup it asked for, and nothing else.   *)
LEMMA BootStep ==
  ASSUME RuntimeInv, [RuntimeNext]_vars
  PROVE  BootInv'
<1> USE RuntimeAssumption DEF RuntimeInv, RuntimeTypeOK, TypeOK, DisposedInv, BootInv, RequestShutdown
<1>1. ASSUME NEW c \in Callers \ {Boot}, StartupPendingCall(c, FALSE) PROVE pc'[Boot] = pc[Boot]
  BY <1>1 DEF StartupPendingCall, Loop
<1>2. CASE PrepareConfigs
  BY <1>2 DEF PrepareConfigs
<1>3. CASE Realize
  BY <1>3 DEF Realize
<1>4. CASE Activate
  BY <1>4 DEF Activate, lifecycleVars
<1>5. CASE DoReady \/ BootReady \/ BootFails \/ CleanedUp
  BY <1>5 DEF DoReady, BootReady, BootFails, Fail, CleanedUp, lifecycleVars
<1>6. CASE BeginShutdown \/ ServicesStopped \/ ShutdownFinally \/ CallShutdown \/ HookJoins
  BY <1>6 DEF BeginShutdown, ServicesStopped, ShutdownFinally, CallShutdown, HookJoins, lifecycleVars
<1>7. CASE BeforeDone \/ ReadySettled
  BY <1>7 DEF BeforeDone, ReadySettled, DisposeApp, ShutDownManager, Shutdown, lifecycleVars
<1>8. ASSUME NEW k \in Callbacks,
             CallbackSettled(k) \/ RunHandle(k)
               \/ \E set \in {"before", "after"} : RegisterShutdown(k, set)
      PROVE  BootInv'
  BY <1>8 DEF CallbackSettled, RunHandle, RegisterShutdown, lifecycleVars
<1>9. ASSUME NEW g \in Getters, Get(g) PROVE BootInv'
  BY <1>1, <1>9 DEF Get, Getters, runtimeVars, appVars
<1>10. CASE Lifecycles
  <2>1. pc'[Boot] \in {"waiting", "resumed"} => pc[Boot] \in {"waiting", "resumed"}
    BY <1>10
    DEF Lifecycles, ToggleGuard, Resume, Loop, StartupHook, HookFailed, SealFailed, HookStarted,
        BatchFinally, StopHookSettled
  <2>2. QED
    BY <1>10, <2>1 DEF Lifecycles, runtimeVars, appVars
<1>11. CASE UNCHANGED vars
  BY <1>11 DEF vars, lifecycleVars, runtimeVars, appVars
<1>12. QED
  BY <1>2, <1>3, <1>4, <1>5, <1>6, <1>7, <1>8, <1>9, <1>10, <1>11
  DEF RuntimeNext, CreateRuntime, RunShutdown

LEMMA RuntimeStepInv ==
  ASSUME RuntimeInv, [RuntimeNext]_vars
  PROVE  RuntimeInv'
<1>1. ConcurrentInv' /\ TypeOK'
  BY ManagerStepSerial, ConcurrentStep DEF RuntimeInv, ConcurrentInv
<1>2. ~overlap' => SerialInv'
  BY ManagerStepSerial, SerialStep DEF RuntimeInv
<1>3. Linked'
  BY ManagerStepSerial, LinkedStep DEF RuntimeInv, ConcurrentInv
<1>4. QED
  BY <1>1, <1>2, <1>3, RuntimeTypeStep, AppDisposedStep, CallbacksStep, BootStep DEF RuntimeInv

(* What the invariant says of the phases of a shutdown and of callbacks.   *)
LEMMA RuntimePhases ==
  ASSUME RuntimeInv
  PROVE  PhasesInOrder /\ UsableWhileNeeded /\ NoCallbackForgotten
<1> USE DEF RuntimeInv, RuntimeTypeOK, TypeOK, DisposedInv, CallbacksInv, InMotion
<1>1. ASSUME ~overlap, shutdownPc = "done"
      PROVE  \A i \in Entries : status[i] \in {"new", "failed", "down"}
  BY <1>1, SerialStopped DEF NothingLeftRunning
<1>2. BeforePhasePrecedesStop
  BY DEF Linked, BeforePhasePrecedesStop
<1>3. AfterPhaseIsLast
  BY <1>1 DEF AfterPhaseIsLast, AfterPhaseServicesStopped
<1>4. HandlesUsableUntilStopped
  BY <1>1 DEF HandlesUsableUntilStopped, BootInv
<1>5. RefusedLeavesUsable
  BY DEF RefusedLeavesUsable
<1>6. DisposedIsUnusable
  BY DEF DisposedIsUnusable, BootInv
<1>7. NoCallbackForgotten
  BY DEF NoCallbackForgotten
<1>8. QED
  BY <1>2, <1>3, <1>4, <1>5, <1>6, <1>7 DEF PhasesInOrder, UsableWhileNeeded

-----------------------------------------------------------------------------
(* The runtime with a server *)

LEMMA ServersInitially == ServersInit => ServersInv
  BY RuntimeInitially, ListenAssumption
  DEF ServersInit, ServersInv, ServerInv, RuntimeInit

(* The steps of the server are steps of the runtime or leave it alone.     *)
LEMMA ServersStepRuntime == [ServersNext]_servedVars => [RuntimeNext]_vars
  BY ListenAssumption
  DEF ServersNext, RuntimeStep, CallListen, CallHandle, ServerStep, Bound, BindFailed, CloseServer,
      Closed, CallbackEnds, RuntimeNext, servedVars

(* Every step keeps the server and its callback together.                  *)
LEMMA ServerStepInv ==
  ASSUME ServersInv, [ServersNext]_servedVars
  PROVE  ServerInv'
<1> USE ListenAssumption DEF ServersInv, ServerInv
<1>2. CASE RuntimeStep
  <2>1. cb'[Listen] = "inBefore" => cb[Listen] \in {"before", "inBefore"}
    BY <1>2
    DEF RuntimeStep, RuntimeNext, CreateRuntime, PrepareConfigs, Realize, Activate, DoReady, BootReady,
        BootFails, Fail, CleanedUp, RunShutdown, BeginShutdown, BeforeDone, ReadySettled,
        ServicesStopped, ShutdownFinally, CallShutdown, HookJoins, CallbackSettled, RunHandle,
        RegisterShutdown, Get, Lifecycles, runtimeVars, appVars, RunAll, RuntimeInv, RuntimeTypeOK
  <2>2. QED
    BY <1>2, <2>1 DEF RuntimeStep
<1>3. CASE CallListen
  BY <1>3 DEF CallListen, RegisterShutdown, RuntimeInv, RuntimeTypeOK
<1>4. CASE CallHandle \/ BindFailed
  BY <1>4 DEF CallHandle, BindFailed, RunHandle, RuntimeInv, RuntimeTypeOK
<1>5. CASE CallbackEnds
  BY <1>5 DEF CallbackEnds, CallbackSettled, RuntimeInv, RuntimeTypeOK
<1>6. CASE Bound \/ CloseServer \/ Closed
  BY <1>6 DEF Bound, CloseServer, Closed, vars, runtimeVars, appVars
<1>7. CASE UNCHANGED servedVars
  BY <1>7 DEF servedVars, vars, runtimeVars, appVars
<1>8. QED
  BY <1>2, <1>3, <1>4, <1>5, <1>6, <1>7 DEF ServersNext, ServerStep

LEMMA ServersStepInv ==
  ASSUME ServersInv, [ServersNext]_servedVars
  PROVE  ServersInv'
<1>1. RuntimeInv'
  BY ServersStepRuntime, RuntimeStepInv DEF ServersInv
<1>2. QED
  BY <1>1, ServerStepInv DEF ServersInv

LEMMA ServersCorrect == ServersSpec => []ServersInv
<1>1. ServersInv /\ [ServersNext]_servedVars => ServersInv'
  BY ServersStepInv
<1>2. QED
  BY <1>1, ServersInitially, PTL DEF ServersSpec

(* For any number of entries, callers and callbacks, the state of the      *)
(* runtime has its types: among others, startedIndex never leaves the      *)
(* lifecycles array, whoever calls get() and shutdown() when, and a        *)
(* startup hook that awaits shutdown() is the one that runs.               *)
THEOREM ServersTypes == ServersSpec => []ServersTypeOK
<1>1. ServersInv => ServersTypeOK
  BY DEF ServersInv, ServerInv, RuntimeInv, ServersTypeOK
<1>2. QED
  BY <1>1, ServersCorrect, PTL

(* The before callbacks precede the services and these the after callbacks *)
(* of a shutdown, and the server is closed when the services stop.         *)
THEOREM ShutdownOrdered == ServersSpec => []ShutdownInOrder
<1>1. ServersInv => ShutdownInOrder
  <2>1. ServersInv => PhasesInOrder
    BY RuntimePhases DEF ServersInv
  <2>2. ServersInv => ServersClosedFirst
    BY ListenAssumption
    DEF ServersInv, ServerInv, ServersClosedFirst, RuntimeInv, RuntimeTypeOK,
        DisposedInv, CallbacksInv
  <2>3. QED
    BY <2>1, <2>2 DEF ShutdownInOrder
<1>2. QED
  BY <1>1, ServersCorrect, PTL

(* Services can use feature handles until they are stopped, a refused      *)
(* shutdown leaves everything as it was, a completed one leaves no handle. *)
THEOREM RuntimeUsable == ServersSpec => []UsableWhileNeeded
<1>1. ServersInv => UsableWhileNeeded
  BY RuntimePhases DEF ServersInv
<1>2. QED
  BY <1>1, ServersCorrect, PTL

(* A completed shutdown called every callback that was registered.         *)
THEOREM CallbacksCalled == ServersSpec => []NoCallbackForgotten
<1>1. ServersInv => NoCallbackForgotten
  BY RuntimePhases DEF ServersInv
<1>2. QED
  BY <1>1, ServersCorrect, PTL

(* The runtime is the environment that the theorems about the manager      *)
(* assume, but for the overlap of a shutdown with a get() or the configs.  *)
THEOREM ManagerUsedSerially == ServersSpec => UsesManagerSerially
<1>1. ServersInit => LifecycleInit
  BY DEF ServersInit, RuntimeInit
<1>2. ServersInv /\ [ServersNext]_servedVars => [Next \/ Overlaps]_lifecycleVars
  BY ServersStepRuntime, ManagerStepSerial DEF ServersInv
<1>3. QED
  BY <1>1, <1>2, ServersCorrect, PTL DEF ServersSpec, UsesManagerSerially, Overlaps

(* A get(), and createRuntime(), go on only when everything that was       *)
(* registered by then runs, whatever the rest of the runtime does.         *)
THEOREM GetMeansRunning == ServersSpec => ReturnsWhenAllRun
<1>1. ServersInv /\ [ServersNext]_servedVars => ConcurrentInv /\ [ConcurrentNext]_lifecycleVars
  BY ServersStepRuntime, ManagerStepSerial DEF ServersInv, RuntimeInv
<1>2. QED
  BY <1>1, AnswerStep, ServersCorrect, PTL DEF ServersSpec, ReturnsWhenAllRun

=============================================================================
