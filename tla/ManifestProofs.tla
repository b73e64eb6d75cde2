--------------------------- MODULE ManifestProofs ---------------------------
(***************************************************************************)
(* For any set of processes: the manifest lock excludes and no entry is    *)
(* lost, until a process at work is robbed of its lock.                    *)
(***************************************************************************)
EXTENDS ManifestLock, TLAPS

(* A process at work made the lock that exists; what it read is what is in *)
(* the manifest until it renames; and what is written is there.            *)
HolderInv == robbed \/ \A p \in Working : lock = p

SnapshotInv ==
  robbed \/ \A p \in Processes : pc[p] \in {"write", "rename"} => seen[p] = manifest

WrittenInv ==
  robbed \/ \A p \in Processes : pc[p] \in {"release", "done"} => p \in manifest

ManifestInv == ManifestTypeOK /\ HolderInv /\ SnapshotInv /\ WrittenInv

-----------------------------------------------------------------------------

(* Every step keeps the types.                                             *)
LEMMA TypeStep ==
  ASSUME ManifestTypeOK, [ManifestNext]_manifestVars
  PROVE  ManifestTypeOK'
<1> USE NoOneAssumption DEF ManifestTypeOK, AtWork, Ended, GoTo
<1>1. CASE UNCHANGED manifestVars
  BY <1>1 DEF manifestVars
<1>2. ASSUME NEW p \in Processes, Begin(p) \/ MkdirFails(p) PROVE ManifestTypeOK'
  BY <1>2 DEF Begin, MkdirFails
<1>3. ASSUME NEW p \in Processes, Mkdir(p) PROVE ManifestTypeOK'
  BY <1>3 DEF Mkdir
<1>4. ASSUME NEW p \in Processes, Stat(p) PROVE ManifestTypeOK'
  BY <1>4 DEF Stat
<1>5. ASSUME NEW p \in Processes, RemoveLock(p) PROVE robbed' \in BOOLEAN
  BY <1>5, Zenon DEF RemoveLock
<1>6. ASSUME NEW p \in Processes, RemoveStale(p) PROVE ManifestTypeOK'
  BY <1>5, <1>6 DEF RemoveStale, RemoveLock
<1>7. ASSUME NEW p \in Processes, RemoveFails(p) PROVE ManifestTypeOK'
  BY <1>7 DEF RemoveFails
<1>8. ASSUME NEW p \in Processes, Read(p) PROVE ManifestTypeOK'
  BY <1>8 DEF Read
<1>9. ASSUME NEW p \in Processes, Write(p) \/ Fail(p) PROVE ManifestTypeOK'
  BY <1>9 DEF Write, Fail
<1>10. ASSUME NEW p \in Processes, Rename(p) PROVE ManifestTypeOK'
  BY <1>10 DEF Rename
<1>11. ASSUME NEW p \in Processes, Release(p) \/ ReleaseFails(p) PROVE ManifestTypeOK'
  BY <1>5, <1>11 DEF Release, ReleaseFails, RemoveLock
<1>12. ASSUME NEW p \in Processes, Crash(p) PROVE ManifestTypeOK'
  BY <1>12 DEF Crash
<1>13. CASE LockAges
  BY <1>13 DEF LockAges
<1>14. ASSUME NEW p \in Processes, DeadlinePasses(p) PROVE ManifestTypeOK'
  BY <1>14 DEF DeadlinePasses
<1> QED
  BY <1>1, <1>2, <1>3, <1>4, <1>6, <1>7, <1>8, <1>9, <1>10, <1>11, <1>12, <1>13, <1>14
  DEF ManifestNext, Step

(* Who is at work is the owner of the lock: a process begins its work only *)
(* when no lock exists, and a removal that hits another process robs it.   *)
LEMMA HolderStep ==
  ASSUME ManifestTypeOK, HolderInv, [ManifestNext]_manifestVars
  PROVE  HolderInv'
<1> SUFFICES ASSUME ~robbed', NEW q \in Processes, pc'[q] \in AtWork
             PROVE  lock' = q
  BY DEF HolderInv, Working
<1> USE NoOneAssumption DEF ManifestTypeOK, HolderInv, Working, AtWork, GoTo
<1>1. CASE UNCHANGED manifestVars
  BY <1>1 DEF manifestVars
<1>2. ASSUME NEW p \in Processes, Begin(p) \/ MkdirFails(p) \/ RemoveFails(p) PROVE lock' = q
  BY <1>2 DEF Begin, MkdirFails, RemoveFails
<1>3. ASSUME NEW p \in Processes, Mkdir(p) PROVE lock' = q
  BY <1>3 DEF Mkdir
<1>4. ASSUME NEW p \in Processes, Stat(p) PROVE lock' = q
  BY <1>4 DEF Stat
<1>5. ASSUME NEW p \in Processes, RemoveStale(p) PROVE lock' = q
  BY <1>5 DEF RemoveStale, RemoveLock
<1>6. ASSUME NEW p \in Processes, Read(p) \/ Write(p) \/ Fail(p) PROVE lock' = q
  BY <1>6 DEF Read, Write, Fail
<1>7. ASSUME NEW p \in Processes, Rename(p) PROVE lock' = q
  BY <1>7 DEF Rename
<1>8. ASSUME NEW p \in Processes, Release(p) \/ ReleaseFails(p) PROVE lock' = q
  BY <1>8 DEF Release, ReleaseFails, RemoveLock
<1>9. ASSUME NEW p \in Processes, Crash(p) PROVE lock' = q
  BY <1>9 DEF Crash
<1>10. CASE LockAges
  BY <1>10 DEF LockAges
<1>11. ASSUME NEW p \in Processes, DeadlinePasses(p) PROVE lock' = q
  BY <1>11 DEF DeadlinePasses
<1> QED
  BY <1>1, <1>2, <1>3, <1>4, <1>5, <1>6, <1>7, <1>8, <1>9, <1>10, <1>11
  DEF ManifestNext, Step

(* Between the read and the rename of a process nobody else changes the    *)
(* manifest, for that takes the lock.                                      *)
LEMMA ContentStep ==
  ASSUME ManifestTypeOK, HolderInv, SnapshotInv, WrittenInv, [ManifestNext]_manifestVars
  PROVE  SnapshotInv' /\ WrittenInv'
<1> SUFFICES ASSUME ~robbed', NEW q \in Processes
             PROVE  /\ pc'[q] \in {"write", "rename"} => seen'[q] = manifest'
                    /\ pc'[q] \in {"release", "done"} => q \in manifest'
  BY DEF SnapshotInv, WrittenInv
<1> DEFINE Kept == /\ pc'[q] \in {"write", "rename"} => seen'[q] = manifest'
                   /\ pc'[q] \in {"release", "done"} => q \in manifest'
<1> USE DEF ManifestTypeOK, SnapshotInv, WrittenInv, Ended, GoTo
<1>1. CASE UNCHANGED manifestVars
  BY <1>1 DEF manifestVars
<1>2. ASSUME NEW p \in Processes, Begin(p) \/ MkdirFails(p) \/ RemoveFails(p) PROVE Kept
  BY <1>2 DEF Begin, MkdirFails, RemoveFails
<1>3. ASSUME NEW p \in Processes, Mkdir(p) PROVE Kept
  BY <1>3 DEF Mkdir
<1>4. ASSUME NEW p \in Processes, Stat(p) PROVE Kept
  BY <1>4 DEF Stat
<1>5. ASSUME NEW p \in Processes, RemoveStale(p) PROVE Kept
  BY <1>5 DEF RemoveStale, RemoveLock
<1>6. ASSUME NEW p \in Processes, Read(p) \/ Write(p) \/ Fail(p) PROVE Kept
  BY <1>6 DEF Read, Write, Fail
<1>7. ASSUME NEW p \in Processes, Rename(p) PROVE Kept
  <2>1. ~robbed /\ pc[p] = "rename" /\ manifest' = seen[p] \cup {p} /\ seen' = seen
    BY <1>7 DEF Rename
  <2>2. pc' = [pc EXCEPT ![p] = "release"] /\ seen[p] = manifest
    BY <1>7, <2>1 DEF Rename
  <2>3. p # q => pc[q] \notin {"write", "rename"}
    BY <2>1 DEF HolderInv, Working, AtWork
  <2> QED BY <2>1, <2>2, <2>3
<1>8. ASSUME NEW p \in Processes, Release(p) \/ ReleaseFails(p) PROVE Kept
  BY <1>8 DEF Release, ReleaseFails, RemoveLock
<1>9. ASSUME NEW p \in Processes, Crash(p) PROVE Kept
  BY <1>9 DEF Crash
<1>10. CASE LockAges
  BY <1>10 DEF LockAges
<1>11. ASSUME NEW p \in Processes, DeadlinePasses(p) PROVE Kept
  BY <1>11 DEF DeadlinePasses
<1> QED
  BY <1>1, <1>2, <1>3, <1>4, <1>5, <1>6, <1>7, <1>8, <1>9, <1>10, <1>11
  DEF ManifestNext, Step

(* The inductive invariant holds throughout.                               *)
THEOREM Invariance == ManifestSpec => []ManifestInv
<1>1. ManifestInit => ManifestInv
  BY DEF ManifestInit, ManifestInv, ManifestTypeOK, HolderInv, SnapshotInv, WrittenInv,
         Working, AtWork, Ended
<1>2. ManifestInv /\ [ManifestNext]_manifestVars => ManifestInv'
  BY TypeStep, HolderStep, ContentStep DEF ManifestInv
<1> QED BY <1>1, <1>2, PTL DEF ManifestSpec

(* Each of the variables keeps its type, for any number of processes: the  *)
(* holder in the lock is always a process that asked for it.               *)
THEOREM ManifestTypes == ManifestSpec => []ManifestTypeOK
<1>1. ManifestInv => ManifestTypeOK
  BY DEF ManifestInv
<1> QED BY <1>1, Invariance, PTL

(* The lock excludes until a process at work is robbed of it, for any      *)
(* number of processes (withGraphqlCodegenManifestLock).                   *)
THEOREM LockExcludes == ManifestSpec => []OneAtWork
<1>1. ManifestInv => OneAtWork
  BY DEF ManifestInv, HolderInv, OneAtWork, Working
<1> QED BY <1>1, Invariance, PTL

(* Concurrent upserts lose no entry until a process at work is robbed of   *)
(* the lock, for any number of processes.                                  *)
THEOREM EntriesSurvive == ManifestSpec => []NothingLost
<1>1. ManifestInv => NothingLost
  BY DEF ManifestInv, WrittenInv, NothingLost
<1> QED BY <1>1, Invariance, PTL

=============================================================================
