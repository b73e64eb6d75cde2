---------------------------- MODULE ManifestLock ----------------------------
(***************************************************************************)
(* upsertGraphqlCodegenManifestEntry(): processes that run the GraphQL     *)
(* code generation in parallel add their entries to one manifest file,     *)
(* under a lock that is a directory.  A process may crash anywhere, or be  *)
(* suspended for so long that the others take its lock for an abandoned    *)
(* one.                                                                    *)
(*                                                                         *)
(* A step is one call of the file system.  Every process upserts one entry *)
(* with a helperPath of its own, which stands for the entry.               *)
(***************************************************************************)
CONSTANTS Processes, NoOne

ASSUME NoOneAssumption == NoOne \notin Processes

VARIABLES
  pc,       \* the next call of each process, or how its upsert ended
  lock,     \* who made the lock directory that exists, or NoOne
  stale,    \* whether it is older than LOCK_STALE_MS
  late,     \* the waiting processes whose LOCK_ACQUIRE_TIMEOUT_MS has passed
  seen,     \* the entries that each process at work read and will write back
  manifest, \* the entries in the manifest
  robbed    \* history: the lock of a process at work was removed by another

manifestVars == <<pc, lock, stale, late, seen, manifest, robbed>>

AtWork == {"read", "write", "rename", "release", "giveUp"}
Ended == {"done", "threw", "leaked", "crashed"}

(* The types; and a lock is left behind only by a crash or by a removal    *)
(* that failed.                                                            *)
ManifestTypeOK ==
  /\ pc \in [Processes -> {"idle", "mkdir", "stat", "rm"} \cup AtWork \cup Ended]
  /\ lock \in Processes \cup {NoOne}
  /\ lock # NoOne => pc[lock] \in AtWork \cup {"leaked", "crashed"}
  /\ stale \in BOOLEAN
  /\ late \subseteq Processes
  /\ seen \in [Processes -> SUBSET Processes]
  /\ manifest \subseteq Processes
  /\ robbed \in BOOLEAN

ManifestInit ==
  /\ pc = [p \in Processes |-> "idle"]
  /\ lock = NoOne
  /\ stale = FALSE
  /\ late = {}
  /\ seen = [p \in Processes |-> {}]
  /\ manifest = {}
  /\ robbed = FALSE

GoTo(p, next) == pc' = [pc EXCEPT ![p] = next]

-----------------------------------------------------------------------------
(* acquireManifestLock() *)

Begin(p) ==
  /\ pc[p] = "idle"
  /\ GoTo(p, "mkdir")
  /\ UNCHANGED <<lock, stale, late, seen, manifest, robbed>>

(* mkdir() without `recursive`: makes the directory, or fails with EEXIST. *)
Mkdir(p) ==
  /\ pc[p] = "mkdir"
  /\ IF lock = NoOne
     THEN lock' = p /\ stale' = FALSE /\ late' = late \ {p} /\ GoTo(p, "read")
     ELSE GoTo(p, "stat") /\ UNCHANGED <<lock, stale, late>>
  /\ UNCHANGED <<seen, manifest, robbed>>

(* It fails otherwise, and the upsert with it.                             *)
MkdirFails(p) ==
  /\ pc[p] = "mkdir"
  /\ GoTo(p, "threw")
  /\ late' = late \ {p}
  /\ UNCHANGED <<lock, stale, seen, manifest, robbed>>

(* Mutant of Stat: the deadline is not looked at.                          *)
StatForever(p) ==
  /\ pc[p] = "stat"
  /\ GoTo(p, IF lock # NoOne /\ stale THEN "rm" ELSE "mkdir")
  /\ UNCHANGED <<lock, stale, late, seen, manifest, robbed>>

(* stat(): a stale lock is to be removed; else the process gives up at its *)
(* deadline, or sleeps and tries again.                                    *)
Stat(p) ==
  /\ pc[p] = "stat"
  /\ \/ lock # NoOne /\ stale /\ GoTo(p, "rm") /\ UNCHANGED late
     \/ /\ lock = NoOne \/ ~stale
        /\ GoTo(p, IF p \in late THEN "threw" ELSE "mkdir")
        /\ late' = late \ {p}
  /\ UNCHANGED <<lock, stale, seen, manifest, robbed>>

(* rm() of the lock directory by p, whosever it is.                        *)
RemoveLock(p) ==
  /\ lock' = NoOne
  /\ stale' = FALSE
  /\ robbed' = (robbed \/ (lock \in Processes \ {p} /\ pc[lock] \in AtWork))

(* The process removes the directory that it found to be stale.            *)
RemoveStale(p) ==
  /\ pc[p] = "rm"
  /\ RemoveLock(p)
  /\ GoTo(p, "mkdir")
  /\ UNCHANGED <<late, seen, manifest>>

(* An error of that rm() is ignored.                                       *)
RemoveFails(p) ==
  /\ pc[p] = "rm"
  /\ GoTo(p, "mkdir")
  /\ UNCHANGED <<lock, stale, late, seen, manifest, robbed>>

-----------------------------------------------------------------------------
(* The upsert, under the lock *)

(* Mutant of Read: it releases the lock once it has read.                  *)
ReadReleases(p) ==
  /\ pc[p] = "read"
  /\ seen' = [seen EXCEPT ![p] = manifest]
  /\ GoTo(p, "write")
  /\ RemoveLock(p)
  /\ UNCHANGED <<late, manifest>>

Read(p) ==
  /\ pc[p] = "read"
  /\ seen' = [seen EXCEPT ![p] = manifest]
  /\ GoTo(p, "write")
  /\ UNCHANGED <<lock, stale, late, manifest, robbed>>

(* The temporary file is written.                                          *)
Write(p) ==
  /\ pc[p] = "write"
  /\ GoTo(p, "rename")
  /\ UNCHANGED <<lock, stale, late, seen, manifest, robbed>>

(* Mutant of Rename: the entries that were read are not written back.      *)
RenameOnlyOwn(p) ==
  /\ pc[p] = "rename"
  /\ manifest' = {p}
  /\ GoTo(p, "release")
  /\ UNCHANGED <<lock, stale, late, seen, robbed>>

(* The temporary file replaces the manifest.                               *)
Rename(p) ==
  /\ pc[p] = "rename"
  /\ manifest' = seen[p] \cup {p}
  /\ GoTo(p, "release")
  /\ UNCHANGED <<lock, stale, late, seen, robbed>>

(* An error of any of the three leaves the manifest as it is.              *)
Fail(p) ==
  /\ pc[p] \in {"read", "write", "rename"}
  /\ GoTo(p, "giveUp")
  /\ UNCHANGED <<lock, stale, late, seen, manifest, robbed>>

(* Mutant of Release: without `finally`, an error skips it.                *)
ReleaseOnSuccess(p) ==
  /\ pc[p] \in {"release", "giveUp"}
  /\ IF pc[p] = "release" THEN RemoveLock(p) /\ GoTo(p, "done")
                          ELSE GoTo(p, "threw") /\ UNCHANGED <<lock, stale, robbed>>
  /\ seen' = [seen EXCEPT ![p] = {}]
  /\ UNCHANGED <<late, manifest>>

(* The lock directory is removed, whosever it is.                          *)
Release(p) ==
  /\ pc[p] \in {"release", "giveUp"}
  /\ RemoveLock(p)
  /\ GoTo(p, IF pc[p] = "release" THEN "done" ELSE "threw")
  /\ seen' = [seen EXCEPT ![p] = {}]
  /\ UNCHANGED <<late, manifest>>

(* The removal fails, and the upsert with it; the directory stays.         *)
ReleaseFails(p) ==
  /\ pc[p] \in {"release", "giveUp"}
  /\ GoTo(p, "leaked")
  /\ seen' = [seen EXCEPT ![p] = {}]
  /\ UNCHANGED <<lock, stale, late, manifest, robbed>>

-----------------------------------------------------------------------------
(* The environment *)

(* The process dies; what it made in the file system stays.                *)
Crash(p) ==
  /\ pc[p] \notin {"idle"} \cup Ended
  /\ GoTo(p, "crashed")
  /\ late' = late \ {p}
  /\ seen' = [seen EXCEPT ![p] = {}]
  /\ UNCHANGED <<lock, stale, manifest, robbed>>

(* Time passes: a lock gets old, whether its owner lives or not.           *)
LockAges ==
  /\ lock # NoOne
  /\ stale' = TRUE
  /\ UNCHANGED <<pc, lock, late, seen, manifest, robbed>>

DeadlinePasses(p) ==
  /\ pc[p] \in {"mkdir", "stat", "rm"}
  /\ late' = late \cup {p}
  /\ UNCHANGED <<pc, lock, stale, seen, manifest, robbed>>

-----------------------------------------------------------------------------

Step(p) ==
  \/ Mkdir(p) \/ MkdirFails(p) \/ Stat(p) \/ RemoveStale(p) \/ RemoveFails(p)
  \/ Read(p) \/ Write(p) \/ Rename(p) \/ Fail(p) \/ Release(p) \/ ReleaseFails(p)

ManifestNext ==
  \/ \E p \in Processes : Begin(p) \/ Step(p) \/ Crash(p) \/ DeadlinePasses(p)
  \/ LockAges

(* Processes run and time passes.                                          *)
ManifestFairness ==
  \A p \in Processes : WF_manifestVars(Step(p)) /\ WF_manifestVars(DeadlinePasses(p))

ManifestSpec == ManifestInit /\ [][ManifestNext]_manifestVars /\ ManifestFairness

-----------------------------------------------------------------------------
(* Properties *)

Working == {p \in Processes : pc[p] \in AtWork}

(* The lock excludes: until a process at work is robbed of its lock, no    *)
(* two processes are between the mkdir() and the removal, however many     *)
(* crashed, were waiting or gave up.                                       *)
OneAtWork == robbed \/ \A p, q \in Working : p = q

(* No entry is lost: what a completed upsert wrote, and all that was there *)
(* before, stays in the manifest, as long as nobody was robbed.            *)
NothingLost == robbed \/ \A p \in Processes : pc[p] = "done" => p \in manifest

(* Every upsert ends, done, with an error or by a crash, also behind a     *)
(* lock that another process left: the lock is reclaimed "instead of       *)
(* deadlocking every future upsert" (:78), and waiting times out.  The     *)
(* code breaks it when the removal of a stale lock fails again and again:  *)
(* the error is swallowed and the deadline not looked at.                  *)
EveryUpsertEnds == \A p \in Processes : pc[p] = "mkdir" ~> pc[p] \in Ended

(* That is the only way: upserts end unless a stale lock stays for ever.   *)
UpsertsEnd == EveryUpsertEnds \/ <>[]stale

=============================================================================
