------------------------------- MODULE MCKernel -------------------------------
(* The lifecycle manager and the task runner, for TLC.  They have no state *)
(* in common: an execution has one of them.                                *)
EXTENDS LifecycleManager, TaskRunner

KernelInit == LifecycleInit /\ TaskInit

(* The one choice that the initial states leave does not matter then.      *)
WithoutTasks == TaskInit /\ mode = "async"

KernelNext ==
  \/ Next /\ WithoutTasks /\ UNCHANGED taskVars
  \/ TaskNext /\ LifecycleInit /\ UNCHANGED lifecycleVars

kernelVars == <<lifecycleVars, taskVars>>

KernelSpec == KernelInit /\ [][KernelNext]_kernelVars /\ LifecycleFairness /\ TaskFairness
===============================================================================
