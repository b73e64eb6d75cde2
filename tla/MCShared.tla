------------------------------- MODULE MCShared -------------------------------
(* What processes share, for TLC: the key-value store, the event bus and   *)
(* the manifest.  They have no state in common: an execution has one.      *)
EXTENDS KVTwins, RedisEventBus, ManifestLock

SharedInit == TwinsInit /\ BusInit /\ ManifestInit

(* The one choice that the initial states leave does not matter then.      *)
WithoutBus == BusInit /\ channel = [c \in Calls |-> CHOOSE ch \in Channels : TRUE]

SharedNext ==
  \/ TwinsNext /\ WithoutBus /\ ManifestInit /\ UNCHANGED <<busVars, manifestVars>>
  \/ BusNext /\ TwinsInit /\ ManifestInit /\ UNCHANGED <<twinsVars, manifestVars>>
  \/ ManifestNext /\ TwinsInit /\ WithoutBus /\ UNCHANGED <<twinsVars, busVars>>

sharedVars == <<twinsVars, busVars, manifestVars>>

SharedSpec == SharedInit /\ [][SharedNext]_sharedVars /\ BusFairness /\ ManifestFairness
===============================================================================
