------------------------------- MODULE Servers -------------------------------
(***************************************************************************)
(* The listener of an HTTP server as it is owned by the runtime: listen()  *)
(* registers a before callback, then binds the socket, which takes its     *)
(* time and may fail; the callback waits for the outcome, closes the       *)
(* socket and waits for the requests that are being served.  The handle    *)
(* that listen() returns runs the same callback, once.                     *)
(***************************************************************************)
EXTENDS Runtime

CONSTANT Listen   \* the registration that listen() makes

ASSUME ListenAssumption == Listen \in Callbacks

VARIABLE server   \* "none", "binding", "listening", "failed", "closing" or "closed"

servedVars == <<vars, server>>

ServersInit == RuntimeInit /\ server = "none"

(* listen(), called on a capability that is published: the callback is     *)
(* registered before the socket is opened.                                 *)
CallListen ==
  /\ registry = "ready"
  /\ RegisterShutdown(Listen, "before")
  /\ server' = "binding"

(* The outcome of the bind, which settles serverReady and so ready.        *)
Bound ==
  /\ server = "binding"
  /\ server' \in {"listening", "failed"}
  /\ UNCHANGED vars

(* Who called listen() has the handle, and calls it or not;                *)
CallHandle == server = "listening" /\ RunHandle(Listen) /\ UNCHANGED server

(* the catch of listen() calls it.                                         *)
BindFailed == server = "failed" /\ RunHandle(Listen) /\ UNCHANGED server

(* The callback goes on once ready is known, and closes what listens: no   *)
(* more connections.                                                       *)
CloseServer ==
  /\ cb[Listen] \in {"inBefore", "alone"}
  /\ server = "listening"
  /\ server' = "closing"
  /\ UNCHANGED vars

(* The last connection has ended.                                          *)
Closed ==
  /\ server = "closing"
  /\ server' = "closed"
  /\ UNCHANGED vars

(* Mutant of CallbackEnds: ready is not awaited.                           *)
CallbackEndsUnready == server # "closing" /\ CallbackSettled(Listen) /\ UNCHANGED server

CallbackEnds == server \in {"failed", "closed"} /\ CallbackSettled(Listen) /\ UNCHANGED server

(* The runtime does the rest, and may call the callback with the others.   *)
RuntimeStep ==
  /\ RuntimeNext
  /\ cb'[Listen] \in {cb[Listen], "inBefore"}
  /\ UNCHANGED server

ServerStep == Bound \/ BindFailed \/ CloseServer \/ Closed \/ CallbackEnds

ServersNext == RuntimeStep \/ CallListen \/ CallHandle \/ ServerStep

(* Promise reactions run; hooks, callbacks and realization settle; a hook  *)
(* does not await one refused shutdown after the other for ever; a socket  *)
(* is bound or is not; connections end.                                    *)
ServersFairness ==
  /\ WF_servedVars(ServerStep)
  /\ WF_servedVars(RuntimeStep /\ CreateRuntime)
  /\ WF_servedVars(RuntimeStep /\ RunShutdown)
  /\ \A k \in Callbacks \ {Listen} : WF_servedVars(CallbackSettled(k) /\ UNCHANGED server)
  /\ \A c \in Callers : WF_servedVars(Resume(c) /\ UNCHANGED <<runtimeVars, server>>)
  /\ SF_servedVars(StartupHook /\ UNCHANGED <<runtimeVars, server>>)
  /\ WF_servedVars(BatchFinally /\ UNCHANGED <<runtimeVars, server>>)
  /\ \A p \in Stoppers : WF_servedVars(StopHookSettled(p) /\ UNCHANGED <<runtimeVars, server>>)

ServersSpec == ServersInit /\ [][ServersNext]_servedVars /\ ServersFairness

-----------------------------------------------------------------------------
(* Properties *)

ServersTypeOK ==
  /\ RuntimeTypeOK
  /\ server \in {"none", "binding", "listening", "failed", "closing", "closed"}
  /\ server = "none" <=> cb[Listen] = "none"

(* No service is stopped under a request that is being served: by then the *)
(* server is closed or was never bound, unless it is its owner that closes *)
(* it, which no shutdown waits for.                                        *)
ServersClosedFirst ==
  shutdownPc # "none" => server \in {"none", "failed", "closed"} \/ cb[Listen] = "alone"

(* The phases of a shutdown follow each other: servers and the other       *)
(* before callbacks, services, after callbacks.                            *)
ShutdownInOrder == PhasesInOrder /\ ServersClosedFirst
=============================================================================
