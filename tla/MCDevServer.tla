------------------------------ MODULE MCDevServer ------------------------------
(* The start, two restarts and a build, for TLC.                           *)
EXTENDS DevServer
=============================================================================
