------------------------------ MODULE MCServers ------------------------------
(* A runtime with one server, for TLC.                                     *)
EXTENDS Servers
=============================================================================
