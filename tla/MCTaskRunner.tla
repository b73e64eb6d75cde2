---------------------------- MODULE MCTaskRunner ----------------------------
(* Tasks and after-response work for TLC.                                  *)
EXTENDS TaskRunner
=============================================================================
