------------------------------ MODULE MCRuntime ------------------------------
(* The runtime for TLC.                                                    *)
EXTENDS Runtime
=============================================================================
