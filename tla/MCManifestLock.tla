---------------------------- MODULE MCManifestLock ----------------------------
(* The manifest and its lock alone, for TLC.                               *)
EXTENDS ManifestLock
=============================================================================
