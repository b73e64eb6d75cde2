------------------------------ MODULE MCEventBus ------------------------------
(* The event bus alone, for TLC.                                           *)
EXTENDS RedisEventBus
=============================================================================
