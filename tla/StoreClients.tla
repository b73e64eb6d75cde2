------------------------------ MODULE StoreClients ------------------------------
(* An expiring store, and the requests which use it.                       *)
EXTENDS ExpiringStore

CONSTANT Requests
=============================================================================
