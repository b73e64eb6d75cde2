---------------------------------- MODULE Web ----------------------------------
(***************************************************************************)
(* Requests to the routes of one application, some under the rate limiter, *)
(* some below SessionMiddleware, over one key-value store.                 *)
(***************************************************************************)
EXTENDS Sessions, RateLimit, Integers, FiniteSets

CONSTANT MaxTime   \* bound on the time

ASSUME TimeAssumption == MaxTime \in Nat

vars == <<storeVars, sessionVars, limitVars>>

WebInit == Init /\ SessionsInit /\ LimitInit

(* A bound: an execution has requests to the limited routes,               *)
UnderLimit(r) ==
  /\ pc = [q \in Requests |-> "new"] /\ verdict[r] = "none"
  /\ Hit(r) \/ HitFails(r)
  /\ UNCHANGED sessionVars

(* or to those below the session middleware.                               *)
InSession(r) ==
  /\ failureMode = "open" /\ verdict = [q \in Requests |-> "none"] /\ resetAt = {}
  /\ \/ Send(r) \/ Load(r) \/ Change(r) \/ DestroySession(r) \/ Leave(r)
     \/ Save(r) \/ Delete(r) \/ StoreFails(r) \/ Receive(r)
  /\ UNCHANGED limitVars

(* The application resets the limit.                                       *)
ResetLimit ==
  /\ pc = [q \in Requests |-> "new"]
  /\ Reset
  /\ UNCHANGED sessionVars

TimePasses == now < MaxTime /\ Tick /\ UNCHANGED <<sessionVars, limitVars>>

WebNext ==
  \/ \E r \in Requests : UnderLimit(r) \/ InSession(r)
  \/ ResetLimit
  \/ TimePasses

WebSpec == WebInit /\ [][WebNext]_vars

-----------------------------------------------------------------------------
(* Properties *)

WebTypeOK == now \in 0..MaxTime /\ SessionTypeOK /\ LimitTypeOK

(* Sessions outlive the requests that saved them and none is revived,      *)
(* except by requests that overlap.                                        *)
SessionsKept == SavedIsKept /\ DestroyedIsGone

LetThrough == {"allowed", "open", "unavailable"}

(* In the window of a counter that nobody reset no more requests than the  *)
(* limit are let through.  Nobody is turned away unless as many were let through, or     *)
(* lost their answer, in the last window; and once he has waited as told,  *)
(* for a whole window, the counter that will judge him holds only hits     *)
(* that were made after his.                                               *)
LimitHolds ==
  /\ resetAt = {} =>
       \A counter \in live[Counter] : \A u \in counter.until :
         Cardinality(HitsSince(u - Window, {"allowed"})) <= Limit
  /\ \A r \in Requests : verdict[r] = "denied" =>
       \A t \in hitAt[r] :
         /\ Cardinality(HitsSince(t - Window, LetThrough)) >= Limit
         /\ now > t + Window => \A counter \in live[Counter] :
              counter.value <= Cardinality(HitsSince(t + 1, LetThrough \cup {"denied"}))
=============================================================================
