------------------------------- MODULE RateLimit -------------------------------
(***************************************************************************)
(* The fixed-window rate limiter over an expiring store: every request     *)
(* under the limit hits one counter, whose expiry is set by the hit that   *)
(* creates it.  The store may fail, before it counts or after.             *)
(***************************************************************************)
EXTENDS StoreClients

CONSTANTS
  Counter,    \* the key of the limit
  Limit,
  Window      \* windowSec

ASSUME LimitAssumption ==
  /\ Counter \in Keys
  /\ Limit \in Nat \ {0}
  /\ Window \in Ttls

VARIABLES
  failureMode,  \* RateLimitConfig.failureMode
  verdict,      \* of the hit of each request, "none" before it
  hitAt,        \* history: when the hit was counted, if it was
  resetAt       \* history: when the limit was last reset, if it was

limitVars == <<failureMode, verdict, hitAt, resetAt>>

LimitInit ==
  /\ failureMode \in {"open", "closed"}
  /\ verdict = [r \in Requests |-> "none"]
  /\ hitAt = [r \in Requests |-> {}]
  /\ resetAt = {}

Counted(r) ==
  /\ Incr(Counter, 1, {Window})
  /\ hitAt' = [hitAt EXCEPT ![r] = {now}]

(* buildResult(): allowed up to the limit, else told to wait the window.   *)
BuildResult(count) == IF count <= Limit THEN "allowed" ELSE "denied"

(* handleKVError()                                                         *)
HandleKVError == IF failureMode = "closed" THEN "unavailable" ELSE "open"

(* Mutant of Hit: every hit gives the counter its TTL anew.                *)
HitRenews(r) ==
  /\ live' = [live EXCEPT ![Counter] =
       {MakeEntry(1 + (IF @ = {} THEN 0 ELSE (CHOOSE e \in @ : TRUE).value), {Window})}]
  /\ hitAt' = [hitAt EXCEPT ![r] = {now}]
  /\ reply' = {e.value : e \in live'[Counter]}
  /\ \E count \in reply' : verdict' = [verdict EXCEPT ![r] = BuildResult(count)]
  /\ UNCHANGED <<now, failureMode, resetAt>>

(* hit(): the answer of incr() decides.                                    *)
Hit(r) ==
  /\ Counted(r)
  /\ \E count \in reply' : verdict' = [verdict EXCEPT ![r] = BuildResult(count)]
  /\ UNCHANGED <<failureMode, resetAt>>

(* incr() rejects: the store did not count the hit, or its answer is lost. *)
HitFails(r) ==
  /\ Counted(r) \/ UNCHANGED <<storeVars, hitAt>>
  /\ verdict' = [verdict EXCEPT ![r] = HandleKVError]
  /\ UNCHANGED <<failureMode, resetAt>>

(* reset()                                                                 *)
Reset ==
  /\ Del(Counter)
  /\ resetAt' = {now}
  /\ UNCHANGED <<failureMode, verdict, hitAt>>

-----------------------------------------------------------------------------
(* Properties *)

HitsSince(t, verdicts) ==
  {r \in Requests : verdict[r] \in verdicts /\ \E h \in hitAt[r] : h >= t}

LimitTypeOK ==
  /\ verdict \in [Requests -> {"none", "allowed", "denied", "open", "unavailable"}]
  /\ hitAt \in [Requests -> SUBSET Nat]
  /\ resetAt \subseteq Nat
  /\ failureMode = "open" => \A r \in Requests : verdict[r] # "unavailable"
  /\ failureMode = "closed" => \A r \in Requests : verdict[r] # "open"
=============================================================================
