---------------------------- MODULE ExpiringStore ----------------------------
(***************************************************************************)
(* What an atomic key-value store promises: an entry is there until its    *)
(* TTL has run out and is gone for good after it.  At the very instant of  *)
(* its expiry it may be there or gone.                                     *)
(***************************************************************************)
EXTENDS KVTypes

VARIABLES
  live,   \* the entry of each key
  reply   \* the answer to the last call

storeVars == <<now, live, reply>>

Init ==
  /\ now = 0
  /\ live = [k \in Keys |-> {}]
  /\ reply = {}

Get(k) ==
  /\ reply' = {e.value : e \in live[k]}
  /\ UNCHANGED <<now, live>>

Has(k) ==
  /\ reply' = Answer(live[k] # {})
  /\ UNCHANGED <<now, live>>

Set(k, v, ttl) ==
  /\ live' = [live EXCEPT ![k] = {MakeEntry(v, ttl)}]
  /\ reply' = {}
  /\ UNCHANGED now

Del(k) ==
  /\ live' = [live EXCEPT ![k] = {}]
  /\ reply' = {}
  /\ UNCHANGED now

(* Only an entry that is there gets a new expiry.                          *)
Expire(k, s) ==
  /\ live' = [live EXCEPT ![k] = {Renewed(e, s) : e \in @}]
  /\ reply' = Answer(live[k] # {})
  /\ UNCHANGED now

(* The expiry is that of the increment which created the entry.            *)
Incr(k, by, ttl) ==
  /\ live' = [live EXCEPT ![k] = IF @ = {} THEN {MakeEntry(by, ttl)}
                                 ELSE {Increased(e, by) : e \in @}]
  /\ reply' = {e.value : e \in live'[k]}
  /\ UNCHANGED now

Setnx(k, v, ttl) ==
  /\ live' = [live EXCEPT ![k] = IF @ = {} THEN {MakeEntry(v, ttl)} ELSE @]
  /\ reply' = Answer(live[k] = {})
  /\ UNCHANGED now

(* Time passes: what expired before now is gone, what expires now may be.  *)
Tick ==
  /\ now' = now + 1
  /\ \E gone \in SUBSET Keys :
       /\ \A k \in gone : \E e \in live[k] : \E t \in e.until : t <= now'
       /\ \A k \in Keys \ gone : \A e \in live[k] : \A t \in e.until : t >= now'
       /\ live' = [k \in Keys |-> IF k \in gone THEN {} ELSE live[k]]
  /\ UNCHANGED reply

Next ==
  \/ \E k \in Keys :
       \/ Get(k) \/ Has(k) \/ Del(k)
       \/ \E s \in Ttls : Expire(k, s)
       \/ \E v \in Values, ttl \in MaybeTtl :
            Set(k, v, ttl) \/ Setnx(k, v, ttl) \/ Incr(k, v, ttl)
  \/ Tick

Spec == Init /\ [][Next]_storeVars

=============================================================================
