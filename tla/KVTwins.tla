------------------------------- MODULE KVTwins -------------------------------
(***************************************************************************)
(* Both adaptors of the key-value store side by side: every call is made   *)
(* to each of them at the same time.  Each implements the expiring store,  *)
(* and an application cannot tell which one it has, except by a call at    *)
(* the very instant of an expiry.                                          *)
(***************************************************************************)
EXTENDS MemoryKV, RedisKV

CONSTANTS
  MaxTime,   \* bound on the time
  MaxValue   \* bound on the numbers that increments produce

ASSUME BoundsAssumption == MaxTime \in Nat /\ MaxValue \in Nat

VARIABLE edge   \* history: a key was used at the instant of its expiry

twinsVars == <<now, memoryVars, redisVars, edge>>

(* The types, with one entry to a key; and no entry outlives the longest   *)
(* TTL, counted from now.                                                  *)
Stored(entries) ==
  /\ entries \subseteq Entry
  /\ \A e, f \in entries : e = f
  /\ \A e \in entries : \A t \in e.until : \E s \in Ttls : t <= now + s

TwinsTypeOK ==
  /\ now \in 0..MaxTime
  /\ DOMAIN data = Keys /\ DOMAIN db = Keys
  /\ \A k \in Keys : Stored(data[k]) /\ Stored(db[k])
  /\ memoryReply \subseteq Nat /\ redisReply \subseteq Nat
  /\ edge \in BOOLEAN

TwinsInit ==
  /\ now = 0
  /\ MemoryInit
  /\ RedisInit
  /\ edge = FALSE

(* One call for the key k, made to both.                                   *)
Call(k, memory, redis) ==
  /\ memory
  /\ redis
  /\ edge' = (edge \/ \E e \in db[k] : now \in e.until)
  /\ UNCHANGED now

Small(k, by) == \A e \in data[k] \cup db[k] : e.value + by <= MaxValue

AnyCall(k) ==
  \/ Call(k, MemoryGet(k), RedisGet(k))
  \/ Call(k, MemoryHas(k), RedisHas(k))
  \/ Call(k, MemoryDel(k), RedisDel(k))
  \/ \E s \in Ttls : Call(k, MemoryExpire(k, s), RedisExpire(k, s))
  \/ \E v \in Values, ttl \in MaybeTtl :
       \/ Call(k, MemorySet(k, v, ttl), RedisSet(k, v, ttl))
       \/ Call(k, MemorySetnx(k, v, ttl), RedisSetnx(k, v, ttl))
       \/ Small(k, v) /\ Call(k, MemoryIncr(k, v, ttl), RedisIncr(k, v, ttl))

Tick ==
  /\ now < MaxTime
  /\ now' = now + 1
  /\ UNCHANGED <<memoryVars, redisVars, edge>>

Collect == Gc /\ UNCHANGED <<now, redisVars, edge>>

Expel == Evict /\ UNCHANGED <<now, memoryVars, edge>>

TwinsNext == (\E k \in Keys : AnyCall(k)) \/ Tick \/ Collect \/ Expel

TwinsSpec == TwinsInit /\ [][TwinsNext]_twinsVars

-----------------------------------------------------------------------------
(* Properties *)

MemoryStore ==
  INSTANCE ExpiringStore WITH live <- [k \in Keys |-> Current(k)], reply <- memoryReply

RedisStore ==
  INSTANCE ExpiringStore WITH live <- [k \in Keys |-> Present(k)], reply <- redisReply

(* Both adaptors implement the expiring store, although each keeps expired *)
(* entries for a while: none of them is read, changed or kept alive.       *)
BothImplementStore == MemoryStore!Spec /\ RedisStore!Spec

(* The adaptors answer every call alike, until a key is used at the        *)
(* instant of its expiry.                                                  *)
TwinsAgree == edge \/ memoryReply = redisReply

=============================================================================
