------------------------------- MODULE RedisKV -------------------------------
(***************************************************************************)
(* The Redis adaptor: each call is one command or one script, which the    *)
(* server runs in one step.  The server is external; a key is there until  *)
(* its expiry has passed, and is removed at any time after that.           *)
(***************************************************************************)
EXTENDS KVTypes

VARIABLES
  db,           \* the server's keys, with the expired ones it has not removed
  redisReply

redisVars == <<db, redisReply>>

RedisInit == db = [k \in Keys |-> {}] /\ redisReply = {}

-----------------------------------------------------------------------------
(* The server *)

Present(k) == {e \in db[k] : \A t \in e.until : t >= now}

Command(k, entries, answer) ==
  /\ db' = [db EXCEPT ![k] = entries]
  /\ redisReply' = answer

(* SET ... NX on what is there.                                            *)
SetNX(entries, v, ttl) == IF entries = {} THEN {MakeEntry(v, ttl)} ELSE entries

(* INCRBY creates a persistent key.                                        *)
IncrBy(entries, by) ==
  IF entries = {} THEN {MakeEntry(by, {})} ELSE {Increased(e, by) : e \in entries}

(* The server removes what has expired.                                    *)
Evict ==
  /\ db' = [k \in Keys |-> Present(k)]
  /\ UNCHANGED redisReply

-----------------------------------------------------------------------------
(* The adaptor *)

RedisGet(k) == Command(k, Present(k), {e.value : e \in Present(k)})

RedisHas(k) == Command(k, Present(k), Answer(Present(k) # {}))

RedisSet(k, v, ttl) == Command(k, {MakeEntry(v, ttl)}, {})

RedisDel(k) == Command(k, {}, {})

RedisExpire(k, s) == Command(k, {Renewed(e, s) : e \in Present(k)}, Answer(Present(k) # {}))

(* Mutant of Seeded: every increment with a TTL renews it.                 *)
SeededAgain(k, ttl) ==
  IF ttl = {} THEN Present(k)
  ELSE {[e EXCEPT !.until = {now + s : s \in ttl}] : e \in SetNX(Present(k), 0, ttl)}

(* The script, first part: a TTL is given to a key that it creates.        *)
Seeded(k, ttl) == IF ttl = {} THEN Present(k) ELSE SetNX(Present(k), 0, ttl)

(* incr(): the script INCR_WITH_TTL_LUA.                                   *)
RedisIncr(k, by, ttl) ==
  LET next == IncrBy(Seeded(k, ttl), by)
  IN  Command(k, next, {e.value : e \in next})

RedisSetnx(k, v, ttl) == Command(k, SetNX(Present(k), v, ttl), Answer(Present(k) = {}))

=============================================================================
