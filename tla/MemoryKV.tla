------------------------------- MODULE MemoryKV -------------------------------
(***************************************************************************)
(* The memory adaptor: a Map whose expired entries stay until a call for   *)
(* the key, or the collection every minute, removes them.                  *)
(***************************************************************************)
EXTENDS KVTypes

VARIABLES
  data,         \* the Map, with its expired entries
  memoryReply

memoryVars == <<data, memoryReply>>

MemoryInit == data = [k \in Keys |-> {}] /\ memoryReply = {}

(* current(): the entry of the key unless it has expired.                  *)
Current(k) == {e \in data[k] : \A t \in e.until : t > now}

(* A call that leaves `entries` and answers `answer`.                      *)
Does(k, entries, answer) ==
  /\ data' = [data EXCEPT ![k] = entries]
  /\ memoryReply' = answer

MemoryGet(k) == Does(k, Current(k), {e.value : e \in Current(k)})

MemoryHas(k) == Does(k, Current(k), Answer(Current(k) # {}))

MemorySet(k, v, ttl) == Does(k, {MakeEntry(v, ttl)}, {})

MemoryDel(k) == Does(k, {}, {})

(* Mutants of MemoryExpire: the TTL is added to what is left, or an        *)
(* expired entry that was not collected yet is kept.                       *)
MemoryExpireAdds(k, s) ==
  Does(k, {[e EXCEPT !.until = {t + s : t \in @}] : e \in Current(k)}, Answer(Current(k) # {}))

MemoryExpireRevives(k, s) == Does(k, {Renewed(e, s) : e \in data[k]}, Answer(data[k] # {}))

MemoryExpire(k, s) == Does(k, {Renewed(e, s) : e \in Current(k)}, Answer(Current(k) # {}))

MemoryIncr(k, by, ttl) ==
  LET next == IF Current(k) = {} THEN {MakeEntry(by, ttl)}
              ELSE {Increased(e, by) : e \in Current(k)}
  IN  Does(k, next, {e.value : e \in next})

MemorySetnx(k, v, ttl) ==
  Does(k, IF Current(k) = {} THEN {MakeEntry(v, ttl)} ELSE Current(k), Answer(Current(k) = {}))

(* gc()                                                                    *)
Gc ==
  /\ data' = [k \in Keys |-> Current(k)]
  /\ UNCHANGED memoryReply

=============================================================================
