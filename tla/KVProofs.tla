------------------------------- MODULE KVProofs -------------------------------
(***************************************************************************)
(* Proofs about the key-value stores, for any keys, values, TTLs and       *)
(* bounds: both adaptors implement the expiring store, and they answer     *)
(* alike until a key is used at the instant of its expiry.                 *)
(***************************************************************************)
EXTENDS KVTwins, TLAPS

(* The types without the Boolean `edge`, which the proofs treat apart.     *)
MemoryTyped ==
  /\ data \in [Keys -> SUBSET Entry]
  /\ \A k \in Keys : Stored(data[k])
  /\ memoryReply \subseteq Nat

RedisTyped ==
  /\ db \in [Keys -> SUBSET Entry]
  /\ \A k \in Keys : Stored(db[k])
  /\ redisReply \subseteq Nat

Typed ==
  /\ now \in Nat
  /\ now <= MaxTime
  /\ MemoryTyped
  /\ RedisTyped

(* The entries of a key that have not expired even at this instant: of     *)
(* those both adaptors must have the same.                                 *)
Certain(k) == {e \in db[k] : \A t \in e.until : t > now}

AgreeInv ==
  edge \/ (memoryReply = redisReply /\ \A k \in Keys : Current(k) = Certain(k))

-----------------------------------------------------------------------------
(* Entries *)

(* A new entry is an entry, and expires after now but not beyond its TTL.  *)
LEMMA MakeEntryStored ==
  ASSUME now \in Nat, NEW v \in Nat, NEW ttl \in MaybeTtl
  PROVE  /\ MakeEntry(v, ttl) \in Entry
         /\ \A t \in MakeEntry(v, ttl).until : t > now
         /\ \A t \in MakeEntry(v, ttl).until : \E s \in Ttls : t <= now + s
<1>1. ttl \subseteq Ttls /\ Ttls \subseteq Nat \ {0}
  BY KVAssumption DEF MaybeTtl
<1>2. {now + s : s \in ttl} \in SUBSET Nat
  BY <1>1
<1>3. MakeEntry(v, ttl).until = {now + s : s \in ttl}
  BY DEF MakeEntry
<1>4. MakeEntry(v, ttl) \in Entry
  BY <1>2 DEF MakeEntry, Entry
<1>5. \A t \in {now + s : s \in ttl} : t > now
  BY <1>1
<1>6. \A t \in {now + s : s \in ttl} : \E s \in Ttls : t <= now + s
  BY <1>1
<1>7. QED
  BY <1>3, <1>4, <1>5, <1>6

(* So is an entry that gets a new expiry.                                  *)
LEMMA RenewedStored ==
  ASSUME now \in Nat, NEW e \in Entry, NEW s \in Ttls
  PROVE  /\ Renewed(e, s) \in Entry
         /\ \A t \in Renewed(e, s).until : t > now
         /\ \A t \in Renewed(e, s).until : \E r \in Ttls : t <= now + r
<1>1. s \in Nat /\ s > 0
  BY KVAssumption
<1>2. Renewed(e, s).until = {now + s}
  BY DEF Renewed
<1>3. e.value \in Nat /\ {now + s} \in SUBSET Nat
  BY <1>1 DEF Entry
<1>4. Renewed(e, s) \in Entry
  BY <1>3 DEF Renewed, Entry
<1>5. QED
  BY <1>1, <1>2, <1>4

(* An increment changes the number and leaves the expiry.                  *)
LEMMA IncreasedStored ==
  ASSUME NEW e \in Entry, NEW by \in Nat
  PROVE  Increased(e, by) \in Entry /\ Increased(e, by).until = e.until
<1>1. e.value + by \in Nat /\ e.until \in SUBSET Nat
  BY DEF Entry
<1>2. QED
  BY <1>1 DEF Increased, Entry

(* None of the entries has expired: for good, or until now at least.       *)
Alive(entries) == \A e \in entries : \A t \in e.until : t > now

NotOver(entries) == \A e \in entries : \A t \in e.until : t >= now

LEMMA NoEntries == Stored({}) /\ Alive({}) /\ NotOver({})
  BY DEF Stored, Alive, NotOver

LEMMA AliveNotOver ==
  ASSUME now \in Nat, NEW entries, Stored(entries), Alive(entries)
  PROVE  NotOver(entries)
  BY DEF Stored, Alive, NotOver, Entry

LEMMA NewEntries ==
  ASSUME now \in Nat, NEW v \in Nat, NEW ttl \in MaybeTtl
  PROVE  /\ Stored({MakeEntry(v, ttl)})
         /\ Alive({MakeEntry(v, ttl)})
         /\ NotOver({MakeEntry(v, ttl)})
<1> DEFINE m == MakeEntry(v, ttl)
<1>1. /\ m \in Entry
      /\ \A t \in m.until : t > now
      /\ \A t \in m.until : \E s \in Ttls : t <= now + s
  BY MakeEntryStored
<1> HIDE DEF m
<1>2. Stored({m}) /\ Alive({m})
  BY <1>1 DEF Stored, Alive
<1>3. QED
  BY <1>2, AliveNotOver DEF m

LEMMA RenewedEntries ==
  ASSUME now \in Nat, NEW entries, Stored(entries), NEW s \in Ttls
  PROVE  /\ Stored({Renewed(e, s) : e \in entries})
         /\ Alive({Renewed(e, s) : e \in entries})
         /\ NotOver({Renewed(e, s) : e \in entries})
<1>1. entries \subseteq Entry /\ \A e, f \in entries : e = f
  BY DEF Stored
<1>2. \A e \in entries : /\ Renewed(e, s) \in Entry
                         /\ \A t \in Renewed(e, s).until : t > now
                         /\ \A t \in Renewed(e, s).until : \E r \in Ttls : t <= now + r
  BY <1>1, RenewedStored
<1>3. Stored({Renewed(e, s) : e \in entries}) /\ Alive({Renewed(e, s) : e \in entries})
  BY <1>1, <1>2 DEF Stored, Alive
<1>4. QED
  BY <1>3, AliveNotOver

LEMMA IncreasedEntries ==
  ASSUME NEW entries, Stored(entries), NEW by \in Nat
  PROVE  /\ Stored({Increased(e, by) : e \in entries})
         /\ Alive(entries) => Alive({Increased(e, by) : e \in entries})
         /\ NotOver(entries) => NotOver({Increased(e, by) : e \in entries})
<1>1. /\ entries \subseteq Entry
      /\ \A e, f \in entries : e = f
      /\ \A e \in entries : \A t \in e.until : \E s \in Ttls : t <= now + s
  BY DEF Stored
<1>2. \A e \in entries : Increased(e, by) \in Entry /\ Increased(e, by).until = e.until
  BY <1>1, IncreasedStored
<1>3. QED
  BY <1>1, <1>2 DEF Stored, Alive, NotOver

(* The script creates a key as the Map does: an entry of 0 with the TTL,   *)
(* increased at once, is the entry of the increment.                       *)
LEMMA SeededIncrement ==
  ASSUME NEW k, NEW by \in Nat, NEW ttl \in MaybeTtl
  PROVE  IncrBy(Seeded(k, ttl), by)
           = IF Present(k) = {} THEN {MakeEntry(by, ttl)}
             ELSE {Increased(e, by) : e \in Present(k)}
<1>1. CASE Present(k) # {}
  BY <1>1 DEF IncrBy, Seeded, SetNX
<1>2. CASE Present(k) = {} /\ ttl = {}
  BY <1>2 DEF IncrBy, Seeded
<1>3. CASE Present(k) = {} /\ ttl # {}
  <2>1. Seeded(k, ttl) = {MakeEntry(0, ttl)}
    BY <1>3 DEF Seeded, SetNX
  <2>2. Increased(MakeEntry(0, ttl), by) = MakeEntry(by, ttl)
    BY DEF Increased, MakeEntry
  <2>3. QED
    BY <1>3, <2>1, <2>2 DEF IncrBy
<1>4. QED
  BY <1>1, <1>2, <1>3

-----------------------------------------------------------------------------
(* Calls *)

(* A call for k leaves these entries of k, what was there of the others,   *)
(* and the types.                                                          *)
MemoryLeaves(k, entries, answer) ==
  /\ MemoryTyped'
  /\ memoryReply' = answer
  /\ Current(k)' = entries
  /\ \A j \in Keys \ {k} : Current(j)' = Current(j)
  /\ [j \in Keys |-> Current(j)]' = [[j \in Keys |-> Current(j)] EXCEPT ![k] = entries]

RedisLeaves(k, entries, answer) ==
  /\ RedisTyped'
  /\ redisReply' = answer
  /\ Present(k)' = entries
  /\ \A j \in Keys \ {k} : Present(j)' = Present(j)
  /\ [j \in Keys |-> Present(j)]' = [[j \in Keys |-> Present(j)] EXCEPT ![k] = entries]

(* They do if what they write has not expired.                             *)
LEMMA MemoryCall ==
  ASSUME Typed, NEW k \in Keys, NEW entries, NEW answer,
         Stored(entries), Alive(entries), answer \subseteq Nat,
         Does(k, entries, answer), now' = now
  PROVE  MemoryLeaves(k, entries, answer)
<1>1. data \in [Keys -> SUBSET Entry] /\ entries \subseteq Entry
  BY DEF Typed, MemoryTyped, Stored
<1>2. data' = [data EXCEPT ![k] = entries] /\ memoryReply' = answer
  BY DEF Does
<1>3. data' \in [Keys -> SUBSET Entry]
  BY <1>1, <1>2
<1>4. data'[k] = entries /\ \A j \in Keys \ {k} : data'[j] = data[j]
  BY <1>1, <1>2
<1>5. \A j \in Keys : Stored(data[j])'
  BY <1>4 DEF Typed, MemoryTyped, Stored
<1>6. Current(k)' = entries
  BY <1>4 DEF Current, Alive
<1>7. \A j \in Keys \ {k} : Current(j)' = Current(j)
  BY <1>4 DEF Current
<1>8. [j \in Keys |-> Current(j)]' = [[j \in Keys |-> Current(j)] EXCEPT ![k] = entries]
  BY <1>6, <1>7
<1>9. QED
  BY <1>2, <1>3, <1>5, <1>6, <1>7, <1>8 DEF MemoryTyped, MemoryLeaves

LEMMA RedisCall ==
  ASSUME Typed, NEW k \in Keys, NEW entries, NEW answer,
         Stored(entries), NotOver(entries), answer \subseteq Nat,
         Command(k, entries, answer), now' = now
  PROVE  RedisLeaves(k, entries, answer)
<1>1. db \in [Keys -> SUBSET Entry] /\ entries \subseteq Entry
  BY DEF Typed, RedisTyped, Stored
<1>2. db' = [db EXCEPT ![k] = entries] /\ redisReply' = answer
  BY DEF Command
<1>3. db' \in [Keys -> SUBSET Entry]
  BY <1>1, <1>2
<1>4. db'[k] = entries /\ \A j \in Keys \ {k} : db'[j] = db[j]
  BY <1>1, <1>2
<1>5. \A j \in Keys : Stored(db[j])'
  BY <1>4 DEF Typed, RedisTyped, Stored
<1>6. Present(k)' = entries
  BY <1>4 DEF Present, NotOver
<1>7. \A j \in Keys \ {k} : Present(j)' = Present(j)
  BY <1>4 DEF Present
<1>8. [j \in Keys |-> Present(j)]' = [[j \in Keys |-> Present(j)] EXCEPT ![k] = entries]
  BY <1>6, <1>7
<1>9. QED
  BY <1>2, <1>3, <1>5, <1>6, <1>7, <1>8 DEF RedisTyped, RedisLeaves

(* What is there of a key, and what it is answered with.                   *)
LEMMA StoredNow ==
  ASSUME Typed, NEW k \in Keys
  PROVE  /\ Stored(Current(k)) /\ Alive(Current(k))
         /\ Stored(Present(k)) /\ NotOver(Present(k))
  BY DEF Typed, MemoryTyped, RedisTyped, Stored, Alive, NotOver, Current, Present

LEMMA Answers ==
  /\ \A entries : Stored(entries) => {e.value : e \in entries} \subseteq Nat
  /\ \A yes \in BOOLEAN : Answer(yes) \subseteq Nat
<1>1. ASSUME NEW entries, Stored(entries)
      PROVE  {e.value : e \in entries} \subseteq Nat
  BY <1>1 DEF Stored, Entry
<1>2. \A yes \in BOOLEAN : Answer(yes) \subseteq Nat
  BY DEF Answer
<1>3. QED
  BY <1>1, <1>2

(* What a call for k does to the entries that are there: the other keys    *)
(* keep theirs, and adaptors that have the same for k answer alike and     *)
(* still have the same.                                                    *)
Alike(k) ==
  /\ \A j \in Keys \ {k} : Current(j)' = Current(j) /\ Present(j)' = Present(j)
  /\ Current(k) = Present(k) =>
       memoryReply' = redisReply' /\ Current(k)' = Present(k)'

(* One call to both adaptors: each implements that of the store, and as    *)
(* both derive what they leave and answer from what is there in the same   *)
(* way, they stay alike.                                                   *)
LEMMA GetCalls ==
  ASSUME Typed, NEW k \in Keys, now' = now
  PROVE  /\ MemoryGet(k) => MemoryStore!Get(k) /\ MemoryTyped'
         /\ RedisGet(k) => RedisStore!Get(k) /\ RedisTyped'
         /\ MemoryGet(k) /\ RedisGet(k) => Alike(k)
<1> DEFINE next(E) == E
           answer(E) == {e.value : e \in E}
<1>1. ASSUME NEW E, Stored(E)
      PROVE  /\ Stored(next(E))
             /\ Alive(E) => Alive(next(E))
             /\ NotOver(E) => NotOver(next(E))
  BY <1>1 DEF Typed
<1>2. ASSUME NEW E, Stored(E)
      PROVE  answer(E) \subseteq Nat
  BY <1>1, <1>2, Answers
<1>3. MemoryGet(k) => Does(k, next(Current(k)), answer(Current(k)))
  BY DEF MemoryGet
<1>4. RedisGet(k) => Command(k, next(Present(k)), answer(Present(k)))
  BY DEF RedisGet
<1>5. MemoryLeaves(k, next(Current(k)), answer(Current(k))) => MemoryStore!Get(k)
  BY DEF MemoryLeaves, MemoryStore!Get
<1>6. RedisLeaves(k, next(Present(k)), answer(Present(k))) => RedisStore!Get(k)
  BY DEF RedisLeaves, RedisStore!Get
<1> HIDE DEF next, answer
<1>7. MemoryGet(k) => MemoryLeaves(k, next(Current(k)), answer(Current(k)))
  BY <1>1, <1>2, <1>3, StoredNow, MemoryCall
<1>8. RedisGet(k) => RedisLeaves(k, next(Present(k)), answer(Present(k)))
  BY <1>1, <1>2, <1>4, StoredNow, RedisCall
<1>9. QED
  BY <1>5, <1>6, <1>7, <1>8 DEF MemoryLeaves, RedisLeaves, Alike

LEMMA HasCalls ==
  ASSUME Typed, NEW k \in Keys, now' = now
  PROVE  /\ MemoryHas(k) => MemoryStore!Has(k) /\ MemoryTyped'
         /\ RedisHas(k) => RedisStore!Has(k) /\ RedisTyped'
         /\ MemoryHas(k) /\ RedisHas(k) => Alike(k)
<1> DEFINE next(E) == E
           answer(E) == Answer(E # {})
<1>1. ASSUME NEW E, Stored(E)
      PROVE  /\ Stored(next(E))
             /\ Alive(E) => Alive(next(E))
             /\ NotOver(E) => NotOver(next(E))
  BY <1>1 DEF Typed
<1>2. ASSUME NEW E, Stored(E)
      PROVE  answer(E) \subseteq Nat
  BY <1>1, <1>2, Answers
<1>3. MemoryHas(k) => Does(k, next(Current(k)), answer(Current(k)))
  BY DEF MemoryHas
<1>4. RedisHas(k) => Command(k, next(Present(k)), answer(Present(k)))
  BY DEF RedisHas
<1>5. MemoryLeaves(k, next(Current(k)), answer(Current(k))) => MemoryStore!Has(k)
  BY DEF MemoryLeaves, MemoryStore!Has, MemoryStore!Answer, Answer
<1>6. RedisLeaves(k, next(Present(k)), answer(Present(k))) => RedisStore!Has(k)
  BY DEF RedisLeaves, RedisStore!Has, RedisStore!Answer, Answer
<1> HIDE DEF next, answer
<1>7. MemoryHas(k) => MemoryLeaves(k, next(Current(k)), answer(Current(k)))
  BY <1>1, <1>2, <1>3, StoredNow, MemoryCall
<1>8. RedisHas(k) => RedisLeaves(k, next(Present(k)), answer(Present(k)))
  BY <1>1, <1>2, <1>4, StoredNow, RedisCall
<1>9. QED
  BY <1>5, <1>6, <1>7, <1>8 DEF MemoryLeaves, RedisLeaves, Alike

LEMMA DelCalls ==
  ASSUME Typed, NEW k \in Keys, now' = now
  PROVE  /\ MemoryDel(k) => MemoryStore!Del(k) /\ MemoryTyped'
         /\ RedisDel(k) => RedisStore!Del(k) /\ RedisTyped'
         /\ MemoryDel(k) /\ RedisDel(k) => Alike(k)
<1> DEFINE next(E) == {}
           answer(E) == {}
<1>1. ASSUME NEW E, Stored(E)
      PROVE  /\ Stored(next(E))
             /\ Alive(E) => Alive(next(E))
             /\ NotOver(E) => NotOver(next(E))
  BY <1>1, NoEntries DEF Typed
<1>2. ASSUME NEW E, Stored(E)
      PROVE  answer(E) \subseteq Nat
  BY <1>1, <1>2, Answers
<1>3. MemoryDel(k) => Does(k, next(Current(k)), answer(Current(k)))
  BY DEF MemoryDel
<1>4. RedisDel(k) => Command(k, next(Present(k)), answer(Present(k)))
  BY DEF RedisDel
<1>5. MemoryLeaves(k, next(Current(k)), answer(Current(k))) => MemoryStore!Del(k)
  BY DEF MemoryLeaves, MemoryStore!Del
<1>6. RedisLeaves(k, next(Present(k)), answer(Present(k))) => RedisStore!Del(k)
  BY DEF RedisLeaves, RedisStore!Del
<1> HIDE DEF next, answer
<1>7. MemoryDel(k) => MemoryLeaves(k, next(Current(k)), answer(Current(k)))
  BY <1>1, <1>2, <1>3, StoredNow, MemoryCall
<1>8. RedisDel(k) => RedisLeaves(k, next(Present(k)), answer(Present(k)))
  BY <1>1, <1>2, <1>4, StoredNow, RedisCall
<1>9. QED
  BY <1>5, <1>6, <1>7, <1>8 DEF MemoryLeaves, RedisLeaves, Alike

LEMMA ExpireCalls ==
  ASSUME Typed, NEW k \in Keys, now' = now, NEW s \in Ttls
  PROVE  /\ MemoryExpire(k, s) => MemoryStore!Expire(k, s) /\ MemoryTyped'
         /\ RedisExpire(k, s) => RedisStore!Expire(k, s) /\ RedisTyped'
         /\ MemoryExpire(k, s) /\ RedisExpire(k, s) => Alike(k)
<1> DEFINE next(E) == {Renewed(e, s) : e \in E}
           answer(E) == Answer(E # {})
<1>1. ASSUME NEW E, Stored(E)
      PROVE  /\ Stored(next(E))
             /\ Alive(E) => Alive(next(E))
             /\ NotOver(E) => NotOver(next(E))
  BY <1>1, RenewedEntries DEF Typed
<1>2. ASSUME NEW E, Stored(E)
      PROVE  answer(E) \subseteq Nat
  BY <1>1, <1>2, Answers
<1>3. MemoryExpire(k, s) => Does(k, next(Current(k)), answer(Current(k)))
  BY DEF MemoryExpire
<1>4. RedisExpire(k, s) => Command(k, next(Present(k)), answer(Present(k)))
  BY DEF RedisExpire
<1>5. MemoryLeaves(k, next(Current(k)), answer(Current(k))) => MemoryStore!Expire(k, s)
  BY DEF MemoryLeaves, MemoryStore!Expire, MemoryStore!Renewed, Renewed, MemoryStore!Answer, Answer
<1>6. RedisLeaves(k, next(Present(k)), answer(Present(k))) => RedisStore!Expire(k, s)
  BY DEF RedisLeaves, RedisStore!Expire, RedisStore!Renewed, Renewed, RedisStore!Answer, Answer
<1> HIDE DEF next, answer
<1>7. MemoryExpire(k, s) => MemoryLeaves(k, next(Current(k)), answer(Current(k)))
  BY <1>1, <1>2, <1>3, StoredNow, MemoryCall
<1>8. RedisExpire(k, s) => RedisLeaves(k, next(Present(k)), answer(Present(k)))
  BY <1>1, <1>2, <1>4, StoredNow, RedisCall
<1>9. QED
  BY <1>5, <1>6, <1>7, <1>8 DEF MemoryLeaves, RedisLeaves, Alike

LEMMA SetCalls ==
  ASSUME Typed, NEW k \in Keys, now' = now, NEW v \in Values, NEW ttl \in MaybeTtl
  PROVE  /\ MemorySet(k, v, ttl) => MemoryStore!Set(k, v, ttl) /\ MemoryTyped'
         /\ RedisSet(k, v, ttl) => RedisStore!Set(k, v, ttl) /\ RedisTyped'
         /\ MemorySet(k, v, ttl) /\ RedisSet(k, v, ttl) => Alike(k)
<1> DEFINE next(E) == {MakeEntry(v, ttl)}
           answer(E) == {}
<1>1. ASSUME NEW E, Stored(E)
      PROVE  /\ Stored(next(E))
             /\ Alive(E) => Alive(next(E))
             /\ NotOver(E) => NotOver(next(E))
  BY <1>1, KVAssumption, NewEntries DEF Typed
<1>2. ASSUME NEW E, Stored(E)
      PROVE  answer(E) \subseteq Nat
  BY <1>1, <1>2, Answers
<1>3. MemorySet(k, v, ttl) => Does(k, next(Current(k)), answer(Current(k)))
  BY DEF MemorySet
<1>4. RedisSet(k, v, ttl) => Command(k, next(Present(k)), answer(Present(k)))
  BY DEF RedisSet
<1>5. MemoryLeaves(k, next(Current(k)), answer(Current(k))) => MemoryStore!Set(k, v, ttl)
  BY DEF MemoryLeaves, MemoryStore!Set, MemoryStore!MakeEntry, MakeEntry
<1>6. RedisLeaves(k, next(Present(k)), answer(Present(k))) => RedisStore!Set(k, v, ttl)
  BY DEF RedisLeaves, RedisStore!Set, RedisStore!MakeEntry, MakeEntry
<1> HIDE DEF next, answer
<1>7. MemorySet(k, v, ttl) => MemoryLeaves(k, next(Current(k)), answer(Current(k)))
  BY <1>1, <1>2, <1>3, StoredNow, MemoryCall
<1>8. RedisSet(k, v, ttl) => RedisLeaves(k, next(Present(k)), answer(Present(k)))
  BY <1>1, <1>2, <1>4, StoredNow, RedisCall
<1>9. QED
  BY <1>5, <1>6, <1>7, <1>8 DEF MemoryLeaves, RedisLeaves, Alike

LEMMA SetnxCalls ==
  ASSUME Typed, NEW k \in Keys, now' = now, NEW v \in Values, NEW ttl \in MaybeTtl
  PROVE  /\ MemorySetnx(k, v, ttl) => MemoryStore!Setnx(k, v, ttl) /\ MemoryTyped'
         /\ RedisSetnx(k, v, ttl) => RedisStore!Setnx(k, v, ttl) /\ RedisTyped'
         /\ MemorySetnx(k, v, ttl) /\ RedisSetnx(k, v, ttl) => Alike(k)
<1> DEFINE next(E) == IF E = {} THEN {MakeEntry(v, ttl)} ELSE E
           answer(E) == Answer(E = {})
<1>1. ASSUME NEW E, Stored(E)
      PROVE  /\ Stored(next(E))
             /\ Alive(E) => Alive(next(E))
             /\ NotOver(E) => NotOver(next(E))
  BY <1>1, KVAssumption, NewEntries DEF Typed
<1>2. ASSUME NEW E, Stored(E)
      PROVE  answer(E) \subseteq Nat
  BY <1>1, <1>2, Answers
<1>3. MemorySetnx(k, v, ttl) => Does(k, next(Current(k)), answer(Current(k)))
  BY DEF MemorySetnx
<1>4. RedisSetnx(k, v, ttl) => Command(k, next(Present(k)), answer(Present(k)))
  BY DEF RedisSetnx, SetNX
<1>5. MemoryLeaves(k, next(Current(k)), answer(Current(k))) => MemoryStore!Setnx(k, v, ttl)
  BY DEF MemoryLeaves, MemoryStore!Setnx, MemoryStore!MakeEntry, MakeEntry,
      MemoryStore!Answer, Answer
<1>6. RedisLeaves(k, next(Present(k)), answer(Present(k))) => RedisStore!Setnx(k, v, ttl)
  BY DEF RedisLeaves, RedisStore!Setnx, RedisStore!MakeEntry, MakeEntry, RedisStore!Answer, Answer
<1> HIDE DEF next, answer
<1>7. MemorySetnx(k, v, ttl) => MemoryLeaves(k, next(Current(k)), answer(Current(k)))
  BY <1>1, <1>2, <1>3, StoredNow, MemoryCall
<1>8. RedisSetnx(k, v, ttl) => RedisLeaves(k, next(Present(k)), answer(Present(k)))
  BY <1>1, <1>2, <1>4, StoredNow, RedisCall
<1>9. QED
  BY <1>5, <1>6, <1>7, <1>8 DEF MemoryLeaves, RedisLeaves, Alike

LEMMA IncrCalls ==
  ASSUME Typed, NEW k \in Keys, now' = now, NEW v \in Values, NEW ttl \in MaybeTtl
  PROVE  /\ MemoryIncr(k, v, ttl) => MemoryStore!Incr(k, v, ttl) /\ MemoryTyped'
         /\ RedisIncr(k, v, ttl) => RedisStore!Incr(k, v, ttl) /\ RedisTyped'
         /\ MemoryIncr(k, v, ttl) /\ RedisIncr(k, v, ttl) => Alike(k)
<1> DEFINE next(E) == IF E = {} THEN {MakeEntry(v, ttl)} ELSE {Increased(e, v) : e \in E}
           answer(E) == {e.value : e \in next(E)}
<1>1. ASSUME NEW E, Stored(E)
      PROVE  /\ Stored(next(E))
             /\ Alive(E) => Alive(next(E))
             /\ NotOver(E) => NotOver(next(E))
  BY <1>1, KVAssumption, NewEntries, IncreasedEntries DEF Typed
<1>2. ASSUME NEW E, Stored(E)
      PROVE  answer(E) \subseteq Nat
  BY <1>1, <1>2, Answers
<1>3. MemoryIncr(k, v, ttl) => Does(k, next(Current(k)), answer(Current(k)))
  BY DEF MemoryIncr
<1>4. RedisIncr(k, v, ttl) => Command(k, next(Present(k)), answer(Present(k)))
  BY KVAssumption, SeededIncrement DEF RedisIncr
<1>5. MemoryLeaves(k, next(Current(k)), answer(Current(k))) => MemoryStore!Incr(k, v, ttl)
  BY DEF MemoryLeaves, MemoryStore!Incr, MemoryStore!MakeEntry, MakeEntry,
      MemoryStore!Increased, Increased
<1>6. RedisLeaves(k, next(Present(k)), answer(Present(k))) => RedisStore!Incr(k, v, ttl)
  BY DEF RedisLeaves, RedisStore!Incr, RedisStore!MakeEntry, MakeEntry,
      RedisStore!Increased, Increased
<1> HIDE DEF next, answer
<1>7. MemoryIncr(k, v, ttl) => MemoryLeaves(k, next(Current(k)), answer(Current(k)))
  BY <1>1, <1>2, <1>3, StoredNow, MemoryCall
<1>8. RedisIncr(k, v, ttl) => RedisLeaves(k, next(Present(k)), answer(Present(k)))
  BY <1>1, <1>2, <1>4, StoredNow, RedisCall
<1>9. QED
  BY <1>5, <1>6, <1>7, <1>8 DEF MemoryLeaves, RedisLeaves, Alike

-----------------------------------------------------------------------------
(* Time and collection *)

(* Time takes from each key what expires by then.                          *)
LEMMA MemoryTick ==
  ASSUME Typed, Tick
  PROVE  MemoryStore!Tick
<1> DEFINE gone == {k \in Keys : \E e \in Current(k) : \E t \in e.until : t <= now'}
<1>1. now \in Nat /\ now' = now + 1 /\ data' = data /\ memoryReply' = memoryReply
  BY DEF Typed, Tick, memoryVars
<1>2. \A k \in Keys : /\ data[k] \subseteq Entry
                      /\ \A e, f \in data[k] : e = f
  BY DEF Typed, MemoryTyped, Stored
<1>3. \A k \in Keys \ gone : \A e \in Current(k) : \A t \in e.until : t >= now'
  BY <1>1, <1>2 DEF Current, Entry
<1>4. \A k \in gone : Current(k)' = {}
  BY <1>1, <1>2 DEF Current, Entry
<1>5. \A k \in Keys \ gone : Current(k)' = Current(k)
  BY <1>1, <1>2 DEF Current, Entry
<1>6. gone \in SUBSET Keys /\ \A k \in gone : \E e \in Current(k) : \E t \in e.until : t <= now'
  OBVIOUS
<1> HIDE DEF gone
<1>7. QED
  BY <1>1, <1>3, <1>4, <1>5, <1>6 DEF MemoryStore!Tick

LEMMA RedisTick ==
  ASSUME Typed, Tick
  PROVE  RedisStore!Tick
<1> DEFINE gone == {k \in Keys : \E e \in Present(k) : \E t \in e.until : t < now'}
<1>1. now \in Nat /\ now' = now + 1 /\ db' = db /\ redisReply' = redisReply
  BY DEF Typed, Tick, redisVars
<1>2. \A k \in Keys : /\ db[k] \subseteq Entry
                      /\ \A e, f \in db[k] : e = f
  BY DEF Typed, RedisTyped, Stored
<1>3. \A k \in Keys \ gone : \A e \in Present(k) : \A t \in e.until : t >= now'
  BY <1>1, <1>2 DEF Present, Entry
<1>4. \A k \in gone : Present(k)' = {}
  BY <1>1, <1>2 DEF Present, Entry
<1>5. \A k \in Keys \ gone : Present(k)' = Present(k)
  BY <1>1, <1>2 DEF Present, Entry
<1>6. gone \in SUBSET Keys /\ \A k \in gone : \E e \in Present(k) : \E t \in e.until : t <= now'
  BY <1>1, <1>2 DEF Present, Entry
<1> HIDE DEF gone
<1>7. QED
  BY <1>1, <1>3, <1>4, <1>5, <1>6 DEF RedisStore!Tick

(* The collection and the server remove nothing that is still there.       *)
LEMMA CollectKeeps ==
  ASSUME Typed, Collect
  PROVE  MemoryTyped' /\ \A k \in Keys : Current(k)' = Current(k)
<1>1. data' = [k \in Keys |-> Current(k)] /\ now' = now /\ memoryReply' = memoryReply
  BY DEF Collect, Gc
<1>2. \A k \in Keys : data'[k] = Current(k) /\ Stored(Current(k))
  BY <1>1, StoredNow
<1>3. data' \in [Keys -> SUBSET Entry]
  BY <1>1, <1>2 DEF Stored
<1>4. \A k \in Keys : Stored(data[k])'
  BY <1>1, <1>2 DEF Stored
<1>5. \A k \in Keys : Current(k)' = Current(k)
  BY <1>1, <1>2 DEF Current
<1>6. QED
  BY <1>1, <1>3, <1>4, <1>5 DEF MemoryTyped, Typed

LEMMA ExpelKeeps ==
  ASSUME Typed, Expel
  PROVE  RedisTyped' /\ \A k \in Keys : Present(k)' = Present(k) /\ Certain(k)' = Certain(k)
<1>1. db' = [k \in Keys |-> Present(k)] /\ now' = now /\ redisReply' = redisReply
  BY DEF Expel, Evict
<1>2. \A k \in Keys : db'[k] = Present(k) /\ Stored(Present(k))
  BY <1>1, StoredNow
<1>3. db' \in [Keys -> SUBSET Entry]
  BY <1>1, <1>2 DEF Stored
<1>4. \A k \in Keys : Stored(db[k])'
  BY <1>1, <1>2 DEF Stored
<1>5. \A k \in Keys : Present(k)' = Present(k)
  BY <1>1, <1>2 DEF Present
<1>6. \A k \in Keys : Certain(k)' = Certain(k)
  <2>1. \A k \in Keys : db[k] \subseteq Entry
    BY DEF Typed, RedisTyped, Stored
  <2>2. QED
    BY <1>1, <1>2, <2>1 DEF Certain, Present, Typed, Entry
<1>7. QED
  BY <1>1, <1>3, <1>4, <1>5, <1>6 DEF RedisTyped, Typed

-----------------------------------------------------------------------------
(* Theorems *)

(* Every call is a step of both stores, keeps the types and the agreement. *)
LEMMA CallsStep ==
  ASSUME Typed, NEW k \in Keys, AnyCall(k)
  PROVE  /\ MemoryStore!Next /\ RedisStore!Next
         /\ MemoryTyped' /\ RedisTyped' /\ Alike(k)
<1> DEFINE Goal == /\ MemoryStore!Next /\ RedisStore!Next
                   /\ MemoryTyped' /\ RedisTyped' /\ Alike(k)
<1>1. now' = now
  BY DEF AnyCall, Call
<1>2. ASSUME Call(k, MemoryGet(k), RedisGet(k))
      PROVE  Goal
  <2>1. MemoryGet(k) /\ RedisGet(k)
    BY <1>2 DEF Call
  <2>2. /\ MemoryStore!Get(k) /\ RedisStore!Get(k)
        /\ MemoryTyped' /\ RedisTyped' /\ Alike(k)
    BY <1>1, <1>2, <2>1, GetCalls
  <2>3. QED
    BY <1>2, <2>2
    DEF MemoryStore!Next, RedisStore!Next, MaybeTtl, MemoryStore!MaybeTtl, RedisStore!MaybeTtl
<1>3. ASSUME Call(k, MemoryHas(k), RedisHas(k))
      PROVE  Goal
  <2>1. MemoryHas(k) /\ RedisHas(k)
    BY <1>3 DEF Call
  <2>2. /\ MemoryStore!Has(k) /\ RedisStore!Has(k)
        /\ MemoryTyped' /\ RedisTyped' /\ Alike(k)
    BY <1>1, <1>3, <2>1, HasCalls
  <2>3. QED
    BY <1>3, <2>2
    DEF MemoryStore!Next, RedisStore!Next, MaybeTtl, MemoryStore!MaybeTtl, RedisStore!MaybeTtl
<1>4. ASSUME Call(k, MemoryDel(k), RedisDel(k))
      PROVE  Goal
  <2>1. MemoryDel(k) /\ RedisDel(k)
    BY <1>4 DEF Call
  <2>2. /\ MemoryStore!Del(k) /\ RedisStore!Del(k)
        /\ MemoryTyped' /\ RedisTyped' /\ Alike(k)
    BY <1>1, <1>4, <2>1, DelCalls
  <2>3. QED
    BY <1>4, <2>2
    DEF MemoryStore!Next, RedisStore!Next, MaybeTtl, MemoryStore!MaybeTtl, RedisStore!MaybeTtl
<1>5. ASSUME NEW s \in Ttls, Call(k, MemoryExpire(k, s), RedisExpire(k, s))
      PROVE  Goal
  <2>1. MemoryExpire(k, s) /\ RedisExpire(k, s)
    BY <1>5 DEF Call
  <2>2. /\ MemoryStore!Expire(k, s) /\ RedisStore!Expire(k, s)
        /\ MemoryTyped' /\ RedisTyped' /\ Alike(k)
    BY <1>1, <1>5, <2>1, ExpireCalls
  <2>3. QED
    BY <1>5, <2>2
    DEF MemoryStore!Next, RedisStore!Next, MaybeTtl, MemoryStore!MaybeTtl, RedisStore!MaybeTtl
<1>6. ASSUME NEW v \in Values, NEW ttl \in MaybeTtl,
            Call(k, MemorySet(k, v, ttl), RedisSet(k, v, ttl))
      PROVE  Goal
  <2>1. MemorySet(k, v, ttl) /\ RedisSet(k, v, ttl)
    BY <1>6 DEF Call
  <2>2. /\ MemoryStore!Set(k, v, ttl) /\ RedisStore!Set(k, v, ttl)
        /\ MemoryTyped' /\ RedisTyped' /\ Alike(k)
    BY <1>1, <1>6, <2>1, SetCalls
  <2>3. QED
    BY <1>6, <2>2
    DEF MemoryStore!Next, RedisStore!Next, MaybeTtl, MemoryStore!MaybeTtl, RedisStore!MaybeTtl
<1>7. ASSUME NEW v \in Values, NEW ttl \in MaybeTtl,
            Call(k, MemorySetnx(k, v, ttl), RedisSetnx(k, v, ttl))
      PROVE  Goal
  <2>1. MemorySetnx(k, v, ttl) /\ RedisSetnx(k, v, ttl)
    BY <1>7 DEF Call
  <2>2. /\ MemoryStore!Setnx(k, v, ttl) /\ RedisStore!Setnx(k, v, ttl)
        /\ MemoryTyped' /\ RedisTyped' /\ Alike(k)
    BY <1>1, <1>7, <2>1, SetnxCalls
  <2>3. QED
    BY <1>7, <2>2
    DEF MemoryStore!Next, RedisStore!Next, MaybeTtl, MemoryStore!MaybeTtl, RedisStore!MaybeTtl
<1>8. ASSUME NEW v \in Values, NEW ttl \in MaybeTtl,
            Call(k, MemoryIncr(k, v, ttl), RedisIncr(k, v, ttl))
      PROVE  Goal
  <2>1. MemoryIncr(k, v, ttl) /\ RedisIncr(k, v, ttl)
    BY <1>8 DEF Call
  <2>2. /\ MemoryStore!Incr(k, v, ttl) /\ RedisStore!Incr(k, v, ttl)
        /\ MemoryTyped' /\ RedisTyped' /\ Alike(k)
    BY <1>1, <1>8, <2>1, IncrCalls
  <2>3. QED
    BY <1>8, <2>2
    DEF MemoryStore!Next, RedisStore!Next, MaybeTtl, MemoryStore!MaybeTtl, RedisStore!MaybeTtl
<1>9. QED
  BY <1>2, <1>3, <1>4, <1>5, <1>6, <1>7, <1>8 DEF AnyCall

(* Every step, a stutter included, is one of both stores and keeps types.  *)
LEMMA TwinsStep ==
  ASSUME Typed, [TwinsNext]_twinsVars
  PROVE  /\ [MemoryStore!Next]_MemoryStore!storeVars
         /\ [RedisStore!Next]_RedisStore!storeVars
         /\ Typed'
<1>1. ASSUME NEW k \in Keys, AnyCall(k)
      PROVE  MemoryStore!Next /\ RedisStore!Next /\ Typed'
  <2>1. now' = now
    BY <1>1 DEF AnyCall, Call
  <2>2. QED
    BY <1>1, <2>1, CallsStep DEF Typed
<1>2. CASE Tick
  <2>1. MemoryStore!Next /\ RedisStore!Next
    BY <1>2, MemoryTick, RedisTick DEF MemoryStore!Next, RedisStore!Next
  <2>2. /\ now \in Nat /\ now' = now + 1 /\ now' \in Nat /\ now' <= MaxTime
        /\ data' = data /\ memoryReply' = memoryReply
        /\ db' = db /\ redisReply' = redisReply
    BY <1>2, BoundsAssumption DEF Tick, Typed, memoryVars, redisVars
  <2>3. ASSUME NEW entries, Stored(entries)
        PROVE  Stored(entries)'
    BY <2>2, <2>3, KVAssumption DEF Stored, Entry
  <2>4. QED
    BY <2>1, <2>2, <2>3 DEF Typed, MemoryTyped, RedisTyped, Stored
<1>3. CASE Collect
  <2>1. /\ MemoryTyped' /\ \A k \in Keys : Current(k)' = Current(k)
        /\ now' = now /\ memoryReply' = memoryReply
        /\ db' = db /\ redisReply' = redisReply
    BY <1>3, CollectKeeps DEF Collect, Gc, redisVars
  <2>2. Typed'
    BY <2>1 DEF Typed, RedisTyped, Stored
  <2>3. QED
    BY <2>1, <2>2 DEF MemoryStore!storeVars, RedisStore!storeVars, Present
<1>4. CASE Expel
  <2>1. /\ RedisTyped' /\ \A k \in Keys : Present(k)' = Present(k)
        /\ now' = now /\ redisReply' = redisReply
        /\ data' = data /\ memoryReply' = memoryReply
    BY <1>4, ExpelKeeps DEF Expel, Evict, memoryVars
  <2>2. Typed'
    BY <2>1 DEF Typed, MemoryTyped, Stored
  <2>3. QED
    BY <2>1, <2>2 DEF MemoryStore!storeVars, RedisStore!storeVars, Current
<1>5. CASE UNCHANGED twinsVars
  BY <1>5 DEF twinsVars, memoryVars, redisVars, Typed, MemoryTyped, RedisTyped, Stored,
     MemoryStore!storeVars, RedisStore!storeVars, Current, Present
<1>6. QED
  BY <1>1, <1>2, <1>3, <1>4, <1>5 DEF TwinsNext

LEMMA TwinsStart ==
  ASSUME TwinsInit
  PROVE  Typed /\ MemoryStore!Init /\ RedisStore!Init
<1>1. Typed
  BY BoundsAssumption
  DEF TwinsInit, MemoryInit, RedisInit, Typed, MemoryTyped, RedisTyped, Stored
<1>2. \A k \in Keys : Current(k) = {} /\ Present(k) = {}
  BY DEF TwinsInit, MemoryInit, RedisInit, Current, Present
<1>3. QED
  BY <1>1, <1>2 DEF TwinsInit, MemoryInit, RedisInit, MemoryStore!Init, RedisStore!Init

LEMMA AlwaysTyped == TwinsSpec => []Typed
<1>1. TwinsInit => Typed
  BY TwinsStart
<1>2. Typed /\ [TwinsNext]_twinsVars => Typed'
  BY TwinsStep
<1>3. QED
  BY <1>1, <1>2, PTL DEF TwinsSpec

(* The memory adaptor and the Redis adaptor each implement the expiring    *)
(* store: what expired is never read, changed or revived, although it      *)
(* stays in the Map or on the server for a while.                          *)
THEOREM StoreRefinement == TwinsSpec => BothImplementStore
<1>1. TwinsInit => MemoryStore!Init /\ RedisStore!Init
  BY TwinsStart
<1>2. Typed /\ [TwinsNext]_twinsVars => /\ [MemoryStore!Next]_MemoryStore!storeVars
                                  /\ [RedisStore!Next]_RedisStore!storeVars
  BY TwinsStep
<1>3. QED
  BY <1>1, <1>2, AlwaysTyped, PTL
  DEF TwinsSpec, BothImplementStore, MemoryStore!Spec, RedisStore!Spec

(* Every key has at most one entry, in both adaptors, and none that        *)
(* outlives the longest TTL.                                               *)
THEOREM StoreTypes == TwinsSpec => []TwinsTypeOK
<1>1. Typed /\ edge \in BOOLEAN => TwinsTypeOK
  BY BoundsAssumption DEF Typed, MemoryTyped, RedisTyped, TwinsTypeOK
<1>2. TwinsInit => edge \in BOOLEAN
  BY DEF TwinsInit
<1>3. edge \in BOOLEAN /\ [TwinsNext]_twinsVars => (edge \in BOOLEAN)'
  BY DEF TwinsNext, AnyCall, Call, Tick, Collect, Expel, twinsVars
<1>4. QED
  BY <1>1, <1>2, <1>3, AlwaysTyped, PTL DEF TwinsSpec

(* Every step keeps the agreement, or is a call at an expiry.              *)
LEMMA AgreeStep ==
  ASSUME Typed, AgreeInv, [TwinsNext]_twinsVars
  PROVE  AgreeInv'
<1> SUFFICES ASSUME ~edge'
             PROVE  memoryReply' = redisReply' /\ \A j \in Keys : Current(j)' = Certain(j)'
  BY DEF AgreeInv
<1>1. ~edge
  BY DEF TwinsNext, AnyCall, Call, Tick, Collect, Expel, twinsVars
<1>2. memoryReply = redisReply /\ \A j \in Keys : Current(j) = Certain(j)
  BY <1>1 DEF AgreeInv
<1>3. now \in Nat /\ \A j \in Keys : db[j] \subseteq Entry
  BY DEF Typed, RedisTyped, Stored
<1>4. ASSUME NEW k \in Keys, AnyCall(k)
      PROVE  memoryReply' = redisReply' /\ \A j \in Keys : Current(j)' = Certain(j)'
  <2>1. now' = now /\ \A e \in db[k] : now \notin e.until
    BY <1>4 DEF AnyCall, Call
  <2>2. Certain(k) = Present(k)
    BY <1>3, <2>1 DEF Certain, Present, Entry
  <2>3. /\ memoryReply' = redisReply' /\ Current(k)' = Present(k)'
        /\ \A j \in Keys \ {k} : Current(j)' = Current(j) /\ Present(j)' = Present(j)
    BY <1>2, <1>4, <2>2, CallsStep DEF Alike
  <2>4. \A j \in Keys : db'[j] \subseteq Entry
    BY <1>4, CallsStep DEF RedisTyped, Stored
  <2>5. Current(k)' = Certain(k)'
    BY <1>3, <2>1, <2>3, <2>4 DEF Current, Certain, Present, Entry
  <2>6. \A j \in Keys \ {k} : Certain(j)' = Certain(j)
    BY <1>3, <2>1, <2>3, <2>4 DEF Certain, Present, Entry
  <2>7. QED
    BY <1>2, <2>3, <2>5, <2>6
<1>5. CASE Tick
  <2>1. /\ now' = now + 1 /\ data' = data /\ db' = db
        /\ memoryReply' = memoryReply /\ redisReply' = redisReply
    BY <1>5 DEF Tick, memoryVars, redisVars
  <2>2. \A j \in Keys : data[j] \subseteq Entry
    BY DEF Typed, MemoryTyped, Stored
  <2>3. ASSUME NEW j \in Keys
        PROVE  Current(j)' = Certain(j)'
    <3>1. Current(j)' = {e \in Current(j) : \A t \in e.until : t > now'}
      BY <1>3, <2>1, <2>2 DEF Current, Entry
    <3>2. Certain(j)' = {e \in Certain(j) : \A t \in e.until : t > now'}
      BY <1>3, <2>1 DEF Certain, Entry
    <3>3. QED
      BY <1>2, <3>1, <3>2
  <2>4. QED
    BY <1>2, <2>1, <2>3
<1>6. CASE Collect
  <2>1. /\ \A j \in Keys : Current(j)' = Current(j)
        /\ now' = now /\ db' = db
        /\ memoryReply' = memoryReply /\ redisReply' = redisReply
    BY <1>6, CollectKeeps DEF Collect, Gc, redisVars
  <2>2. QED
    BY <1>2, <2>1 DEF Certain
<1>7. CASE Expel
  <2>1. /\ \A j \in Keys : Certain(j)' = Certain(j)
        /\ now' = now /\ data' = data
        /\ memoryReply' = memoryReply /\ redisReply' = redisReply
    BY <1>7, ExpelKeeps DEF Expel, Evict, memoryVars
  <2>2. QED
    BY <1>2, <2>1 DEF Current
<1>8. CASE UNCHANGED twinsVars
  BY <1>2, <1>8 DEF twinsVars, memoryVars, redisVars, Current, Certain
<1>9. QED
  BY <1>4, <1>5, <1>6, <1>7, <1>8 DEF TwinsNext

(* The adaptors answer every call alike, until a key is used at the        *)
(* instant of its expiry: until then both have the same entries that have  *)
(* not expired, whatever each still keeps of the others.                   *)
THEOREM StoreAgreement == TwinsSpec => []TwinsAgree
<1>1. TwinsInit => AgreeInv
  BY DEF TwinsInit, MemoryInit, RedisInit, AgreeInv, Current, Certain
<1>2. Typed /\ AgreeInv /\ [TwinsNext]_twinsVars => AgreeInv'
  BY AgreeStep
<1>3. AgreeInv => TwinsAgree
  BY DEF AgreeInv, TwinsAgree
<1>4. QED
  BY <1>1, <1>2, <1>3, AlwaysTyped, PTL DEF TwinsSpec

=============================================================================
