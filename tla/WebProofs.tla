------------------------------- MODULE WebProofs -------------------------------
(***************************************************************************)
(* Proofs about the sessions and the rate limiter over one key-value       *)
(* store, for any requests, keys, TTLs, limit and bounds: what was saved   *)
(* is kept and what was destroyed is gone, unless requests overlapped, and *)
(* no window of a counter lets more requests through than the limit.       *)
(***************************************************************************)
EXTENDS Web, FiniteSetTheorems, TLAPS

(* What sessions and the limiter keep in the store, and in memory.         *)
SessionData == [data : SUBSET Requests, expires : Nat]

Contexts == [id : Requests \cup {Nobody}, data : SUBSET Requests, expires : Nat,
             isNew : BOOLEAN, isDirty : BOOLEAN, isDestroyed : BOOLEAN, replaced : BOOLEAN,
             renewed : BOOLEAN]

Typed ==
  /\ now \in 0..MaxTime
  /\ live = [k \in Keys |-> live[k]]
  /\ jar \in [id : Requests \cup {Nobody}, until : Nat]
  /\ pc \in [Requests -> {"new", "loading", "running", "saving", "deleting", "sent", "done"}]
  /\ ctx \in [Requests -> Contexts]
  /\ cookie \in [Requests -> {"none", "set", "delete"}]
  /\ overlaps \in [Requests -> SUBSET Requests]
  /\ LimitTypeOK

(* A key has one entry at most, which expires and has not been over.       *)
StoreInv ==
  \A k \in Keys :
    /\ \A d, e \in live[k] : d = e
    /\ \A e \in live[k] : \E t \in e.until : t \in Nat /\ t >= now /\ e = [value |-> e.value, until |-> {t}]

(* An execution has sessions or a limit.                                   *)
NoSessions == \A r \in Requests : pc[r] = "new"
NoLimit == resetAt = {} /\ \A r \in Requests : verdict[r] = "none"

ApartInv ==
  /\ NoSessions \/ NoLimit
  /\ NoLimit => \A k \in Keys : \A e \in live[k] : e.value \in SessionData
  /\ NoSessions => \A e \in live[Counter] : e.value \in Nat

-----------------------------------------------------------------------------
(* Sessions                                                                *)

(* A request has the session that it created, or one whose creator is done *)
(* since long; what it changed is in its data; where it is tells what it   *)
(* was asked to do.                                                        *)
ContextInv(r) ==
  /\ pc[r] = "new" <=> ctx[r].id = Nobody
  /\ pc[r] = "new" => overlaps[r] = {}
  /\ ctx[r].id \notin {r, Nobody} => pc[ctx[r].id] = "done"
  /\ pc[r] \in {"new", "loading"} =>
       /\ ctx[r].id # r
       /\ ~ctx[r].isNew /\ ~ctx[r].isDirty /\ ~ctx[r].isDestroyed /\ ~ctx[r].replaced
  /\ ctx[r].isNew => ctx[r].id = r
  /\ ctx[r].isDirty => ctx[r].isDestroyed \/ r \in ctx[r].data
  /\ pc[r] = "saving" => ~ctx[r].isDestroyed /\ (ctx[r].isDirty \/ ctx[r].isNew)
  /\ pc[r] = "deleting" => ctx[r].isDestroyed
  /\ pc[r] = "saving" \/ Answered(r, "set") => ctx[r].expires <= now + SessionTtl
  /\ pc[r] \notin {"sent", "done"} => cookie[r] = "none"

JarInv == jar.id # Nobody => pc[jar.id] = "done"

(* Requests in flight together know of each other.                         *)
OverlapsInv == \A q, r \in InFlight : q # r => q \in overlaps[r]

(* The overlapping requests that have their session for good.              *)
Met(r) == {q \in Overlapping(r) : pc[q] \notin {"new", "loading"}}

(* Who has loaded the session since it was saved has what was saved.       *)
Kept(r, entry) ==
  /\ \A t \in entry.until : t >= ctx[r].expires
  /\ \/ ~ctx[r].isDirty
     \/ Met(r) # {}
     \/ \E q \in Sharing(r) : ctx[q].replaced
     \/ /\ r \in entry.value.data
        /\ \A q \in Sharing(r) : pc[q] \in {"running", "saving"} => r \in ctx[q].data

SavedInv(r) ==
  Answered(r, "set") /\ now < ctx[r].expires =>
    \/ \E q \in Sharing(r) : ctx[q].isDestroyed
    \/ \E e \in live[ctx[r].id] : Kept(r, e)

(* Who has loaded a session since it was destroyed loaded what a request   *)
(* saved that had overlapped.                                              *)
DestroyedInv(r) ==
  /\ Answered(r, "delete")
  /\ live[ctx[r].id] # {}
     \/ \E q \in Sharing(r) \ overlaps[r] : pc[q] \in {"running", "saving"}
  => \E q \in Met(r) : ctx[q].isDirty \/ ctx[q].isNew

SessionInv ==
  /\ JarInv /\ OverlapsInv
  /\ \A r \in Requests : ContextInv(r) /\ SavedInv(r) /\ DestroyedInv(r)

-----------------------------------------------------------------------------
(* The limit                                                               *)

Served == {"allowed", "open", "unavailable"}
Judged == {"allowed", "denied", "open", "unavailable"}

(* A request hits once, and so finitely many have.                         *)
HitsInv ==
  /\ IsFiniteSet({r \in Requests : verdict[r] # "none"})
  /\ \A r \in Requests :
       /\ verdict[r] = "none" => hitAt[r] = {}
       /\ \A t \in hitAt[r] : t <= now /\ (resetAt = {} /\ live[Counter] = {} => t < now)

(* The counter counts who was let through in its window, unless the limit  *)
(* was reset in between; of those it counted the first are served; and it  *)
(* counted none twice and none from before its window.                     *)
CounterInv(counter, until) ==
  /\ until <= now + Window
  /\ counter.value <= Cardinality(HitsSince(until - Window, Judged))
  /\ resetAt = {} =>
       /\ Cardinality(HitsSince(until - Window, {"allowed"})) <= counter.value
       /\ Cardinality(HitsSince(until - Window, {"allowed"})) <= Limit
  /\ \/ Cardinality(HitsSince(until - Window, Served)) >= counter.value
     \/ Cardinality(HitsSince(until - Window, Served)) >= Limit

DeniedInv(r) ==
  verdict[r] = "denied" =>
    \A t \in hitAt[r] : Cardinality(HitsSince(t - Window, Served)) >= Limit

LimitInv ==
  /\ HitsInv
  /\ NoSessions => \A counter \in live[Counter] : \A u \in counter.until : CounterInv(counter, u)
  /\ \A r \in Requests : DeniedInv(r)

WebInv == Typed /\ StoreInv /\ ApartInv /\ SessionInv /\ LimitInv

-----------------------------------------------------------------------------
(* The store *)

(* The TTLs are positive numbers, and so is the limit.                     *)
LEMMA Numbers ==
  /\ SessionTtl \in Nat /\ SessionTtl > 0
  /\ Window \in Nat /\ Window > 0
  /\ Limit \in Nat /\ Limit > 0
  BY KVAssumption, SessionAssumption, LimitAssumption

(* What an entry made for a session or a counter looks like.               *)
LEMMA MadeEntry ==
  ASSUME NEW v, NEW s
  PROVE  MakeEntry(v, {s}) = [value |-> v, until |-> {now + s}]
  BY DEF MakeEntry

-----------------------------------------------------------------------------
(* One step of a request below the session middleware *)

(* Where a step of r leads, and what it leaves: other requests stay where  *)
(* they are, and a session that was loaded is the same afterwards.         *)
Moves(r) ==
  /\ now' = now
  /\ pc[r] = "new" \/ (pc[r] # "done" /\ pc'[r] \notin {"new", "loading"})
  /\ pc' = [pc EXCEPT ![r] = pc'[r]]
  /\ ctx' = [ctx EXCEPT ![r] = ctx'[r]]
  /\ cookie' = [cookie EXCEPT ![r] = cookie'[r]]
  /\ pc[r] \notin {"new", "loading"} =>
       /\ pc'[r] \notin {"new", "loading"}
       /\ ctx'[r].id = ctx[r].id
       /\ ctx[r].isNew => ctx'[r].isNew
       /\ ctx[r].isDirty => ctx'[r].isDirty
       /\ ctx[r].isDestroyed => ctx'[r].isDestroyed
       /\ ctx[r].replaced => ctx'[r].replaced
  /\ pc[r] \in {"saving", "deleting", "sent"} => ctx'[r] = ctx[r]

(* A session that r runs with afterwards is new, was read from the store,  *)
(* or is the one it had, with what was in it unless r replaced that.       *)
Carries(r) ==
  pc'[r] \in {"running", "saving"} =>
    \/ pc[r] \in {"new", "loading"} /\ ctx'[r].id = r
    \/ /\ pc[r] = "loading" /\ ctx'[r].id = ctx[r].id
       /\ \E e \in live[ctx[r].id] : ctx'[r].data = e.value.data
    \/ /\ pc[r] = "running" /\ ctx'[r].id = ctx[r].id
       /\ ctx[r].data \subseteq ctx'[r].data \/ ctx'[r].replaced

Saves(r) ==
  /\ pc[r] = "saving" /\ pc'[r] = "sent"
  /\ live' = [live EXCEPT ![ctx[r].id] = {[value |-> Stored(r), until |-> {now + SessionTtl}]}]

Deletes(r) ==
  /\ pc[r] = "deleting" /\ pc'[r] = "sent"
  /\ live' = [live EXCEPT ![ctx[r].id] = {}]

(* The answer that r gets now, or got before.                              *)
Answers(r) ==
  pc'[r] \in {"sent", "done"} =>
    \/ pc[r] \in {"sent", "done"} /\ cookie'[r] = cookie[r] /\ live' = live
    \/ cookie'[r] = "none"
    \/ cookie'[r] = "set" /\ Saves(r)
    \/ cookie'[r] = "delete" /\ Deletes(r)

(* A request that arrives, and only one that does, meets those in flight.  *)
Meets(r) ==
  \/ /\ pc[r] # "new" /\ overlaps' = overlaps
     /\ pc[r] = "sent" => pc'[r] = "done"
  \/ /\ pc[r] = "new"
     /\ overlaps' = [q \in Requests |-> IF q = r THEN InFlight
                                        ELSE IF q \in InFlight THEN overlaps[q] \cup {r}
                                        ELSE overlaps[q]]

SessionStep(r) ==
  /\ Moves(r) /\ Carries(r) /\ Answers(r) /\ Meets(r)
  /\ live' = live \/ Saves(r) \/ Deletes(r)
  /\ pc'[r] \in {"loading", "running", "saving", "deleting", "sent", "done"}
  /\ ctx'[r] \in Contexts
  /\ cookie'[r] \in {"none", "set", "delete"}
  /\ jar' \in [id : Requests \cup {Nobody}, until : Nat]
  /\ JarInv'
  /\ ContextInv(r)'

(* What is known of a request that moves.                                  *)
Known(r) ==
  /\ DOMAIN pc = Requests /\ DOMAIN ctx = Requests /\ DOMAIN cookie = Requests
  /\ pc \in [Requests -> {"new", "loading", "running", "saving", "deleting", "sent", "done"}]
  /\ ctx \in [Requests -> Contexts]
  /\ cookie \in [Requests -> {"none", "set", "delete"}]
  /\ pc[r] \in {"new", "loading", "running", "saving", "deleting", "sent", "done"}
  /\ ctx[r] \in Contexts
  /\ ctx[r].id \in Requests \cup {Nobody}
  /\ ctx[r].data \subseteq Requests
  /\ ctx[r].expires \in Nat
  /\ cookie[r] \in {"none", "set", "delete"}
  /\ jar \in [id : Requests \cup {Nobody}, until : Nat]
  /\ now \in Nat
  /\ Nobody \notin Requests
  /\ [pc EXCEPT ![r] = pc[r]] = pc
  /\ [ctx EXCEPT ![r] = ctx[r]] = ctx
  /\ [cookie EXCEPT ![r] = cookie[r]] = cookie

LEMMA TheRequest ==
  ASSUME Typed, NEW r \in Requests
  PROVE  Known(r)
<1>1. /\ pc \in [Requests -> {"new", "loading", "running", "saving", "deleting", "sent", "done"}]
      /\ ctx \in [Requests -> Contexts]
      /\ cookie \in [Requests -> {"none", "set", "delete"}]
      /\ jar \in [id : Requests \cup {Nobody}, until : Nat]
      /\ now \in Nat
      /\ Nobody \notin Requests
  BY SessionAssumption, TimeAssumption DEF Typed
<1>2. /\ ctx[r] \in Contexts
      /\ ctx[r].id \in Requests \cup {Nobody}
      /\ ctx[r].data \subseteq Requests
      /\ ctx[r].expires \in Nat
  BY <1>1 DEF Contexts
<1>3. QED
  BY <1>1, <1>2 DEF Known

(* What ContextInv says of r, once it is at p with c and the cookie k.     *)
ContextAt(r, p, c, k) ==
  /\ p # "new" /\ c.id # Nobody
  /\ c.id # r => pc[c.id] = "done"
  /\ p = "loading" =>
       c.id # r /\ ~c.isNew /\ ~c.isDirty /\ ~c.isDestroyed /\ ~c.replaced
  /\ c.isNew => c.id = r
  /\ c.isDirty => c.isDestroyed \/ r \in c.data
  /\ p = "saving" => ~c.isDestroyed /\ (c.isDirty \/ c.isNew)
  /\ p = "deleting" => c.isDestroyed
  /\ p = "saving" \/ (p \in {"sent", "done"} /\ k = "set") => c.expires <= now + SessionTtl
  /\ p \notin {"sent", "done"} => k = "none"

LEMMA Settles ==
  ASSUME Typed, SessionInv, NEW r \in Requests, pc[r] # "done", now' = now,
         NEW p \in {"loading", "running", "saving", "deleting", "sent", "done"},
         NEW c \in Contexts, NEW k \in {"none", "set", "delete"},
         pc' = [pc EXCEPT ![r] = p], ctx' = [ctx EXCEPT ![r] = c], cookie' = [cookie EXCEPT ![r] = k],
         ContextAt(r, p, c, k)
  PROVE  /\ pc'[r] = p /\ ctx'[r] = c /\ cookie'[r] = k
         /\ ContextInv(r)'
         /\ jar' = jar => JarInv' /\ jar' \in [id : Requests \cup {Nobody}, until : Nat]
<1>r. Known(r)
  BY TheRequest
<1>1. /\ pc'[r] = p /\ ctx'[r] = c /\ cookie'[r] = k
      /\ \A q \in Requests : pc[q] = "done" => pc'[q] = "done"
  BY <1>r DEF Known
<1>2. c.id \in Requests \cup {Nobody}
  BY DEF Contexts
<1>3. c.id # r => pc'[c.id] = "done"
  BY <1>1, <1>2 DEF ContextAt
<1>4. ContextInv(r)'
  BY <1>1, <1>3 DEF ContextAt, ContextInv, Answered
<1>5. jar' = jar => JarInv' /\ jar' \in [id : Requests \cup {Nobody}, until : Nat]
  BY <1>1, <1>r DEF JarInv, Known, SessionInv
<1>6. QED
  BY <1>1, <1>4, <1>5

(* What it said before the step.                                           *)
LEMMA WasAt ==
  ASSUME Typed, SessionInv, NEW r \in Requests
  PROVE  /\ pc[r] = "new" => ctx[r].id = Nobody /\ cookie[r] = "none"
         /\ pc[r] # "new" =>
              /\ ctx[r].id \in Requests
              /\ ContextAt(r, pc[r], ctx[r], cookie[r])
<1>r. Known(r)
  BY TheRequest
<1>1. QED
  BY <1>r DEF Known, SessionInv, ContextInv, ContextAt, Answered

(* A new session, and one whose cookie was presented.                      *)
LEMMA EmptyContext == NoContext \in Contexts
  BY DEF NoContext, Contexts

LEMMA NewContext ==
  ASSUME now \in Nat, NEW r \in Requests
  PROVE  /\ CreateNewSession(r) \in Contexts
         /\ CreateNewSession(r).id = r
         /\ ~CreateNewSession(r).isDirty
<1>1. now + SessionTtl \in Nat
  BY Numbers
<1>2. CreateNewSession(r) \in Contexts
  BY <1>1, EmptyContext DEF CreateNewSession, Contexts
<1>3. CreateNewSession(r).id = r /\ ~CreateNewSession(r).isDirty
  BY DEF CreateNewSession, NoContext
<1>4. QED
  BY <1>2, <1>3

LEMMA PresentedContext ==
  ASSUME NEW id \in Requests
  PROVE  /\ [NoContext EXCEPT !.id = id] \in Contexts
         /\ [NoContext EXCEPT !.id = id].id = id
         /\ ~[NoContext EXCEPT !.id = id].isNew
         /\ ~[NoContext EXCEPT !.id = id].isDirty
         /\ ~[NoContext EXCEPT !.id = id].isDestroyed
         /\ ~[NoContext EXCEPT !.id = id].replaced
<1>1. [NoContext EXCEPT !.id = id] \in Contexts
  BY EmptyContext DEF Contexts
<1>2. QED
  BY <1>1 DEF NoContext

LEMMA SendStep ==
  ASSUME Typed, SessionInv, NEW r \in Requests, Send(r)
  PROVE  SessionStep(r)
<1>r. Known(r)
  BY TheRequest
<1>0. pc[r] = "new" /\ cookie[r] = "none"
  BY WasAt DEF Send
<1>1. /\ now' = now /\ live' = live /\ jar' = jar /\ cookie' = cookie
      /\ Meets(r)
  BY <1>0 DEF Send, storeVars, Meets
<1>2. cookie' = [cookie EXCEPT ![r] = "none"]
  BY <1>r, <1>0, <1>1 DEF Known
<1>a. CASE jar.id # Nobody /\ now < jar.until
  <2> DEFINE c == [NoContext EXCEPT !.id = jar.id]
  <2>1. /\ pc' = [pc EXCEPT ![r] = "loading"]
        /\ ctx' = [ctx EXCEPT ![r] = c]
    BY <1>a DEF Send, GoTo
  <2>2. jar.id \in Requests /\ pc[jar.id] = "done" /\ jar.id # r
    BY <1>r, <1>0, <1>a DEF Known, JarInv, SessionInv
  <2>3. /\ c \in Contexts /\ c.id = jar.id
        /\ ~c.isNew /\ ~c.isDirty /\ ~c.isDestroyed /\ ~c.replaced
    BY <2>2, PresentedContext
  <2> HIDE DEF c
  <2>4. ContextAt(r, "loading", c, "none")
    BY <1>r, <2>2, <2>3 DEF Known, ContextAt
  <2>5. /\ pc'[r] = "loading" /\ ctx'[r] = c /\ cookie'[r] = "none"
        /\ ContextInv(r)' /\ JarInv' /\ jar' \in [id : Requests \cup {Nobody}, until : Nat]
    BY Settles, <1>0, <1>1, <1>2, <2>1, <2>3, <2>4
  <2>6. QED
    BY <1>0, <1>1, <1>2, <2>1, <2>3, <2>5 DEF SessionStep, Moves, Carries, Answers
<1>b. CASE ~(jar.id # Nobody /\ now < jar.until)
  <2> DEFINE c == CreateNewSession(r)
  <2>1. /\ pc' = [pc EXCEPT ![r] = "running"]
        /\ ctx' = [ctx EXCEPT ![r] = c]
    BY <1>b DEF Send, GoTo
  <2>2. c \in Contexts /\ c.id = r /\ ~c.isDirty
    BY <1>r, NewContext DEF Known
  <2> HIDE DEF c
  <2>3. ContextAt(r, "running", c, "none")
    BY <1>r, <2>2 DEF Known, ContextAt
  <2>4. /\ pc'[r] = "running" /\ ctx'[r] = c /\ cookie'[r] = "none"
        /\ ContextInv(r)' /\ JarInv' /\ jar' \in [id : Requests \cup {Nobody}, until : Nat]
    BY Settles, <1>0, <1>1, <1>2, <2>1, <2>2, <2>3
  <2>5. QED
    BY <1>0, <1>1, <1>2, <2>1, <2>2, <2>4 DEF SessionStep, Moves, Carries, Answers
<1>c. QED
  BY <1>a, <1>b

LEMMA LoadStep ==
  ASSUME Typed, SessionInv, NEW r \in Requests, Load(r),
         \A k \in Keys : \A e \in live[k] : e.value \in SessionData
  PROVE  SessionStep(r)
<1>r. Known(r)
  BY TheRequest
<1>0. /\ pc[r] = "loading" /\ cookie[r] = "none"
      /\ ctx[r].id \in Requests /\ ctx[r].id \in Keys /\ pc[ctx[r].id] = "done" /\ ctx[r].id # r
      /\ ~ctx[r].isNew /\ ~ctx[r].isDirty /\ ~ctx[r].isDestroyed /\ ~ctx[r].replaced
  BY WasAt, SessionAssumption DEF Load, ContextAt
<1>1. /\ now' = now /\ live' = live /\ jar' = jar /\ cookie' = cookie /\ overlaps' = overlaps
      /\ pc' = [pc EXCEPT ![r] = "running"]
      /\ reply' = {e.value : e \in live[ctx[r].id]}
  BY DEF Load, Get, GoTo
<1>2. PICK stored \in reply' \cup {[data |-> {}, expires |-> 0]} :
        /\ reply' # {} => stored \in reply'
        /\ ctx' = [ctx EXCEPT ![r] = IF stored.expires > now
                                     THEN [@ EXCEPT !.data = stored.data, !.expires = stored.expires]
                                     ELSE CreateNewSession(r)]
  BY DEF Load
<1>3. cookie' = [cookie EXCEPT ![r] = "none"]
  BY <1>r, <1>0, <1>1 DEF Known
<1>a. CASE stored.expires > now
  <2>1. stored \in reply'
    <3>1. CASE reply' = {}
      <4>1. stored = [data |-> {}, expires |-> 0]
        BY <1>2, <3>1
      <4>2. stored.expires = 0
        BY <4>1
      <4>3. QED
        BY <1>r, <4>2, <1>a DEF Known
    <3>2. QED
      BY <1>2, <3>1
  <2>2. PICK e \in live[ctx[r].id] : stored = e.value
    BY <1>1, <2>1
  <2>3. stored.data \subseteq Requests /\ stored.expires \in Nat
    BY <1>0, <2>2 DEF SessionData
  <2> DEFINE c == [ctx[r] EXCEPT !.data = stored.data, !.expires = stored.expires]
  <2>5. ctx' = [ctx EXCEPT ![r] = c]
    BY <1>2, <1>a
  <2>6. c \in Contexts
    BY <1>r, <2>3 DEF Known, Contexts
  <2>7. c.id = ctx[r].id /\ c.data = stored.data /\ ~c.isNew /\ ~c.isDirty /\ ~c.isDestroyed /\ ~c.replaced
    BY <1>r, <1>0 DEF Known, Contexts
  <2> HIDE DEF c
  <2>8. ContextAt(r, "running", c, "none")
    BY <1>0, <2>7, SessionAssumption DEF ContextAt
  <2>9. /\ pc'[r] = "running" /\ ctx'[r] = c /\ cookie'[r] = "none"
        /\ ContextInv(r)' /\ JarInv' /\ jar' \in [id : Requests \cup {Nobody}, until : Nat]
    BY Settles, <1>0, <1>1, <1>3, <2>5, <2>6, <2>8
  <2>10. QED
    BY <1>0, <1>1, <1>3, <2>2, <2>5, <2>6, <2>7, <2>9 DEF SessionStep, Moves, Carries, Answers, Meets
<1>b. CASE ~(stored.expires > now)
  <2> DEFINE c == CreateNewSession(r)
  <2>1. ctx' = [ctx EXCEPT ![r] = c]
    BY <1>2, <1>b
  <2>2. c \in Contexts /\ c.id = r /\ ~c.isDirty
    BY <1>r, NewContext DEF Known
  <2> HIDE DEF c
  <2>3. ContextAt(r, "running", c, "none")
    BY <1>r, <2>2 DEF Known, ContextAt
  <2>4. /\ pc'[r] = "running" /\ ctx'[r] = c /\ cookie'[r] = "none"
        /\ ContextInv(r)' /\ JarInv' /\ jar' \in [id : Requests \cup {Nobody}, until : Nat]
    BY Settles, <1>0, <1>1, <1>3, <2>1, <2>2, <2>3
  <2>5. QED
    BY <1>0, <1>1, <1>3, <2>1, <2>2, <2>4 DEF SessionStep, Moves, Carries, Answers, Meets
<1>c. QED
  BY <1>a, <1>b

LEMMA HandlerStep ==
  ASSUME Typed, SessionInv, NEW r \in Requests, Change(r) \/ DestroySession(r)
  PROVE  SessionStep(r)
<1>r. Known(r)
  BY TheRequest
<1>w. pc[r] # "new" => ctx[r].id \in Requests /\ ContextAt(r, pc[r], ctx[r], cookie[r])
  BY WasAt
<1>0. pc[r] = "running" /\ cookie[r] = "none" /\ ContextAt(r, "running", ctx[r], "none")
  BY <1>w, <1>r DEF Change, DestroySession, ContextAt, Known
<1>1. /\ now' = now /\ live' = live /\ jar' = jar /\ cookie' = cookie /\ overlaps' = overlaps
      /\ pc' = [pc EXCEPT ![r] = "running"] /\ cookie' = [cookie EXCEPT ![r] = "none"]
  BY <1>r, <1>0 DEF Known, Change, DestroySession, storeVars
<1>2. PICK c \in Contexts :
        /\ ctx' = [ctx EXCEPT ![r] = c]
        /\ c.id = ctx[r].id /\ c.isNew = ctx[r].isNew /\ c.isDirty
        /\ ctx[r].isDestroyed => c.isDestroyed
        /\ ctx[r].replaced => c.replaced
        /\ r \in c.data \/ c.isDestroyed
        /\ ctx[r].data \subseteq c.data \/ c.replaced
  <2>a. CASE Change(r)
    <3> DEFINE d == [ctx[r] EXCEPT !.data = ctx[r].data \cup {r}, !.isDirty = TRUE,
                                   !.renewed = ctx[r].isDestroyed]
               e == [ctx[r] EXCEPT !.data = {r}, !.isDirty = TRUE, !.replaced = TRUE,
                                   !.renewed = ctx[r].isDestroyed]
    <3>1. ctx' = [ctx EXCEPT ![r] = d] \/ ctx' = [ctx EXCEPT ![r] = e]
      <4>1. CASE ctx' = [ctx EXCEPT ![r].data = @ \cup {r}, ![r].isDirty = TRUE,
                                    ![r].renewed = ctx[r].isDestroyed]
        <5>1. ctx' = [ctx EXCEPT ![r] = d]
          BY <1>r, <4>1 DEF Known
        <5>2. QED
          BY <5>1
      <4>2. CASE ctx' = [ctx EXCEPT ![r].data = {r}, ![r].isDirty = TRUE, ![r].replaced = TRUE,
                                    ![r].renewed = ctx[r].isDestroyed]
        <5>1. ctx' = [ctx EXCEPT ![r] = e]
          BY <1>r, <4>2 DEF Known
        <5>2. QED
          BY <5>1
      <4>3. QED
        BY <4>1, <4>2, <2>a DEF Change
    <3>2. d \in Contexts /\ e \in Contexts
      <4>1. ctx[r] \in Contexts /\ ctx[r].data \cup {r} \in SUBSET Requests /\ {r} \in SUBSET Requests
        BY <1>r DEF Known
      <4>2. d \in Contexts
        BY <4>1 DEF Contexts
      <4>3. e \in Contexts
        BY <4>1 DEF Contexts
      <4>4. QED
        BY <4>2, <4>3
    <3>3. /\ d.id = ctx[r].id /\ d.isNew = ctx[r].isNew /\ d.isDirty
          /\ d.isDestroyed = ctx[r].isDestroyed /\ d.replaced = ctx[r].replaced
          /\ d.data = ctx[r].data \cup {r}
      BY <1>r DEF Known, Contexts
    <3>4. /\ e.id = ctx[r].id /\ e.isNew = ctx[r].isNew /\ e.isDirty
          /\ e.isDestroyed = ctx[r].isDestroyed /\ e.replaced
          /\ e.data = {r}
      BY <1>r DEF Known, Contexts
    <3> HIDE DEF d, e
    <3>5. CASE ctx' = [ctx EXCEPT ![r] = d]
      BY <3>2, <3>3, <3>5
    <3>6. CASE ctx' = [ctx EXCEPT ![r] = e]
      BY <3>2, <3>4, <3>6
    <3>7. QED
      BY <3>1, <3>5, <3>6
  <2>b. CASE DestroySession(r)
    <3> DEFINE d == [ctx[r] EXCEPT !.isDestroyed = TRUE, !.isDirty = TRUE, !.renewed = FALSE]
    <3>1. ctx' = [ctx EXCEPT ![r] = d]
      BY <1>r, <2>b DEF Known, DestroySession
    <3>2. d \in Contexts
      BY <1>r DEF Known, Contexts
    <3>3. QED
      BY <1>r, <3>1, <3>2 DEF Known, Contexts
  <2>c. QED
    BY <2>a, <2>b
<1>3. ContextAt(r, "running", c, "none")
  BY <1>0, <1>2 DEF ContextAt
<1>4. /\ pc'[r] = "running" /\ ctx'[r] = c /\ cookie'[r] = "none"
      /\ ContextInv(r)' /\ JarInv' /\ jar' \in [id : Requests \cup {Nobody}, until : Nat]
  BY Settles, <1>0, <1>1, <1>2, <1>3
<1>5. QED
  BY <1>0, <1>1, <1>2, <1>4 DEF SessionStep, Moves, Carries, Answers, Meets

LEMMA LeaveStep ==
  ASSUME Typed, SessionInv, NEW r \in Requests, Leave(r)
  PROVE  SessionStep(r)
<1>r. Known(r)
  BY TheRequest
<1>w. pc[r] # "new" => ctx[r].id \in Requests /\ ContextAt(r, pc[r], ctx[r], cookie[r])
  BY WasAt
<1>0. pc[r] = "running" /\ cookie[r] = "none" /\ ContextAt(r, "running", ctx[r], "none")
  BY <1>w, <1>r DEF Leave, ContextAt, Known
<1>1. /\ now' = now /\ live' = live /\ jar' = jar /\ overlaps' = overlaps
      /\ cookie' = [cookie EXCEPT ![r] = "none"]
  BY <1>r, <1>0 DEF Known, Leave, storeVars, Sends
<1>2. PICK c \in Contexts, p \in {"saving", "deleting", "sent"} :
        /\ ctx' = [ctx EXCEPT ![r] = c] /\ pc' = [pc EXCEPT ![r] = p]
        /\ c.id = ctx[r].id /\ c.isNew = ctx[r].isNew /\ c.isDirty = ctx[r].isDirty
        /\ c.isDestroyed = ctx[r].isDestroyed /\ c.replaced = ctx[r].replaced
        /\ c.data = ctx[r].data
        /\ p = "deleting" => c.isDestroyed
        /\ p = "saving" => ~c.isDestroyed /\ (c.isDirty \/ c.isNew) /\ c.expires = now + SessionTtl
  <2> DEFINE d == [ctx[r] EXCEPT !.expires = now + SessionTtl]
  <2>1. d \in Contexts
    BY <1>r, Numbers DEF Known, Contexts
  <2>2. ctx[r] \in Contexts /\ [ctx EXCEPT ![r] = ctx[r]] = ctx
    BY <1>r DEF Known
  <2>3. \/ ctx[r].isDestroyed /\ pc' = [pc EXCEPT ![r] = "deleting"] /\ ctx' = ctx
        \/ /\ ~ctx[r].isDestroyed /\ (ctx[r].isDirty \/ ctx[r].isNew)
           /\ pc' = [pc EXCEPT ![r] = "saving"]
           /\ ctx' = [ctx EXCEPT ![r].expires = now + SessionTtl]
        \/ pc' = [pc EXCEPT ![r] = "sent"] /\ ctx' = ctx
    BY DEF Leave, GoTo, Sends
  <2>4. [ctx EXCEPT ![r].expires = now + SessionTtl] = [ctx EXCEPT ![r] = d]
    BY <1>r DEF Known
  <2>5. /\ d.id = ctx[r].id /\ d.isNew = ctx[r].isNew /\ d.isDirty = ctx[r].isDirty
        /\ d.isDestroyed = ctx[r].isDestroyed /\ d.replaced = ctx[r].replaced
        /\ d.data = ctx[r].data /\ d.expires = now + SessionTtl
    BY <1>r DEF Known, Contexts
  <2> HIDE DEF d
  <2>6. CASE ctx[r].isDestroyed /\ pc' = [pc EXCEPT ![r] = "deleting"] /\ ctx' = ctx
    BY <2>2, <2>6
  <2>7. CASE pc' = [pc EXCEPT ![r] = "sent"] /\ ctx' = ctx
    BY <2>2, <2>7
  <2>8. CASE /\ ~ctx[r].isDestroyed /\ (ctx[r].isDirty \/ ctx[r].isNew)
             /\ pc' = [pc EXCEPT ![r] = "saving"]
             /\ ctx' = [ctx EXCEPT ![r] = d]
    BY <2>1, <2>5, <2>8
  <2>9. QED
    BY <2>3, <2>4, <2>6, <2>7, <2>8
<1>3. ContextAt(r, p, c, "none")
  BY <1>r, Numbers, <1>0, <1>2 DEF Known, ContextAt
<1>4. /\ pc'[r] = p /\ ctx'[r] = c /\ cookie'[r] = "none"
      /\ ContextInv(r)' /\ JarInv' /\ jar' \in [id : Requests \cup {Nobody}, until : Nat]
  BY Settles, <1>0, <1>1, <1>2, <1>3
<1>5. QED
  BY <1>0, <1>1, <1>2, <1>4 DEF SessionStep, Moves, Carries, Answers, Meets

LEMMA StoreStep ==
  ASSUME Typed, SessionInv, NEW r \in Requests, Save(r) \/ Delete(r) \/ StoreFails(r)
  PROVE  SessionStep(r)
<1>r. Known(r)
  BY TheRequest
<1>w. pc[r] # "new" => ctx[r].id \in Requests /\ ContextAt(r, pc[r], ctx[r], cookie[r])
  BY WasAt
<1>0. /\ pc[r] \in {"loading", "saving", "deleting"}
      /\ now' = now /\ jar' = jar /\ overlaps' = overlaps
      /\ pc' = [pc EXCEPT ![r] = "sent"] /\ ctx' = [ctx EXCEPT ![r] = ctx[r]]
      /\ ContextAt(r, pc[r], ctx[r], cookie[r])
  BY <1>w, <1>r DEF Known, Save, Delete, StoreFails, Sends, GoTo, Set, Del, storeVars
<1>1. \/ Saves(r) /\ cookie' = [cookie EXCEPT ![r] = "set"]
      \/ Deletes(r) /\ cookie' = [cookie EXCEPT ![r] = "delete"]
      \/ /\ Saves(r) \/ Deletes(r) \/ live' = live
         /\ cookie' = [cookie EXCEPT ![r] = "none"]
  <2>1. pc'[r] = "sent"
    BY <1>r, <1>0 DEF Known
  <2>2. QED
    BY <2>1, MadeEntry DEF Save, Delete, StoreFails, Sends, Set, Del, Saves, Deletes, storeVars
<1>2. PICK k \in {"none", "set", "delete"} :
        /\ cookie' = [cookie EXCEPT ![r] = k]
        /\ Saves(r) \/ Deletes(r) \/ live' = live
        /\ k = "set" => Saves(r)
        /\ k = "delete" => Deletes(r)
  BY <1>1
<1>3. ContextAt(r, "sent", ctx[r], k)
  BY <1>r, <1>0, <1>2 DEF Known, ContextAt, Saves
<1>s. ctx[r] \in Contexts /\ pc[r] # "done"
  BY <1>r, <1>0 DEF Known
<1>4. /\ pc'[r] = "sent" /\ ctx'[r] = ctx[r] /\ cookie'[r] = k
      /\ ContextInv(r)' /\ JarInv' /\ jar' \in [id : Requests \cup {Nobody}, until : Nat]
  <2>1. PICK c \in Contexts : c = ctx[r]
    BY <1>s
  <2>2. ctx' = [ctx EXCEPT ![r] = c] /\ ContextAt(r, "sent", c, k)
    BY <1>0, <1>3, <2>1
  <2>3. now' = now /\ pc[r] # "done" /\ pc' = [pc EXCEPT ![r] = "sent"]
    BY <1>0, <1>s
  <2>4. cookie' = [cookie EXCEPT ![r] = k]
    BY <1>2
  <2>5. /\ pc'[r] = "sent" /\ ctx'[r] = c /\ cookie'[r] = k
        /\ ContextInv(r)'
        /\ jar' = jar => JarInv' /\ jar' \in [id : Requests \cup {Nobody}, until : Nat]
    BY Settles, <2>2, <2>3, <2>4
  <2>6. QED
    BY <1>0, <2>1, <2>5
<1>5. QED
  BY <1>r, <1>0, <1>2, <1>4 DEF Known, SessionStep, Moves, Carries, Answers, Meets

LEMMA ReceiveStep ==
  ASSUME Typed, SessionInv, NEW r \in Requests, Receive(r)
  PROVE  SessionStep(r)
<1>r. Known(r)
  BY TheRequest
<1>w. pc[r] # "new" => ctx[r].id \in Requests /\ ContextAt(r, pc[r], ctx[r], cookie[r])
  BY WasAt
<1>0. /\ pc[r] = "sent" /\ ctx[r].id \in Requests
      /\ ctx[r].id # r => pc[ctx[r].id] = "done"
      /\ ContextAt(r, "sent", ctx[r], cookie[r])
  BY <1>w, <1>r DEF Receive, ContextAt, Known
<1>1. /\ now' = now /\ live' = live /\ overlaps' = overlaps
      /\ ctx' = [ctx EXCEPT ![r] = ctx[r]] /\ cookie' = [cookie EXCEPT ![r] = cookie[r]]
      /\ pc' = [pc EXCEPT ![r] = "done"]
  BY <1>r DEF Known, Receive, storeVars, GoTo
<1>2. ContextAt(r, "done", ctx[r], cookie[r])
  BY <1>0 DEF ContextAt
<1>3. /\ pc'[r] = "done" /\ ctx'[r] = ctx[r] /\ cookie'[r] = cookie[r]
      /\ ContextInv(r)'
  <2>1. ctx[r] \in Contexts /\ cookie[r] \in {"none", "set", "delete"} /\ pc[r] # "done"
    BY <1>r, <1>0 DEF Known
  <2>2. PICK c \in Contexts, k \in {"none", "set", "delete"} : c = ctx[r] /\ k = cookie[r]
    BY <2>1
  <2>3. /\ ctx' = [ctx EXCEPT ![r] = c] /\ cookie' = [cookie EXCEPT ![r] = k]
        /\ ContextAt(r, "done", c, k)
    BY <1>1, <1>2, <2>2
  <2>4. now' = now /\ pc[r] # "done" /\ pc' = [pc EXCEPT ![r] = "done"]
    BY <1>1, <2>1
  <2>5. /\ pc'[r] = "done" /\ ctx'[r] = c /\ cookie'[r] = k
        /\ ContextInv(r)'
    <3>1. /\ pc'[r] = "done" /\ ctx'[r] = c /\ cookie'[r] = k
          /\ ContextInv(r)'
          /\ jar' = jar => JarInv' /\ jar' \in [id : Requests \cup {Nobody}, until : Nat]
      BY Settles, <2>3, <2>4
    <3>2. QED
      BY <3>1
  <2>6. QED
    BY <2>2, <2>5
<1>4. \/ jar' = [id |-> ctx[r].id, until |-> now + SessionTtl]
      \/ jar' = [id |-> Nobody, until |-> 0]
      \/ jar' = jar
  BY DEF Receive
<1>5. jar' \in [id : Requests \cup {Nobody}, until : Nat]
  BY <1>r, Numbers, <1>0, <1>4 DEF Known
<1>6. \A q \in Requests : pc[q] = "done" => pc'[q] = "done"
  BY <1>r, <1>1 DEF Known
<1>7. jar'.id # Nobody => pc'[jar'.id] = "done"
  <2>1. jar'.id = ctx[r].id \/ jar'.id = Nobody \/ (jar' = jar /\ jar'.id = jar.id)
    BY <1>4
  <2>2. QED
    BY <2>1, <1>0, <1>3, <1>6, <1>r DEF Known, JarInv, SessionInv
<1>8. QED
  BY <1>r, <1>0, <1>1, <1>3, <1>5, <1>7 DEF Known, SessionStep, Moves, Carries, Answers, Meets, JarInv

(* What one step of r does to the others: nothing, except that they meet.  *)
After(r) ==
  /\ \A q \in Requests \ {r} : pc'[q] = pc[q] /\ ctx'[q] = ctx[q] /\ cookie'[q] = cookie[q]
  /\ \A q \in Requests : pc[q] = "done" => pc'[q] = "done"
  /\ \A q \in Requests : overlaps[q] \subseteq overlaps'[q]
  /\ \A q \in Requests : pc[q] \notin {"new", "loading"} =>
       /\ pc'[q] \notin {"new", "loading"}
       /\ ctx'[q].id = ctx[q].id
       /\ ctx[q].isNew => ctx'[q].isNew
       /\ ctx[q].isDirty => ctx'[q].isDirty
       /\ ctx[q].isDestroyed => ctx'[q].isDestroyed
       /\ ctx[q].replaced => ctx'[q].replaced

LEMMA StepLeaves ==
  ASSUME Typed, SessionInv, NEW r \in Requests, SessionStep(r)
  PROVE  /\ After(r)
         /\ pc' \in [Requests -> {"new", "loading", "running", "saving", "deleting", "sent", "done"}]
         /\ ctx' \in [Requests -> Contexts]
         /\ cookie' \in [Requests -> {"none", "set", "delete"}]
         /\ overlaps' \in [Requests -> SUBSET Requests]
<1>r. Known(r)
  BY TheRequest
<1>1. /\ pc' \in [Requests -> {"new", "loading", "running", "saving", "deleting", "sent", "done"}]
      /\ \A q \in Requests \ {r} : pc'[q] = pc[q]
  BY <1>r DEF Known, SessionStep, Moves
<1>2. /\ ctx' \in [Requests -> Contexts]
      /\ \A q \in Requests \ {r} : ctx'[q] = ctx[q]
  BY <1>r DEF Known, SessionStep, Moves
<1>3. /\ cookie' \in [Requests -> {"none", "set", "delete"}]
      /\ \A q \in Requests \ {r} : cookie'[q] = cookie[q]
  BY <1>r DEF Known, SessionStep, Moves
<1>4. InFlight \subseteq Requests /\ overlaps \in [Requests -> SUBSET Requests]
  BY DEF InFlight, Typed
<1>5. overlaps' \in [Requests -> SUBSET Requests]
  BY <1>4 DEF SessionStep, Meets
<1>6. \A q \in Requests : overlaps[q] \subseteq overlaps'[q]
  <2>1. CASE overlaps' = overlaps
    BY <2>1
  <2>2. CASE pc[r] = "new"
    <3>1. overlaps[r] = {}
      BY <2>2 DEF SessionInv, ContextInv
    <3>2. overlaps' = [q \in Requests |-> IF q = r THEN InFlight
                                          ELSE IF q \in InFlight THEN overlaps[q] \cup {r}
                                          ELSE overlaps[q]]
      BY <2>2 DEF SessionStep, Meets
    <3>3. QED
      BY <3>1, <3>2
  <2>3. QED
    BY <2>1, <2>2 DEF SessionStep, Meets
<1>7. pc[r] # "done"
  BY DEF SessionStep, Moves
<1>8. pc[r] \notin {"new", "loading"} =>
       /\ pc'[r] \notin {"new", "loading"}
       /\ ctx'[r].id = ctx[r].id
       /\ ctx[r].isNew => ctx'[r].isNew
       /\ ctx[r].isDirty => ctx'[r].isDirty
       /\ ctx[r].isDestroyed => ctx'[r].isDestroyed
       /\ ctx[r].replaced => ctx'[r].replaced
  BY DEF SessionStep, Moves
<1>10. After(r)
  BY <1>1, <1>2, <1>3, <1>6, <1>7, <1>8 DEF After
<1>11. QED
  BY <1>1, <1>2, <1>3, <1>5, <1>10

(* The requests with the session of q stay with it, and it with theirs.    *)
LEMMA CompanyStays ==
  ASSUME NEW r \in Requests, After(r), NEW q \in Requests, pc[q] \notin {"new", "loading"}
  PROVE  /\ Met(q) \subseteq Met(q)'
         /\ \A x \in Sharing(q) : pc[x] \notin {"new", "loading"} => x \in Sharing(q)'
         /\ \A x \in Sharing(q)' : x # r => x \in Sharing(q)
         /\ \A x \in Sharing(q)' : pc[x] \notin {"new", "loading"} => x \in Sharing(q)
<1>1. /\ \A x \in Sharing(q) : pc[x] \notin {"new", "loading"} => x \in Sharing(q)'
      /\ \A x \in Sharing(q)' : x # r => x \in Sharing(q)
      /\ \A x \in Sharing(q)' : pc[x] \notin {"new", "loading"} => x \in Sharing(q)
  BY DEF After, Sharing
<1>2. Met(q) \subseteq Met(q)'
  BY <1>1 DEF After, Met, Overlapping, Sharing
<1>3. QED
  BY <1>1, <1>2

(* Only sessions that a request has are destroyed or changed.              *)
LEMMA FlagsAreLoaded ==
  ASSUME SessionInv, NEW q \in Requests
  PROVE  ctx[q].isNew \/ ctx[q].isDirty \/ ctx[q].isDestroyed \/ ctx[q].replaced =>
           pc[q] \notin {"new", "loading"}
  BY DEF SessionInv, ContextInv

(* A request that gets a session for itself has it alone.                  *)
LEMMA NewIsAlone ==
  ASSUME SessionInv, NEW r \in Requests, NEW q \in Requests, q # r, pc[r] # "done"
  PROVE  ctx[q].id # r
  BY SessionAssumption DEF SessionInv, ContextInv

LEMMA ContextStays ==
  ASSUME Typed, SessionInv, NEW r \in Requests, SessionStep(r), After(r)
  PROVE  (\A q \in Requests : ContextInv(q))'
<1>1. SUFFICES ASSUME NEW q \in Requests, q # r
               PROVE  ContextInv(q)'
  BY DEF SessionStep
<1>2. pc'[q] = pc[q] /\ ctx'[q] = ctx[q] /\ cookie'[q] = cookie[q] /\ now' = now
  BY <1>1 DEF After, SessionStep, Moves
<1>3. ContextInv(q)
  BY DEF SessionInv
<1>4. ctx[q].id \notin {q, Nobody} => pc'[ctx[q].id] = "done"
  BY <1>1, <1>3, WasAt DEF After, ContextInv
<1>o. pc[q] = "new" => overlaps'[q] = {}
  BY <1>1, <1>3 DEF SessionStep, Meets, ContextInv, InFlight
<1>5. QED
  BY <1>2, <1>3, <1>4, <1>o DEF ContextInv, Answered

LEMMA OverlapsStay ==
  ASSUME Typed, SessionInv, NEW r \in Requests, SessionStep(r), After(r)
  PROVE  OverlapsInv'
<1>1. SUFFICES ASSUME NEW q \in InFlight', NEW x \in InFlight', q # x
               PROVE  q \in overlaps'[x]
  BY DEF OverlapsInv
<1>2. q \in Requests /\ x \in Requests
  BY DEF InFlight
<1>3. \A y \in Requests \ {r} : y \in InFlight' => y \in InFlight
  BY DEF After, InFlight
<1>4. OverlapsInv
  BY DEF SessionInv
<1>a. CASE pc[r] = "new"
  <2>1. overlaps' = [p \in Requests |-> IF p = r THEN InFlight
                                        ELSE IF p \in InFlight THEN overlaps[p] \cup {r}
                                        ELSE overlaps[p]]
    BY <1>a DEF SessionStep, Meets
  <2>2. CASE x = r
    BY <1>1, <1>2, <1>3, <2>1, <2>2
  <2>3. CASE q = r
    BY <1>1, <1>2, <1>3, <2>1, <2>3
  <2>4. CASE q # r /\ x # r
    BY <1>1, <1>2, <1>3, <1>4, <2>4 DEF OverlapsInv, After
  <2>5. QED
    BY <2>2, <2>3, <2>4
<1>b. CASE pc[r] # "new"
  <2>1. r \in InFlight' => r \in InFlight
    BY <1>b DEF SessionStep, Meets, Moves, Answers, InFlight
  <2>2. QED
    BY <1>1, <1>2, <1>3, <1>4, <2>1 DEF OverlapsInv, After
<1>c. QED
  BY <1>a, <1>b

(* An entry of the store, as it is and after a step.                       *)
LEMMA StoreStays ==
  ASSUME Typed, StoreInv, SessionInv, NEW r \in Requests, SessionStep(r),
         \A k \in Keys : \A e \in live[k] : e.value \in SessionData
  PROVE  /\ live' = [k \in Keys |-> live'[k]]
         /\ StoreInv'
         /\ \A k \in Keys : \A e \in live'[k] : e.value \in SessionData
<1>r. Known(r)
  BY TheRequest
<1>0. (pc[r] # "new" => ctx[r].id \in Keys) /\ live = [k \in Keys |-> live[k]] /\ now' = now
  BY <1>r, WasAt, SessionAssumption DEF Typed, SessionStep, Moves
<1>a. CASE live' = live
  BY <1>0, <1>a DEF StoreInv
<1>b. CASE Saves(r)
  <2> DEFINE e == [value |-> Stored(r), until |-> {now + SessionTtl}]
  <2>1. live' = [live EXCEPT ![ctx[r].id] = {e}]
    BY <1>b DEF Saves
  <2>2. Stored(r) \in SessionData
    BY <1>r DEF Known, Stored, SessionData
  <2>3. e.value \in SessionData /\ e.until = {now + SessionTtl} /\ e = [value |-> e.value, until |-> {now + SessionTtl}]
    BY <2>2
  <2>4. now + SessionTtl \in Nat /\ now + SessionTtl >= now
    BY <1>r, Numbers DEF Known
  <2> HIDE DEF e
  <2>5. live' = [k \in Keys |-> live'[k]]
    BY <1>0, <1>b, <2>1 DEF Saves
  <2>6. \A k \in Keys : live'[k] = {e} \/ live'[k] = live[k]
    BY <1>0, <1>b, <2>1 DEF Saves
  <2>7. \A k \in Keys : \A d \in live'[k] : d.value \in SessionData
    BY <2>3, <2>6
  <2>8. StoreInv'
    BY <1>0, <2>3, <2>4, <2>6 DEF StoreInv
  <2>9. QED
    BY <2>5, <2>7, <2>8
<1>c. CASE Deletes(r)
  <2>1. live' = [live EXCEPT ![ctx[r].id] = {}]
    BY <1>c DEF Deletes
  <2>2. live' = [k \in Keys |-> live'[k]]
    BY <1>0, <1>c, <2>1 DEF Deletes
  <2>3. \A k \in Keys : live'[k] = {} \/ live'[k] = live[k]
    BY <1>0, <1>c, <2>1 DEF Deletes
  <2>4. QED
    BY <1>0, <2>2, <2>3 DEF StoreInv
<1>d. QED
  BY <1>a, <1>b, <1>c DEF SessionStep

(* What a session holds that was stored before: the step of a request that *)
(* shares it keeps that, or makes it known that it did not.                *)
LEMMA KeptByCarriers ==
  ASSUME Typed, StoreInv, SessionInv, NEW r \in Requests, SessionStep(r), After(r),
         NEW q \in Requests, pc[q] \in {"sent", "done"}, ctx'[q] = ctx[q],
         NEW e \in live[ctx[q].id], Kept(q, e)
  PROVE  Kept(q, e)'
<1>1. CASE ~ctx[q].isDirty
  BY <1>1 DEF Kept
<1>2. CASE Met(q) # {}
  BY <1>2, CompanyStays DEF Kept
<1>3. CASE \E x \in Sharing(q) : ctx[x].replaced
  <2>1. PICK x \in Sharing(q) : ctx[x].replaced
    BY <1>3
  <2>2. x \in Requests /\ pc[x] \notin {"new", "loading"}
    BY <2>1, FlagsAreLoaded DEF Sharing
  <2>3. x \in Sharing(q)' /\ ctx'[x].replaced
    BY <2>1, <2>2, CompanyStays DEF After
  <2>4. QED
    BY <2>3 DEF Kept
<1>4. CASE /\ q \in e.value.data
           /\ \A x \in Sharing(q) : pc[x] \in {"running", "saving"} => q \in ctx[x].data
           /\ ~(\E x \in Sharing(q)' : ctx'[x].replaced)
  <2>1. SUFFICES ASSUME NEW x \in Sharing(q)', pc'[x] \in {"running", "saving"}
                 PROVE  q \in ctx'[x].data
    BY <1>4 DEF Kept
  <2>2. x \in Requests /\ x # q
    BY DEF Sharing
  <2>3. CASE x # r
    BY <1>4, <2>1, <2>2, <2>3, CompanyStays DEF After
  <2>4. CASE x = r
    <3>1. ctx'[r].id = ctx[q].id
      BY <2>4 DEF Sharing
    <3>2. ctx'[r].id # r
      BY <2>2, <2>4, <3>1, NewIsAlone DEF SessionStep, Moves
    <3>3. ~ctx'[r].replaced
      BY <1>4, <2>4
    <3>4. CASE /\ pc[r] = "loading" /\ ctx'[r].id = ctx[r].id
               /\ \E d \in live[ctx[r].id] : ctx'[r].data = d.value.data
      <4>1. PICK d \in live[ctx[r].id] : ctx'[r].data = d.value.data
        BY <3>4
      <4>2. ctx[r].id \in Keys
        BY <3>4, WasAt, SessionAssumption
      <4>3. d = e
        BY <3>1, <3>4, <4>1, <4>2 DEF StoreInv
      <4>4. QED
        BY <1>4, <2>4, <4>1, <4>3
    <3>5. CASE /\ pc[r] = "running" /\ ctx'[r].id = ctx[r].id
               /\ ctx[r].data \subseteq ctx'[r].data \/ ctx'[r].replaced
      <4>1. r \in Sharing(q)
        BY <2>2, <2>4, <3>1, <3>5 DEF Sharing
      <4>2. QED
        BY <1>4, <2>4, <3>3, <3>5, <4>1
    <3>6. QED
      BY <2>1, <2>4, <3>2, <3>4, <3>5 DEF SessionStep, Carries
  <2>5. QED
    BY <2>3, <2>4
<1>5. CASE \E x \in Sharing(q)' : ctx'[x].replaced
  BY <1>5 DEF Kept
<1>6. QED
  BY <1>1, <1>2, <1>3, <1>4, <1>5 DEF Kept

(* What was saved stays saved, whoever moves.                              *)
LEMMA SavedStays ==
  ASSUME Typed, StoreInv, SessionInv, NEW r \in Requests, SessionStep(r), After(r), NEW q \in Requests
  PROVE  SavedInv(q)'
<1>r. Known(r) /\ Known(q)
  BY TheRequest
<1>1. SUFFICES ASSUME Answered(q, "set")', now' < ctx'[q].expires,
                      ~ \E x \in Sharing(q)' : ctx'[x].isDestroyed
               PROVE  \E e \in live'[ctx'[q].id] : Kept(q, e)'
  BY DEF SavedInv
<1>2. now' = now
  BY DEF SessionStep, Moves
<1>a. CASE q = r /\ cookie'[r] = "set" /\ Saves(r)
  <2> DEFINE e == [value |-> Stored(r), until |-> {now + SessionTtl}]
  <2>1. /\ pc[r] = "saving" /\ pc'[r] = "sent" /\ ctx'[r].id = ctx[r].id
        /\ live' = [live EXCEPT ![ctx[r].id] = {e}]
        /\ ctx[r].id \in Keys
    BY <1>a, WasAt, SessionAssumption DEF Saves, SessionStep, Moves
  <2>2. e \in live'[ctx'[q].id]
    BY <1>a, <2>1 DEF Typed
  <2>3. ctx'[r] \in Contexts /\ ContextInv(r)' /\ ContextInv(r)
    BY DEF SessionStep, SessionInv
  <2>4. ctx' [r].expires <= now + SessionTtl
    BY <1>1, <1>2, <1>a, <2>3 DEF ContextInv
  <2>x. ctx'[r] = ctx[r] /\ ~ctx[r].isDestroyed
    BY <2>1, <2>3 DEF SessionStep, Moves, ContextInv
  <2>5. \A t \in e.until : t >= ctx'[r].expires
    BY <2>4, <1>r, Numbers, <2>3 DEF Known, Contexts
  <2>6. CASE ~ctx'[r].isDirty
    BY <1>a, <2>2, <2>5, <2>6 DEF Kept
  <2>7. CASE ctx'[r].isDirty
    <3>1. r \in e.value.data
      BY <2>3, <2>7, <2>x DEF ContextInv, Stored
    <3>2. CASE \A x \in Sharing(r)' : pc'[x] \in {"running", "saving"} => r \in ctx'[x].data
      BY <1>a, <2>2, <2>5, <3>1, <3>2 DEF Kept
    <3>3. CASE \E x \in Sharing(r)' : pc'[x] \in {"running", "saving"}
      <4>1. PICK x \in Sharing(r)' : pc'[x] \in {"running", "saving"}
        BY <3>3
      <4>2. x \in Requests /\ x # r /\ pc[x] \in {"running", "saving"}
        BY <4>1 DEF Sharing, After
      <4>3. x \in InFlight /\ r \in InFlight
        BY <2>1, <4>2 DEF InFlight
      <4>4. x \in overlaps'[r]
        BY <4>2, <4>3 DEF SessionInv, OverlapsInv, After
      <4>5. x \in Met(r)'
        BY <4>1, <4>4 DEF Met, Overlapping, Sharing
      <4>6. QED
        BY <1>a, <2>2, <2>5, <4>5 DEF Kept
    <3>4. QED
      BY <3>2, <3>3
  <2>8. QED
    BY <2>6, <2>7
<1>b. CASE pc[q] \in {"sent", "done"} /\ cookie[q] = "set" /\ ctx'[q] = ctx[q]
  <2>1. Answered(q, "set") /\ now < ctx[q].expires
    BY <1>1, <1>2, <1>b DEF Answered
  <2>2. ~ \E x \in Sharing(q) : ctx[x].isDestroyed
    BY <1>1, <1>b, FlagsAreLoaded, CompanyStays DEF After, Sharing
  <2>3. PICK e \in live[ctx[q].id] : Kept(q, e)
    BY <2>1, <2>2 DEF SessionInv, SavedInv
  <2>4. Kept(q, e)'
    BY <1>b, <2>3, KeptByCarriers
  <2>5. ctx[q].id \in Keys
    BY <1>b, WasAt, SessionAssumption
  <2>6. CASE live'[ctx[q].id] = live[ctx[q].id]
    BY <1>b, <2>3, <2>4, <2>6
  <2>7. CASE ctx[r].id = ctx[q].id /\ (Saves(r) \/ Deletes(r))
    <3>1. r # q /\ pc[r] \in {"saving", "deleting"}
      BY <1>b, <2>7 DEF Saves, Deletes
    <3>2. r \in Sharing(q) /\ r \in Sharing(q)' /\ ctx'[r].id = ctx[r].id
      BY <2>7, <3>1, <1>b DEF Sharing, SessionStep, Moves
    <3>3. ~ctx[r].isDestroyed
      BY <2>2, <3>2
    <3>4. Saves(r)
      BY <2>7, <3>3 DEF SessionInv, ContextInv, Deletes
    <3> DEFINE d == [value |-> Stored(r), until |-> {now + SessionTtl}]
    <3>5. d \in live'[ctx[q].id]
      BY <2>5, <2>7, <3>4 DEF Saves, Typed
    <3>6. \A t \in d.until : t >= ctx'[q].expires
      BY <1>b, <1>r, <2>1, Numbers DEF SessionInv, ContextInv, Known
    <3>7. ~ctx[q].isDirty \/ Met(q)' # {} \/ (\E x \in Sharing(q)' : ctx'[x].replaced)
            \/ (q \in d.value.data
                /\ \A x \in Sharing(q)' : pc'[x] \in {"running", "saving"} => q \in ctx'[x].data)
      <4>1. d.value.data = ctx[r].data
        BY DEF Stored
      <4>2. pc[r] = "saving"
        BY <3>4 DEF Saves
      <4>3. q \in e.value.data /\ (\A x \in Sharing(q) : pc[x] \in {"running", "saving"} => q \in ctx[x].data)
              => q \in d.value.data
        BY <3>2, <4>1, <4>2
      <4>4. Met(q) \subseteq Met(q)'
        BY <1>b, CompanyStays
      <4>5. (\E x \in Sharing(q) : ctx[x].replaced) => \E x \in Sharing(q)' : ctx'[x].replaced
        BY <1>b, FlagsAreLoaded, CompanyStays DEF After, Sharing
      <4> HIDE DEF d
      <4>6. QED
        BY <1>b, <2>3, <2>4, <4>3, <4>4, <4>5 DEF Kept
    <3>8. QED
      BY <1>b, <3>5, <3>6, <3>7 DEF Kept
  <2>8. QED
    BY <2>5, <2>6, <2>7 DEF SessionStep, Saves, Deletes, Typed
<1>c. CASE q # r
  BY <1>1, <1>b, <1>c DEF After, Answered
<1>d. CASE q = r
  <2>1. pc'[r] \in {"sent", "done"} /\ cookie'[r] = "set"
    BY <1>1, <1>d DEF Answered
  <2>2. pc[r] \in {"sent", "done"} /\ cookie'[r] = cookie[r] => pc[r] = "sent" /\ ctx'[r] = ctx[r]
    BY DEF SessionStep, Moves
  <2>3. QED
    BY <1>a, <1>b, <1>d, <2>1, <2>2 DEF SessionStep, Answers
<1>e. QED
  BY <1>c, <1>d

(* What was destroyed stays so, whoever moves.                             *)
LEMMA DestroyedStays ==
  ASSUME Typed, StoreInv, SessionInv, NEW r \in Requests, SessionStep(r), After(r), NEW q \in Requests
  PROVE  DestroyedInv(q)'
<1>r. Known(r) /\ Known(q)
  BY TheRequest
<1>1. SUFFICES ASSUME Answered(q, "delete")',
                      \/ live'[ctx'[q].id] # {}
                      \/ \E x \in Sharing(q)' \ overlaps'[q] : pc'[x] \in {"running", "saving"}
               PROVE  \E x \in Met(q)' : ctx'[x].isDirty \/ ctx'[x].isNew
  BY DEF DestroyedInv
<1>a. CASE q = r /\ cookie'[r] = "delete" /\ Deletes(r)
  <2>1. /\ pc[r] = "deleting" /\ ctx'[r].id = ctx[r].id /\ ctx[r].id \in Keys
        /\ live' = [live EXCEPT ![ctx[r].id] = {}]
    BY <1>a, WasAt, SessionAssumption DEF Deletes, SessionStep, Moves
  <2>2. live'[ctx'[q].id] = {}
    BY <1>a, <2>1 DEF Typed
  <2>3. PICK x \in Sharing(r)' \ overlaps'[r] : pc'[x] \in {"running", "saving"}
    BY <1>1, <1>a, <2>2
  <2>4. x \in Requests /\ x # r /\ pc[x] \in {"running", "saving"}
    BY <2>3 DEF Sharing, After
  <2>5. x \in InFlight /\ r \in InFlight
    BY <2>1, <2>4 DEF InFlight
  <2>6. x \in overlaps'[r]
    BY <2>4, <2>5 DEF SessionInv, OverlapsInv, After
  <2>7. QED
    BY <2>3, <2>6
<1>b. CASE pc[q] \in {"sent", "done"} /\ cookie[q] = "delete" /\ ctx'[q] = ctx[q]
  <2>1. Answered(q, "delete")
    BY <1>b DEF Answered
  <2>2. ctx[q].id \in Keys
    BY <1>b, WasAt, SessionAssumption
  <2>3. CASE \E x \in Met(q) : ctx[x].isDirty \/ ctx[x].isNew
    BY <1>b, <2>3, CompanyStays DEF After, Met, Overlapping, Sharing
  <2>4. CASE /\ live[ctx[q].id] = {}
             /\ \A x \in Sharing(q) \ overlaps[q] : pc[x] \notin {"running", "saving"}
    <3>1. CASE live'[ctx[q].id] # {}
      <4>1. Saves(r) /\ ctx[r].id = ctx[q].id /\ r # q
        BY <1>b, <2>2, <2>4, <3>1 DEF SessionStep, Saves, Deletes, Typed
      <4>2. r \in Sharing(q) /\ pc[r] = "saving"
        BY <4>1 DEF Sharing, Saves
      <4>3. r \in Met(q) /\ (ctx[r].isDirty \/ ctx[r].isNew)
        BY <2>4, <4>2 DEF Met, Overlapping, SessionInv, ContextInv
      <4>4. QED
        BY <1>b, <4>3, CompanyStays DEF After, Met, Overlapping, Sharing
    <3>2. CASE \E x \in Sharing(q)' \ overlaps'[q] : pc'[x] \in {"running", "saving"}
      <4>1. PICK x \in Sharing(q)' \ overlaps'[q] : pc'[x] \in {"running", "saving"}
        BY <3>2
      <4>2. x \in Requests /\ x # q /\ x \notin overlaps[q]
        BY <4>1 DEF Sharing, After
      <4>3. CASE x # r
        BY <1>b, <2>4, <4>1, <4>2, <4>3, CompanyStays DEF After
      <4>4. CASE x = r
        <5>1. ctx'[r].id = ctx[q].id
          BY <1>b, <4>1, <4>4 DEF Sharing
        <5>2. ctx'[r].id # r
          BY <4>2, <4>4, <5>1, NewIsAlone DEF SessionStep, Moves
        <5>3. ctx'[r].id = ctx[r].id /\ pc[r] \in {"loading", "running"}
          BY <4>1, <4>4, <5>2 DEF SessionStep, Carries
        <5>4. CASE pc[r] = "loading"
          BY <2>4, <4>1, <4>4, <5>1, <5>2, <5>3, <5>4 DEF SessionStep, Carries
        <5>5. CASE pc[r] = "running"
          BY <2>4, <4>2, <4>4, <5>1, <5>3, <5>5 DEF Sharing
        <5>6. QED
          BY <5>3, <5>4, <5>5
      <4>5. QED
        BY <4>3, <4>4
    <3>3. QED
      BY <1>1, <1>b, <3>1, <3>2
  <2>5. QED
    BY <2>1, <2>3, <2>4 DEF SessionInv, DestroyedInv
<1>c. CASE q # r
  BY <1>1, <1>b, <1>c DEF After, Answered
<1>d. CASE q = r
  <2>1. pc'[r] \in {"sent", "done"} /\ cookie'[r] = "delete"
    BY <1>1, <1>d DEF Answered
  <2>2. pc[r] \in {"sent", "done"} /\ cookie'[r] = cookie[r] => pc[r] = "sent" /\ ctx'[r] = ctx[r]
    BY DEF SessionStep, Moves
  <2>3. QED
    BY <1>a, <1>b, <1>d, <2>1, <2>2 DEF SessionStep, Answers
<1>e. QED
  BY <1>c, <1>d

(* A step below the session middleware keeps the invariant.                *)
LEMMA SessionKeeps ==
  ASSUME WebInv, NEW r \in Requests, InSession(r)
  PROVE  WebInv'
<1>1. Typed /\ StoreInv /\ ApartInv /\ SessionInv /\ LimitInv
  BY DEF WebInv
<1>2. NoLimit
  BY DEF InSession, NoLimit
<1>3. \A k \in Keys : \A e \in live[k] : e.value \in SessionData
  BY <1>1, <1>2 DEF ApartInv
<1>4. SessionStep(r)
  BY <1>1, <1>3, SendStep, LoadStep, HandlerStep, LeaveStep, StoreStep, ReceiveStep DEF InSession
<1>5. /\ After(r)
      /\ pc' \in [Requests -> {"new", "loading", "running", "saving", "deleting", "sent", "done"}]
      /\ ctx' \in [Requests -> Contexts]
      /\ cookie' \in [Requests -> {"none", "set", "delete"}]
      /\ overlaps' \in [Requests -> SUBSET Requests]
  BY <1>1, <1>4, StepLeaves
<1>6. /\ live' = [k \in Keys |-> live'[k]]
      /\ StoreInv'
      /\ \A k \in Keys : \A e \in live'[k] : e.value \in SessionData
  BY <1>1, <1>3, <1>4, StoreStays
<1>7. SessionInv'
  <2>1. JarInv' /\ OverlapsInv' /\ (\A q \in Requests : ContextInv(q))'
    BY <1>1, <1>4, <1>5, OverlapsStay, ContextStays DEF SessionStep
  <2>2. \A q \in Requests : SavedInv(q)' /\ DestroyedInv(q)'
    BY <1>1, <1>4, <1>5, SavedStays, DestroyedStays
  <2>3. QED
    BY <2>1, <2>2 DEF SessionInv
<1>8. failureMode' = failureMode /\ verdict' = verdict /\ hitAt' = hitAt /\ resetAt' = resetAt
  BY DEF InSession, limitVars
<1>9. Typed'
  BY <1>1, <1>4, <1>5, <1>6, <1>8 DEF Typed, SessionStep, Moves, LimitTypeOK
<1>10. NoLimit' /\ ~NoSessions'
  BY <1>2, <1>4, <1>8 DEF NoLimit, NoSessions, SessionStep
<1>11. ApartInv'
  BY <1>6, <1>10 DEF ApartInv
<1>12. LimitInv'
  <2>1. HitsInv'
    BY <1>1, <1>2, <1>8 DEF LimitInv, HitsInv, NoLimit
  <2>2. \A q \in Requests : DeniedInv(q)'
    BY <1>2, <1>8 DEF NoLimit, DeniedInv
  <2>3. QED
    BY <1>10, <2>1, <2>2 DEF LimitInv
<1>13. QED
  BY <1>6, <1>7, <1>9, <1>11, <1>12 DEF WebInv

-----------------------------------------------------------------------------
(* One step of a request under the limit *)

(* Those whose hit was counted are finitely many.                          *)
LEMMA HitsAreFinite ==
  ASSUME HitsInv, NEW t, NEW verdicts, "none" \notin verdicts
  PROVE  /\ IsFiniteSet(HitsSince(t, verdicts))
         /\ Cardinality(HitsSince(t, verdicts)) \in Nat
<1>1. HitsSince(t, verdicts) \in SUBSET {r \in Requests : verdict[r] # "none"}
  BY DEF HitsSince
<1>2. IsFiniteSet(HitsSince(t, verdicts))
  BY <1>1, FS_Subset DEF HitsInv
<1>3. QED
  BY <1>2, FS_CardinalityType

(* The longer ago, the more.                                               *)
LEMMA HitsSinceEarlier ==
  ASSUME HitsInv, NEW t \in Int, NEW u \in Int, t <= u, NEW verdicts, "none" \notin verdicts,
         hitAt \in [Requests -> SUBSET Nat]
  PROVE  Cardinality(HitsSince(u, verdicts)) <= Cardinality(HitsSince(t, verdicts))
<1>1. HitsSince(u, verdicts) \in SUBSET HitsSince(t, verdicts)
  BY DEF HitsSince
<1>2. QED
  BY <1>1, FS_Subset, HitsAreFinite

(* A hit of r, which may be counted.                                       *)
HitStep(r, v, counted) ==
  /\ now' = now /\ failureMode' = failureMode /\ resetAt' = resetAt
  /\ verdict' = [verdict EXCEPT ![r] = v]
  /\ hitAt' = IF counted THEN [hitAt EXCEPT ![r] = {now}] ELSE hitAt

LEMMA OneHit ==
  ASSUME Typed, HitsInv, NEW r \in Requests, verdict[r] = "none",
         NEW v \in {"allowed", "denied", "open", "unavailable"}, NEW counted \in BOOLEAN,
         HitStep(r, v, counted)
  PROVE  /\ IsFiniteSet({q \in Requests : verdict[q] # "none"})'
         /\ \A q \in Requests \ {r} : verdict'[q] = verdict[q] /\ hitAt'[q] = hitAt[q]
         /\ verdict'[r] = v
         /\ hitAt[r] = {} /\ hitAt'[r] = IF counted THEN {now} ELSE {}
         /\ now \in Nat
<1>1. /\ verdict \in [Requests -> {"none", "allowed", "denied", "open", "unavailable"}]
      /\ hitAt \in [Requests -> SUBSET Nat] /\ now \in Nat
  BY TimeAssumption DEF Typed, LimitTypeOK
<1>2. hitAt[r] = {}
  BY DEF HitsInv
<1>3. verdict'[r] = v /\ \A q \in Requests \ {r} : verdict'[q] = verdict[q]
  BY <1>1 DEF HitStep
<1>4. hitAt'[r] = (IF counted THEN {now} ELSE {}) /\ \A q \in Requests \ {r} : hitAt'[q] = hitAt[q]
  BY <1>1, <1>2 DEF HitStep
<1>5. {q \in Requests : verdict'[q] # "none"} = {q \in Requests : verdict[q] # "none"} \cup {r}
  BY <1>3
<1>6. IsFiniteSet({q \in Requests : verdict'[q] # "none"})
  BY <1>5, FS_AddElement DEF HitsInv
<1>7. QED
  BY <1>1, <1>2, <1>3, <1>4, <1>6

LEMMA MoreHits ==
  ASSUME Typed, HitsInv, NEW r \in Requests, verdict[r] = "none",
         NEW v \in {"allowed", "denied", "open", "unavailable"}, NEW counted \in BOOLEAN,
         HitStep(r, v, counted),
         NEW t \in Int, NEW verdicts \in SUBSET {"allowed", "denied", "open", "unavailable"}
  PROVE  HitsSince(t, verdicts)' =
           IF counted /\ v \in verdicts /\ now >= t THEN HitsSince(t, verdicts) \cup {r}
           ELSE HitsSince(t, verdicts)
<1>1. /\ \A q \in Requests \ {r} : verdict'[q] = verdict[q] /\ hitAt'[q] = hitAt[q]
      /\ verdict'[r] = v
      /\ hitAt[r] = {} /\ hitAt'[r] = IF counted THEN {now} ELSE {}
  BY OneHit
<1>2. \A q \in Requests \ {r} : q \in HitsSince(t, verdicts)' <=> q \in HitsSince(t, verdicts)
  BY <1>1 DEF HitsSince
<1>3. r \notin HitsSince(t, verdicts)
  BY <1>1 DEF HitsSince
<1>4. r \in HitsSince(t, verdicts)' <=> counted /\ v \in verdicts /\ now >= t
  BY <1>1 DEF HitsSince
<1>5. HitsSince(t, verdicts)' \subseteq Requests /\ HitsSince(t, verdicts) \subseteq Requests
  BY DEF HitsSince
<1>6. QED
  BY <1>2, <1>3, <1>4, <1>5

(* So the numbers of hits grow by one, if at all.                          *)
Grows(t, verdicts, more) ==
  /\ Cardinality(HitsSince(t, verdicts)) \in Nat
  /\ Cardinality(HitsSince(t, verdicts))' =
       Cardinality(HitsSince(t, verdicts)) + (IF more THEN 1 ELSE 0)

LEMMA HitsGrow ==
  ASSUME Typed, HitsInv, NEW r \in Requests, verdict[r] = "none",
         NEW v \in {"allowed", "denied", "open", "unavailable"}, NEW counted \in BOOLEAN,
         HitStep(r, v, counted),
         NEW t \in Int, NEW verdicts \in SUBSET {"allowed", "denied", "open", "unavailable"}
  PROVE  Grows(t, verdicts, counted /\ v \in verdicts /\ now >= t)
<1>1. HitsSince(t, verdicts)' =
         IF counted /\ v \in verdicts /\ now >= t THEN HitsSince(t, verdicts) \cup {r}
         ELSE HitsSince(t, verdicts)
  BY MoreHits
<1>2. "none" \notin verdicts
  OBVIOUS
<1>3. IsFiniteSet(HitsSince(t, verdicts)) /\ Cardinality(HitsSince(t, verdicts)) \in Nat
  BY <1>2, HitsAreFinite
<1>4. r \notin HitsSince(t, verdicts)
  BY <1>2 DEF HitsSince
<1>5. Cardinality(HitsSince(t, verdicts) \cup {r}) = Cardinality(HitsSince(t, verdicts)) + 1
  BY <1>3, <1>4, FS_AddElement
<1>6. CASE counted /\ v \in verdicts /\ now >= t
  BY <1>1, <1>3, <1>5, <1>6 DEF Grows
<1>7. CASE ~(counted /\ v \in verdicts /\ now >= t)
  BY <1>1, <1>3, <1>7 DEF Grows
<1>8. QED
  BY <1>6, <1>7

(* While no request has a session there is nothing to keep.                *)
LEMMA SessionsIdle ==
  ASSUME SessionInv, NoSessions, UNCHANGED sessionVars
  PROVE  SessionInv'
<1>1. jar' = jar /\ pc' = pc /\ ctx' = ctx /\ cookie' = cookie /\ overlaps' = overlaps
  BY DEF sessionVars
<1>2. JarInv' /\ OverlapsInv'
  BY <1>1 DEF SessionInv, JarInv, OverlapsInv, InFlight
<1>3. ASSUME NEW r \in Requests
      PROVE  ContextInv(r)' /\ SavedInv(r)' /\ DestroyedInv(r)'
  <2>1. ContextInv(r) /\ pc[r] = "new"
    BY DEF SessionInv, NoSessions
  <2>2. ContextInv(r)'
    BY <1>1, <2>1 DEF ContextInv, Answered
  <2>3. SavedInv(r)' /\ DestroyedInv(r)'
    BY <1>1, <2>1 DEF SavedInv, DestroyedInv, Answered
  <2>4. QED
    BY <2>2, <2>3
<1>4. QED
  BY <1>2, <1>3 DEF SessionInv

(* A counter that was counted up.                                          *)
LEMMA CountsUp ==
  ASSUME Typed, StoreInv, ApartInv, NoSessions, Incr(Counter, 1, {Window})
  PROVE  /\ now' = now /\ live' = [k \in Keys |-> live'[k]]
         /\ \A k \in Keys \ {Counter} : live'[k] = live[k]
         /\ \E n \in Nat, u \in Nat :
              /\ live'[Counter] = {[value |-> n + 1, until |-> {u}]}
              /\ reply' = {n + 1}
              /\ u >= now
              /\ \/ n = 0 /\ u = now + Window /\ live[Counter] = {}
                 \/ live[Counter] = {[value |-> n, until |-> {u}]}
<1>0. Counter \in Keys /\ now \in Nat /\ live = [k \in Keys |-> live[k]]
  BY LimitAssumption, TimeAssumption DEF Typed
<1> DEFINE next == IF live[Counter] = {} THEN {MakeEntry(1, {Window})}
                   ELSE {Increased(e, 1) : e \in live[Counter]}
<1>1. /\ now' = now /\ live' = [live EXCEPT ![Counter] = next]
      /\ reply' = {e.value : e \in live'[Counter]}
  BY DEF Incr
<1> HIDE DEF next
<1>2. /\ live' = [k \in Keys |-> live'[k]]
      /\ \A k \in Keys \ {Counter} : live'[k] = live[k]
      /\ live'[Counter] = next
  BY <1>0, <1>1
<1>3. \E n \in Nat, u \in Nat :
        /\ next = {[value |-> n + 1, until |-> {u}]}
        /\ u >= now
        /\ \/ n = 0 /\ u = now + Window /\ live[Counter] = {}
           \/ live[Counter] = {[value |-> n, until |-> {u}]}
  <2>1. CASE live[Counter] = {}
    <3>1. next = {[value |-> 0 + 1, until |-> {now + Window}]}
      <4>1. MakeEntry(1, {Window}) = [value |-> 1, until |-> {now + Window}]
        BY MadeEntry
      <4>2. next = {[value |-> 1, until |-> {now + Window}]}
        BY <2>1, <4>1 DEF next
      <4>3. 0 + 1 = 1
        OBVIOUS
      <4>4. QED
        BY <4>2, <4>3
    <3>2. now + Window \in Nat /\ now + Window >= now /\ 0 \in Nat
      BY <1>0, Numbers
    <3>3. QED
      BY <2>1, <3>1, <3>2
  <2>2. CASE live[Counter] # {}
    <3>1. PICK e \in live[Counter] : TRUE
      BY <2>2
    <3>2. live[Counter] = {e} /\ e.value \in Nat
      BY <1>0, <3>1 DEF StoreInv, ApartInv
    <3>3. PICK u \in Nat : u >= now /\ e = [value |-> e.value, until |-> {u}]
      BY <1>0, <3>1 DEF StoreInv
    <3>4. e.until = {u}
      BY <3>3
    <3>5. next = {[value |-> e.value + 1, until |-> {u}]}
      BY <2>2, <3>2, <3>4 DEF next, Increased
    <3>6. QED
      BY <3>2, <3>3, <3>5
  <2>3. QED
    BY <2>1, <2>2
<1>4. PICK n \in Nat, u \in Nat :
        /\ next = {[value |-> n + 1, until |-> {u}]}
        /\ u >= now
        /\ \/ n = 0 /\ u = now + Window /\ live[Counter] = {}
           \/ live[Counter] = {[value |-> n, until |-> {u}]}
  BY <1>3
<1>5. reply' = {n + 1}
  <2> DEFINE d == [value |-> n + 1, until |-> {u}]
  <2>1. d.value = n + 1
    OBVIOUS
  <2>2. live'[Counter] = {d}
    BY <1>2, <1>4
  <2> HIDE DEF d
  <2>3. QED
    BY <1>1, <2>1, <2>2
<1>6. QED
  BY <1>1, <1>2, <1>4, <1>5

(* A counted hit leaves a counter that counts.                             *)
LEMMA CounterStays ==
  ASSUME Typed, HitsInv, NEW r \in Requests, verdict[r] = "none",
         NEW v \in {"allowed", "denied", "open", "unavailable"}, HitStep(r, v, TRUE),
         NEW n \in Nat, NEW u \in Nat, u >= now,
         \/ n = 0 /\ u = now + Window /\ live[Counter] = {}
         \/ CounterInv([value |-> n, until |-> {u}], u),
         v = "allowed" => n + 1 <= Limit,
         v = "denied" => n + 1 > Limit
  PROVE  /\ CounterInv([value |-> n + 1, until |-> {u}], u)'
         /\ DeniedInv(r)'
<1>0. /\ now \in Nat /\ now' = now /\ resetAt' = resetAt
      /\ Window \in Nat /\ Window > 0 /\ Limit \in Nat /\ Limit > 0
      /\ hitAt \in [Requests -> SUBSET Nat]
  BY Numbers, TimeAssumption DEF Typed, LimitTypeOK, HitStep
<1> DEFINE A(t) == Cardinality(HitsSince(t, {"allowed"}))
           S(t) == Cardinality(HitsSince(t, Served))
           J(t) == Cardinality(HitsSince(t, Judged))
<1>1. u - Window \in Int /\ now - Window \in Int
  BY <1>0
<1>2. /\ {"allowed"} \in SUBSET {"allowed", "denied", "open", "unavailable"}
      /\ Served \in SUBSET {"allowed", "denied", "open", "unavailable"}
      /\ "none" \notin Served
      /\ v \in Served <=> v # "denied"
      /\ Judged \in SUBSET {"allowed", "denied", "open", "unavailable"}
      /\ "none" \notin Judged /\ v \in Judged
  BY DEF Served, Judged
<1>3. /\ Grows(u - Window, {"allowed"}, TRUE /\ v \in {"allowed"} /\ now >= u - Window)
      /\ Grows(u - Window, Served, TRUE /\ v \in Served /\ now >= u - Window)
      /\ Grows(u - Window, Judged, TRUE /\ v \in Judged /\ now >= u - Window)
      /\ Grows(now - Window, Served, TRUE /\ v \in Served /\ now >= now - Window)
  BY <1>1, <1>2, HitsGrow
<1>4. /\ A(u - Window) \in Nat /\ S(u - Window) \in Nat /\ S(now - Window) \in Nat
      /\ J(u - Window) \in Nat
      /\ now >= u - Window => J(u - Window)' = J(u - Window) + 1
      /\ now >= u - Window =>
           /\ A(u - Window)' = A(u - Window) + (IF v = "allowed" THEN 1 ELSE 0)
           /\ S(u - Window)' = S(u - Window) + (IF v # "denied" THEN 1 ELSE 0)
      /\ v = "denied" => S(now - Window)' = S(now - Window)
  BY <1>2, <1>3 DEF Grows
<1>5. S(u - Window) <= S(now - Window)
  <2>1. now - Window <= u - Window
    BY <1>0
  <2>2. QED
    BY <1>0, <1>1, <1>2, <2>1, HitsSinceEarlier
<1>6. resetAt = {} /\ live[Counter] = {} => A(now) = 0
  <2>1. resetAt = {} /\ live[Counter] = {} => HitsSince(now, {"allowed"}) = {}
    BY <1>0 DEF HitsInv, HitsSince
  <2>2. QED
    BY <2>1, FS_EmptySet
<1>7. u <= now + Window
  BY <1>0 DEF CounterInv
<1>8. n = 0 /\ u = now + Window => u - Window = now
  BY <1>0
<1> HIDE DEF A, S, J
<1>9. /\ J(u - Window)' >= n + 1
      /\ resetAt = {} => A(u - Window)' <= n + 1 /\ A(u - Window)' <= Limit
      /\ S(u - Window)' >= n + 1 \/ S(u - Window)' >= Limit
      /\ v = "denied" => S(now - Window)' >= Limit
  <2>1. CASE n = 0 /\ u = now + Window /\ live[Counter] = {}
    BY <1>0, <1>4, <1>5, <1>6, <1>7, <1>8, <2>1
  <2>2. CASE CounterInv([value |-> n, until |-> {u}], u)
    <3>1. /\ n <= J(u - Window)
          /\ resetAt = {} => A(u - Window) <= n /\ A(u - Window) <= Limit
          /\ S(u - Window) >= n \/ S(u - Window) >= Limit
      BY <2>2 DEF CounterInv, A, S, J
    <3>2. QED
      BY <1>0, <1>4, <1>5, <1>7, <3>1
  <2>3. QED
    BY <2>1, <2>2
<1>10. CounterInv([value |-> n + 1, until |-> {u}], u)'
  BY <1>0, <1>4, <1>7, <1>9 DEF CounterInv, A, S, J
<1>11. verdict'[r] = v /\ hitAt'[r] = {now}
  BY OneHit
<1>12. DeniedInv(r)'
  BY <1>0, <1>9, <1>11 DEF DeniedInv, S
<1>13. QED
  BY <1>10, <1>12

(* A step under the limit keeps the invariant.                             *)
LEMMA LimitKeeps ==
  ASSUME WebInv, NEW r \in Requests, UnderLimit(r)
  PROVE  WebInv'
<1>0. Typed /\ StoreInv /\ ApartInv /\ SessionInv /\ LimitInv /\ HitsInv
  BY DEF WebInv, LimitInv
<1>1. /\ NoSessions /\ verdict[r] = "none" /\ UNCHANGED sessionVars
      /\ Hit(r) \/ HitFails(r)
  BY DEF UnderLimit, NoSessions
<1>2. /\ jar' = jar /\ pc' = pc /\ ctx' = ctx /\ cookie' = cookie /\ overlaps' = overlaps
      /\ NoSessions'
  BY <1>1 DEF sessionVars, NoSessions
<1>3. SessionInv'
  BY <1>0, <1>1, SessionsIdle
<1>4. Counter \in Keys /\ now \in Nat
  BY <1>0, LimitAssumption, TimeAssumption DEF Typed
<1>5. /\ verdict \in [Requests -> {"none", "allowed", "denied", "open", "unavailable"}]
      /\ hitAt \in [Requests -> SUBSET Nat]
      /\ resetAt \subseteq Nat
  BY <1>0 DEF Typed, LimitTypeOK
(* What is left to show, once it is known what the hit did.                *)
<1>6. ASSUME NEW v \in {"allowed", "denied", "open", "unavailable"}, NEW counted \in BOOLEAN,
             HitStep(r, v, counted),
             v = "open" => failureMode # "closed",
             v = "unavailable" => failureMode = "closed",
             StoreInv', live' = [k \in Keys |-> live'[k]],
             \A e \in live'[Counter] : e.value \in Nat,
             counted => live'[Counter] # {},
             ~counted => live' = live,
             \A e \in live'[Counter] : \A u \in e.until : CounterInv(e, u)',
             DeniedInv(r)'
      PROVE  WebInv'
  <2>1. /\ IsFiniteSet({q \in Requests : verdict[q] # "none"})'
        /\ \A q \in Requests \ {r} : verdict'[q] = verdict[q] /\ hitAt'[q] = hitAt[q]
        /\ verdict'[r] = v
        /\ hitAt[r] = {} /\ hitAt'[r] = IF counted THEN {now} ELSE {}
    BY <1>0, <1>1, <1>6, OneHit
  <2>2. now' = now /\ failureMode' = failureMode /\ resetAt' = resetAt
    BY <1>6 DEF HitStep
  <2>3. HitsInv'
    BY <1>0, <1>4, <1>6, <2>1, <2>2 DEF HitsInv
  <2>4. ASSUME NEW q \in Requests, q # r
        PROVE  DeniedInv(q)'
    <3>1. verdict'[q] = verdict[q] /\ hitAt'[q] = hitAt[q] /\ DeniedInv(q)
      BY <1>0, <2>1, <2>4 DEF LimitInv
    <3>2. SUFFICES ASSUME verdict[q] = "denied", NEW t \in hitAt[q]
                   PROVE  Cardinality(HitsSince(t - Window, Served))' >= Limit
      BY <3>1 DEF DeniedInv
    <3>3. t \in Nat /\ t - Window \in Int /\ Limit \in Nat
      BY <1>5, Numbers
    <3>4. Served \in SUBSET {"allowed", "denied", "open", "unavailable"}
      BY DEF Served
    <3>5. Grows(t - Window, Served, counted /\ v \in Served /\ now >= t - Window)
      BY <1>0, <1>1, <1>6, <3>3, <3>4, HitsGrow
    <3>6. Cardinality(HitsSince(t - Window, Served)) >= Limit
      BY <3>1, <3>2 DEF DeniedInv
    <3>7. QED
      BY <3>3, <3>5, <3>6 DEF Grows
  <2>5. LimitInv'
    BY <1>6, <2>3, <2>4 DEF LimitInv
  <2>6. LimitTypeOK'
    <3>1. verdict' \in [Requests -> {"none", "allowed", "denied", "open", "unavailable"}]
      BY <1>5, <1>6 DEF HitStep
    <3>2. hitAt' \in [Requests -> SUBSET Nat]
      BY <1>4, <1>5, <1>6 DEF HitStep
    <3>3. /\ failureMode = "open" => \A q \in Requests : verdict'[q] # "unavailable"
          /\ failureMode = "closed" => \A q \in Requests : verdict'[q] # "open"
      BY <1>0, <1>6, <2>1 DEF Typed, LimitTypeOK
    <3>4. QED
      BY <1>5, <2>2, <3>1, <3>2, <3>3 DEF LimitTypeOK
  <2>7. Typed'
    BY <1>0, <1>2, <1>6, <2>2, <2>6 DEF Typed
  <2>8. ApartInv'
    BY <1>2, <1>6, <2>1 DEF ApartInv, NoLimit
  <2>9. QED
    BY <1>3, <1>6, <2>5, <2>7, <2>8 DEF WebInv
<1>7. CASE Counted(r)
  <2>1. Incr(Counter, 1, {Window}) /\ hitAt' = [hitAt EXCEPT ![r] = {now}]
    BY <1>7 DEF Counted
  <2>2. /\ now' = now /\ live' = [k \in Keys |-> live'[k]]
        /\ \A k \in Keys \ {Counter} : live'[k] = live[k]
        /\ \E n \in Nat, u \in Nat :
             /\ live'[Counter] = {[value |-> n + 1, until |-> {u}]}
             /\ reply' = {n + 1}
             /\ u >= now
             /\ \/ n = 0 /\ u = now + Window /\ live[Counter] = {}
                \/ live[Counter] = {[value |-> n, until |-> {u}]}
    BY <1>0, <1>1, <2>1, CountsUp
  <2>3. PICK n \in Nat, u \in Nat :
             /\ live'[Counter] = {[value |-> n + 1, until |-> {u}]}
             /\ reply' = {n + 1}
             /\ u >= now
             /\ \/ n = 0 /\ u = now + Window /\ live[Counter] = {}
                \/ live[Counter] = {[value |-> n, until |-> {u}]}
    BY <2>2
  <2> DEFINE before == [value |-> n, until |-> {u}]
             after == [value |-> n + 1, until |-> {u}]
  <2>4. PICK v \in {"allowed", "denied", "open", "unavailable"} :
          /\ HitStep(r, v, TRUE)
          /\ v = "allowed" => n + 1 <= Limit
          /\ v = "denied" => n + 1 > Limit
          /\ v = "open" => failureMode # "closed"
          /\ v = "unavailable" => failureMode = "closed"
    <3>1. failureMode' = failureMode /\ resetAt' = resetAt
      BY <1>1 DEF Hit, HitFails
    <3>2. CASE Hit(r)
      <4>1. verdict' = [verdict EXCEPT ![r] = BuildResult(n + 1)]
        BY <2>3, <3>2 DEF Hit
      <4>2. CASE n + 1 <= Limit
        BY <2>1, <2>2, <3>1, <4>1, <4>2 DEF BuildResult, HitStep
      <4>3. CASE ~(n + 1 <= Limit)
        BY Numbers, <2>1, <2>2, <3>1, <4>1, <4>3 DEF BuildResult, HitStep
      <4>4. QED
        BY <4>2, <4>3
    <3>3. CASE HitFails(r)
      BY <2>1, <2>2, <3>1, <3>3 DEF HitFails, HandleKVError, HitStep
    <3>4. QED
      BY <1>1, <3>2, <3>3
  <2>5. before.until = {u} /\ after.until = {u} /\ after.value = n + 1
    OBVIOUS
  <2>6. \/ n = 0 /\ u = now + Window /\ live[Counter] = {}
        \/ CounterInv(before, u)
    BY <1>0, <1>1, <2>3, <2>5 DEF LimitInv
  <2>7. CounterInv(after, u)' /\ DeniedInv(r)'
    BY <1>0, <1>1, <2>3, <2>4, <2>6, CounterStays
  <2>8. StoreInv'
    <3>1. \A k \in Keys \ {Counter} : live'[k] = live[k]
      BY <2>2
    <3>2. live'[Counter] = {after}
      BY <2>3
    <3>3. after = [value |-> after.value, until |-> {u}]
      OBVIOUS
    <3> HIDE DEF after
    <3>4. QED
      BY <1>0, <2>2, <2>3, <2>5, <3>1, <3>2, <3>3 DEF StoreInv
  <2>9. \A e \in live'[Counter] : e = after
    BY <2>3
  <2>10. live'[Counter] # {}
    BY <2>3
  <2> HIDE DEF before, after
  <2>11. (\A e \in live'[Counter] : e.value \in Nat) /\ \A e \in live'[Counter] : \A t \in e.until : CounterInv(e, t)'
    BY <2>5, <2>7, <2>9
  <2>12. QED
    BY <1>6, <2>2, <2>4, <2>7, <2>8, <2>10, <2>11
<1>8. CASE UNCHANGED <<storeVars, hitAt>> /\ HitFails(r)
  <2>1. now' = now /\ live' = live /\ hitAt' = hitAt /\ failureMode' = failureMode /\ resetAt' = resetAt
    BY <1>8 DEF storeVars, HitFails
  <2>2. PICK v \in {"open", "unavailable"} :
          /\ HitStep(r, v, FALSE)
          /\ v = "open" => failureMode # "closed"
          /\ v = "unavailable" => failureMode = "closed"
    BY <1>8, <2>1 DEF HitFails, HandleKVError, HitStep
  <2>3. DeniedInv(r)' /\ verdict'[r] = v
    BY <1>5, <2>2 DEF DeniedInv, HitStep
  <2>4. StoreInv' /\ live' = [k \in Keys |-> live'[k]]
    BY <1>0, <2>1 DEF StoreInv, Typed
  <2>5. \A e \in live'[Counter] : e.value \in Nat
    BY <1>0, <1>1, <2>1 DEF ApartInv
  <2>6. ASSUME NEW e \in live'[Counter], NEW u \in e.until
        PROVE  CounterInv(e, u)'
    <3>1. CounterInv(e, u)
      BY <1>0, <1>1, <2>1, <2>6 DEF LimitInv
    <3>2. u \in Nat /\ u - Window \in Int
      BY <1>0, <1>4, <2>1, <2>6, Numbers DEF StoreInv
    <3>3. \A verdicts \in SUBSET {"allowed", "denied", "open", "unavailable"} :
            HitsSince(u - Window, verdicts)' = HitsSince(u - Window, verdicts)
      <4>1. SUFFICES ASSUME NEW verdicts \in SUBSET {"allowed", "denied", "open", "unavailable"}
                     PROVE  HitsSince(u - Window, verdicts)' = HitsSince(u - Window, verdicts)
        OBVIOUS
      <4>2. hitAt[r] = {} /\ hitAt' = hitAt /\ \A q \in Requests \ {r} : verdict'[q] = verdict[q]
        BY <1>0, <1>1, <1>5, <2>1, <2>2 DEF HitsInv, HitStep
      <4>3. QED
        BY <4>2 DEF HitsSince
    <3>4. /\ HitsSince(u - Window, {"allowed"})' = HitsSince(u - Window, {"allowed"})
          /\ HitsSince(u - Window, Served)' = HitsSince(u - Window, Served)
          /\ HitsSince(u - Window, Judged)' = HitsSince(u - Window, Judged)
      BY <3>3 DEF Served, Judged
    <3>5. QED
      BY <2>1, <3>1, <3>4 DEF CounterInv
  <2>7. QED
    BY <1>6, <2>1, <2>2, <2>3, <2>4, <2>5, <2>6
<1>9. QED
  BY <1>1, <1>7, <1>8 DEF Hit, HitFails

-----------------------------------------------------------------------------
(* The other steps *)

LEMMA ResetKeeps ==
  ASSUME WebInv, ResetLimit
  PROVE  WebInv'
<1>0. Typed /\ StoreInv /\ ApartInv /\ SessionInv /\ LimitInv
  BY DEF WebInv
<1>1. NoSessions
  BY <1>0 DEF ResetLimit, NoSessions
<1>2. Counter \in Keys /\ now \in Nat
  BY <1>0, LimitAssumption, TimeAssumption DEF Typed
<1>3. /\ now' = now /\ live' = [live EXCEPT ![Counter] = {}]
      /\ failureMode' = failureMode /\ verdict' = verdict /\ hitAt' = hitAt
      /\ resetAt' = {now}
      /\ UNCHANGED sessionVars
  BY DEF ResetLimit, Reset, Del
<1>4. /\ live' = [k \in Keys |-> live'[k]]
      /\ live'[Counter] = {}
      /\ \A k \in Keys : live'[k] = {} \/ live'[k] = live[k]
  BY <1>0, <1>2, <1>3 DEF Typed
<1>5. jar' = jar /\ pc' = pc /\ ctx' = ctx /\ cookie' = cookie /\ overlaps' = overlaps
  BY <1>3 DEF sessionVars
<1>6. Typed'
  BY <1>0, <1>2, <1>3, <1>4, <1>5 DEF Typed, LimitTypeOK
<1>7. StoreInv'
  BY <1>0, <1>3, <1>4 DEF StoreInv
<1>8. ApartInv'
  BY <1>1, <1>3, <1>4, <1>5 DEF ApartInv, NoSessions, NoLimit
<1>9. SessionInv'
  BY <1>0, <1>1, <1>3, SessionsIdle
<1>10. LimitInv'
  <2>1. HitsInv'
    BY <1>0, <1>3 DEF LimitInv, HitsInv
  <2>2. \A r \in Requests : DeniedInv(r)'
    BY <1>0, <1>3 DEF LimitInv, DeniedInv, HitsSince
  <2>3. QED
    BY <1>4, <2>1, <2>2 DEF LimitInv
<1>11. QED
  BY <1>6, <1>7, <1>8, <1>9, <1>10 DEF WebInv

LEMMA TimeKeeps ==
  ASSUME WebInv, TimePasses
  PROVE  WebInv'
<1>0. Typed /\ StoreInv /\ ApartInv /\ SessionInv /\ LimitInv
  BY DEF WebInv
<1>1. /\ now \in Nat /\ now' = now + 1 /\ now' \in 0..MaxTime
      /\ UNCHANGED <<sessionVars, limitVars>>
  BY <1>0, TimeAssumption DEF TimePasses, Tick, Typed
<1>2. PICK gone \in SUBSET Keys :
       /\ \A k \in gone : \E e \in live[k] : \E t \in e.until : t <= now'
       /\ \A k \in Keys \ gone : \A e \in live[k] : \A t \in e.until : t >= now'
       /\ live' = [k \in Keys |-> IF k \in gone THEN {} ELSE live[k]]
  BY DEF TimePasses, Tick
<1>3. /\ jar' = jar /\ pc' = pc /\ ctx' = ctx /\ cookie' = cookie /\ overlaps' = overlaps
      /\ failureMode' = failureMode /\ verdict' = verdict /\ hitAt' = hitAt /\ resetAt' = resetAt
  BY <1>1 DEF sessionVars, limitVars
<1>4. /\ live' = [k \in Keys |-> live'[k]]
      /\ \A k \in Keys : live'[k] = {} \/ (live'[k] = live[k] /\ k \notin gone)
  BY <1>2
<1>5. Typed'
  BY <1>0, <1>1, <1>3, <1>4 DEF Typed, LimitTypeOK
<1>6. StoreInv'
  <2>1. ASSUME NEW k \in Keys
        PROVE  /\ \A d, e \in live'[k] : d = e
               /\ \A e \in live'[k] : \E t \in e.until :
                    t \in Nat /\ t >= now' /\ e = [value |-> e.value, until |-> {t}]
    BY <1>0, <1>2, <1>4 DEF StoreInv
  <2>2. QED
    BY <2>1 DEF StoreInv
<1>7. ApartInv'
  BY <1>0, <1>3, <1>4, LimitAssumption DEF ApartInv, NoSessions, NoLimit
<1>8. SessionInv'
  <2>1. JarInv' /\ OverlapsInv'
    BY <1>0, <1>3 DEF SessionInv, JarInv, OverlapsInv, InFlight
  <2>2. ASSUME NEW r \in Requests
        PROVE  ContextInv(r)' /\ SavedInv(r)' /\ DestroyedInv(r)'
    <3>1. Known(r) /\ ContextInv(r) /\ SavedInv(r) /\ DestroyedInv(r)
      BY <1>0, TheRequest DEF SessionInv
    <3>2. ctx[r].expires <= now + SessionTtl => ctx[r].expires <= now' + SessionTtl
      BY <1>1, <3>1, Numbers DEF Known
    <3>3. ContextInv(r)'
      BY <1>3, <3>1, <3>2 DEF ContextInv, Answered
    <3>4. pc[r] # "new" => ctx[r].id \in Keys
      BY <1>0, WasAt, SessionAssumption
    <3>5. /\ Sharing(r)' = Sharing(r) /\ Met(r)' = Met(r)
          /\ \A header : Answered(r, header)' <=> Answered(r, header)
      BY <1>3 DEF Sharing, Met, Overlapping, Answered
    <3>6. SavedInv(r)'
      <4>1. SUFFICES ASSUME Answered(r, "set"), now' < ctx[r].expires,
                            ~ \E q \in Sharing(r) : ctx[q].isDestroyed
                     PROVE  \E e \in live'[ctx[r].id] : Kept(r, e)'
        BY <1>3, <3>5 DEF SavedInv
      <4>2. now < ctx[r].expires
        BY <1>1, <3>1, <4>1 DEF Known
      <4>3. PICK e \in live[ctx[r].id] : Kept(r, e)
        BY <3>1, <4>1, <4>2 DEF SavedInv
      <4>4. pc[r] # "new" /\ ctx[r].id \in Keys
        BY <3>4, <4>1 DEF Answered
      <4>5. ctx[r].id \notin gone
        <5>1. SUFFICES ASSUME ctx[r].id \in gone PROVE FALSE
          OBVIOUS
        <5>2. PICK d \in live[ctx[r].id] : \E t \in d.until : t <= now'
          BY <1>2, <5>1
        <5>3. d = e
          BY <1>0, <4>3, <4>4, <5>2 DEF StoreInv
        <5>4. PICK t \in e.until : t <= now'
          BY <5>2, <5>3
        <5>5. t \in Nat /\ t >= ctx[r].expires
          BY <1>0, <4>3, <4>4, <5>4 DEF StoreInv, Kept
        <5>6. QED
          BY <1>1, <3>1, <4>1, <5>4, <5>5 DEF Known
      <4>6. e \in live'[ctx[r].id]
        BY <1>2, <4>3, <4>4, <4>5
      <4>7. Kept(r, e)'
        BY <1>3, <3>5, <4>3 DEF Kept
      <4>8. QED
        BY <4>6, <4>7
    <3>7. DestroyedInv(r)'
      <4>1. Answered(r, "delete") /\ live'[ctx[r].id] # {} => live[ctx[r].id] # {}
        BY <1>4, <3>4 DEF Answered
      <4>2. QED
        BY <1>3, <3>1, <3>5, <4>1 DEF DestroyedInv
    <3>8. QED
      BY <3>3, <3>6, <3>7
  <2>3. QED
    BY <2>1, <2>2 DEF SessionInv
<1>9. LimitInv'
  <2>0. hitAt \in [Requests -> SUBSET Nat] /\ Counter \in Keys /\ Window \in Nat
    BY <1>0, LimitAssumption, Numbers DEF Typed, LimitTypeOK
  <2>1. HitsInv'
    BY <1>0, <1>1, <1>3, <2>0 DEF LimitInv, HitsInv
  <2>2. \A r \in Requests : DeniedInv(r)'
    BY <1>0, <1>3 DEF LimitInv, DeniedInv, HitsSince
  <2>3. ASSUME NoSessions, NEW counter \in live'[Counter], NEW u \in counter.until
        PROVE  CounterInv(counter, u)'
    <3>1. counter \in live[Counter]
      BY <1>4, <2>0, <2>3
    <3>2. CounterInv(counter, u)
      BY <1>0, <2>3, <3>1 DEF LimitInv
    <3>3. u \in Nat
      BY <1>0, <2>0, <2>3, <3>1 DEF StoreInv
    <3>4. u <= now' + Window
      BY <1>1, <2>0, <3>2, <3>3 DEF CounterInv
    <3>5. \A t, verdicts : HitsSince(t, verdicts)' = HitsSince(t, verdicts)
      BY <1>3 DEF HitsSince
    <3>6. QED
      BY <1>3, <3>2, <3>4, <3>5 DEF CounterInv
  <2>4. QED
    BY <1>3, <2>1, <2>2, <2>3 DEF LimitInv, NoSessions
<1>10. QED
  BY <1>5, <1>6, <1>7, <1>8, <1>9 DEF WebInv

LEMMA WebStart ==
  ASSUME WebInit
  PROVE  WebInv
<1>1. /\ now = 0 /\ live = [k \in Keys |-> {}] /\ 0 \in 0..MaxTime
      /\ jar = [id |-> Nobody, until |-> 0]
      /\ pc = [r \in Requests |-> "new"]
      /\ ctx = [r \in Requests |-> NoContext]
      /\ cookie = [r \in Requests |-> "none"]
      /\ overlaps = [r \in Requests |-> {}]
      /\ failureMode \in {"open", "closed"}
      /\ verdict = [r \in Requests |-> "none"]
      /\ hitAt = [r \in Requests |-> {}]
      /\ resetAt = {}
  BY TimeAssumption DEF WebInit, Init, SessionsInit, LimitInit
<1>2. NoSessions /\ NoLimit
  BY <1>1 DEF NoSessions, NoLimit
<1>3. Counter \in Keys
  BY LimitAssumption
<1>4. Typed
  BY <1>1, EmptyContext DEF Typed, LimitTypeOK
<1>5. StoreInv
  BY <1>1 DEF StoreInv
<1>6. ApartInv
  BY <1>1, <1>2, <1>3 DEF ApartInv
<1>7. SessionInv
  <2>1. JarInv /\ OverlapsInv
    BY <1>1 DEF JarInv, OverlapsInv, InFlight
  <2>2. ASSUME NEW r \in Requests
        PROVE  ContextInv(r) /\ SavedInv(r) /\ DestroyedInv(r)
    <3>1. /\ pc[r] = "new" /\ ctx[r] = NoContext /\ cookie[r] = "none" /\ overlaps[r] = {}
          /\ ctx[r].id = Nobody /\ ~ctx[r].isNew /\ ~ctx[r].isDirty /\ ~ctx[r].isDestroyed
          /\ ~ctx[r].replaced
      BY <1>1 DEF NoContext
    <3>2. ContextInv(r)
      BY <3>1, SessionAssumption DEF ContextInv, Answered
    <3>3. SavedInv(r) /\ DestroyedInv(r)
      BY <3>1 DEF SavedInv, DestroyedInv, Answered
    <3>4. QED
      BY <3>2, <3>3
  <2>3. QED
    BY <2>1, <2>2 DEF SessionInv
<1>8. LimitInv
  <2>1. {r \in Requests : verdict[r] # "none"} = {}
    BY <1>1
  <2>2. HitsInv
    BY <1>1, <2>1, FS_EmptySet DEF HitsInv
  <2>3. QED
    BY <1>1, <1>3, <2>2 DEF LimitInv, DeniedInv
<1>9. QED
  BY <1>4, <1>5, <1>6, <1>7, <1>8 DEF WebInv

LEMMA WebStep ==
  ASSUME WebInv, [WebNext]_vars
  PROVE  WebInv'
<1>1. CASE \E r \in Requests : UnderLimit(r) \/ InSession(r)
  BY <1>1, LimitKeeps, SessionKeeps
<1>2. CASE ResetLimit
  BY <1>2, ResetKeeps
<1>3. CASE TimePasses
  BY <1>3, TimeKeeps
<1>4. CASE UNCHANGED vars
  <2>1. /\ now' = now /\ live' = live
        /\ jar' = jar /\ pc' = pc /\ ctx' = ctx /\ cookie' = cookie /\ overlaps' = overlaps
        /\ failureMode' = failureMode /\ verdict' = verdict /\ hitAt' = hitAt /\ resetAt' = resetAt
    BY <1>4 DEF vars, storeVars, sessionVars, limitVars
  <2>2. Typed' /\ StoreInv' /\ ApartInv'
    BY <2>1 DEF WebInv, Typed, LimitTypeOK, StoreInv, ApartInv, NoSessions, NoLimit
  <2>3. SessionInv'
    BY <2>1 DEF WebInv, SessionInv, JarInv, OverlapsInv, InFlight, ContextInv, SavedInv, DestroyedInv,
                Answered, Sharing, Overlapping, Met, Kept
  <2>4. LimitInv'
    <3>1. HitsInv'
      BY <2>1 DEF WebInv, LimitInv, HitsInv
    <3>2. (NoSessions => \A counter \in live[Counter] : \A u \in counter.until : CounterInv(counter, u))'
      BY <2>1 DEF WebInv, LimitInv, CounterInv, HitsSince, NoSessions
    <3>3. \A r \in Requests : DeniedInv(r)'
      BY <2>1 DEF WebInv, LimitInv, DeniedInv, HitsSince
    <3>4. QED
      BY <3>1, <3>2, <3>3 DEF LimitInv
  <2>5. QED
    BY <2>2, <2>3, <2>4 DEF WebInv
<1>5. QED
  BY <1>1, <1>2, <1>3, <1>4 DEF WebNext

LEMMA AlwaysInv == WebSpec => []WebInv
<1>1. WebInit => WebInv
  BY WebStart
<1>2. WebInv /\ [WebNext]_vars => WebInv'
  BY WebStep
<1>3. QED
  BY <1>1, <1>2, PTL DEF WebSpec

-----------------------------------------------------------------------------
(* What the web of requests keeps *)

(* The sessions, the cookies and the verdicts always have their types.     *)
THEOREM WebTypes == WebSpec => []WebTypeOK
<1>1. WebInv => WebTypeOK
  <2>1. SUFFICES ASSUME WebInv PROVE WebTypeOK
    OBVIOUS
  <2>2. Typed /\ SessionInv
    BY <2>1 DEF WebInv
  <2>3. jar.id \in Requests \cup {Nobody} /\ jar.until \in Nat
    BY <2>2 DEF Typed
  <2>4. \A r \in Requests :
          /\ ctx[r].id \in Requests \cup {Nobody} /\ ctx[r].data \subseteq Requests
          /\ ctx[r].isNew => ctx[r].id = r
    BY <2>2, TheRequest DEF Known, SessionInv, ContextInv
  <2>5. QED
    BY <2>2, <2>3, <2>4 DEF Typed, WebTypeOK, SessionTypeOK
<1>2. QED
  BY <1>1, AlwaysInv, PTL

(* A session that was saved is in the store until it is over, with the     *)
(* change that was saved, and one that was destroyed is not, except where  *)
(* requests with the same session overlapped, replaced or destroyed it:    *)
(* loadOrCreateSession() and getCookieHeader(), however they interleave.   *)
THEOREM SessionsStay == WebSpec => []SessionsKept
<1>1. WebInv => SessionsKept
  <2>1. SUFFICES ASSUME WebInv PROVE SessionsKept
    OBVIOUS
  <2>2. \A r \in Requests : SavedInv(r) /\ DestroyedInv(r)
    BY <2>1 DEF WebInv, SessionInv
  <2>3. \A r \in Requests : Met(r) \subseteq Overlapping(r)
    BY DEF Met
  <2>4. SavedIsKept
    <3>1. SUFFICES ASSUME NEW r \in Requests, Answered(r, "set"), now < ctx[r].expires,
                          ~ \E q \in Sharing(r) : ctx[q].isDestroyed
                   PROVE  \E e \in live[ctx[r].id] :
                            r \in e.value.data \/ ~ctx[r].isDirty \/ Overlapping(r) # {}
                              \/ \E q \in Sharing(r) : ctx[q].replaced
      BY DEF SavedIsKept
    <3>2. PICK e \in live[ctx[r].id] : Kept(r, e)
      BY <2>2, <3>1 DEF SavedInv
    <3>3. QED
      BY <2>3, <3>2 DEF Kept
  <2>5. DestroyedIsGone
    BY <2>2, <2>3 DEF DestroyedInv, DestroyedIsGone
  <2>6. QED
    BY <2>4, <2>5 DEF SessionsKept
<1>2. QED
  BY <1>1, AlwaysInv, PTL

(* While no reset() intervenes, no more requests than the limit are let    *)
(* through in the window of the counter, and none is denied unless as many *)
(* were served, or lost their answer, in the window before it; after the   *)
(* wait that he was told the counter has forgotten all hits up to his:     *)
(* hit(), however the hits, any failures of the store, resets and the      *)
(* expiry of the counter interleave.                                       *)
THEOREM LimitStays == WebSpec => []LimitHolds
<1>1. WebInv => LimitHolds
  <2>1. SUFFICES ASSUME WebInv PROVE LimitHolds
    OBVIOUS
  <2>2. ApartInv /\ LimitInv
    BY <2>1 DEF WebInv
  <2>3. ASSUME resetAt = {}, NEW counter \in live[Counter], NEW u \in counter.until
        PROVE  Cardinality(HitsSince(u - Window, {"allowed"})) <= Limit
    <3>1. CASE NoSessions
      BY <2>2, <2>3, <3>1 DEF LimitInv, CounterInv
    <3>2. CASE NoLimit
      <4>1. HitsSince(u - Window, {"allowed"}) = {}
        BY <3>2 DEF NoLimit, HitsSince
      <4>2. QED
        BY <4>1, FS_EmptySet, Numbers
    <3>3. QED
      BY <2>2, <3>1, <3>2 DEF ApartInv
  <2>4. \A r \in Requests : verdict[r] = "denied" =>
          \A t \in hitAt[r] : Cardinality(HitsSince(t - Window, Served)) >= Limit
    BY <2>2 DEF LimitInv, DeniedInv
  <2>5. ASSUME NEW r \in Requests, verdict[r] = "denied", NEW t \in hitAt[r], now > t + Window,
               NEW counter \in live[Counter]
        PROVE  counter.value <= Cardinality(HitsSince(t + 1, Judged))
    <3>1. NoSessions
      BY <2>2, <2>5 DEF ApartInv, NoLimit
    <3>2. /\ now \in Nat /\ hitAt \in [Requests -> SUBSET Nat] /\ Counter \in Keys
          /\ Window \in Nat /\ StoreInv
      BY <2>1, LimitAssumption, TimeAssumption, Numbers DEF WebInv, Typed, LimitTypeOK
    <3>3. PICK u \in counter.until : u \in Nat /\ u >= now
      BY <2>5, <3>2 DEF StoreInv
    <3>4. t \in Nat /\ t + 1 <= u - Window /\ u - Window \in Int /\ t + 1 \in Int
      BY <2>5, <3>2, <3>3
    <3>5. counter.value <= Cardinality(HitsSince(u - Window, Judged)) /\ counter.value \in Nat
      BY <2>2, <2>5, <3>1, <3>3 DEF LimitInv, CounterInv, ApartInv
    <3>6. "none" \notin Judged /\ HitsInv
      BY <2>2 DEF Judged, LimitInv
    <3>7. Cardinality(HitsSince(u - Window, Judged)) <= Cardinality(HitsSince(t + 1, Judged))
      BY <3>2, <3>4, <3>6, HitsSinceEarlier
    <3>8. /\ Cardinality(HitsSince(u - Window, Judged)) \in Nat
          /\ Cardinality(HitsSince(t + 1, Judged)) \in Nat
      BY <3>6, HitsAreFinite
    <3>9. QED
      BY <3>5, <3>7, <3>8
  <2>6. LetThrough = Served /\ LetThrough \cup {"denied"} = Judged
    BY DEF LetThrough, Served, Judged
  <2>7. QED
    BY <2>3, <2>4, <2>5, <2>6 DEF LimitHolds
<1>2. QED
  BY <1>1, AlwaysInv, PTL
=============================================================================
