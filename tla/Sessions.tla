------------------------------- MODULE Sessions -------------------------------
(***************************************************************************)
(* Sessions in an expiring store, as the requests of one browser load,     *)
(* change, destroy and save them.  The browser presents the cookie of the  *)
(* response that it received last; requests overlap, and responses arrive  *)
(* in any order.  A session is stored under the request that created it,   *)
(* which stands for its random id; its data is the set of requests whose   *)
(* changes it holds.                                                       *)
(***************************************************************************)
EXTENDS StoreClients

CONSTANTS
  Nobody,
  SessionTtl

ASSUME SessionAssumption ==
  /\ Requests \subseteq Keys
  /\ Nobody \notin Requests
  /\ SessionTtl \in Ttls

VARIABLES
  jar,        \* the cookie of the browser and the end of its Max-Age
  pc,         \* where SessionMiddleware.use() is
  ctx,        \* the SessionContext; replaced and renewed are history: setSession() was
              \* called, and the session was set or updated after destroySession()
  cookie,     \* Set-Cookie of the response: "none", "set" or "delete"
  overlaps    \* history: the requests that were in flight together with it

sessionVars == <<jar, pc, ctx, cookie, overlaps>>

NoContext == [id |-> Nobody, data |-> {}, expires |-> 0, isNew |-> FALSE, isDirty |-> FALSE,
              isDestroyed |-> FALSE, replaced |-> FALSE, renewed |-> FALSE]

SessionsInit ==
  /\ jar = [id |-> Nobody, until |-> 0]
  /\ pc = [r \in Requests |-> "new"]
  /\ ctx = [r \in Requests |-> NoContext]
  /\ cookie = [r \in Requests |-> "none"]
  /\ overlaps = [r \in Requests |-> {}]

InFlight == {r \in Requests : pc[r] \notin {"new", "sent", "done"}}

GoTo(r, where) == pc' = [pc EXCEPT ![r] = where]

(* The response goes out.                                                  *)
Sends(r, header) == GoTo(r, "sent") /\ cookie' = [cookie EXCEPT ![r] = header]

(* Mutant of CreateNewSession: the id that was presented is used again.    *)
CreateSameSession(r) ==
  [NoContext EXCEPT !.id = IF ctx[r].id = Nobody THEN r ELSE ctx[r].id,
                    !.expires = now + SessionTtl, !.isNew = TRUE]

(* createNewSession()                                                      *)
CreateNewSession(r) ==
  [NoContext EXCEPT !.id = r, !.expires = now + SessionTtl, !.isNew = TRUE]

(* A request, with the cookie of the browser if it has one, and if the     *)
(* signature is good (the id is not another one): else a new session.      *)
Send(r) ==
  /\ pc[r] = "new"
  /\ LET known == jar.id # Nobody /\ now < jar.until IN
       /\ GoTo(r, IF known THEN "loading" ELSE "running")
       /\ ctx' = [ctx EXCEPT ![r] = IF known THEN [NoContext EXCEPT !.id = jar.id]
                                    ELSE CreateNewSession(r)]
  /\ overlaps' = [q \in Requests |-> IF q = r THEN InFlight
                                     ELSE IF q \in InFlight THEN overlaps[q] \cup {r}
                                     ELSE overlaps[q]]
  /\ UNCHANGED <<storeVars, jar, cookie>>

(* loadOrCreateSession(): store.get() answers; the session is used unless  *)
(* it is over.                                                             *)
Load(r) ==
  /\ pc[r] = "loading"
  /\ Get(ctx[r].id)
  /\ GoTo(r, "running")
  /\ \E stored \in reply' \cup {[data |-> {}, expires |-> 0]} :
       /\ reply' # {} => stored \in reply'
       /\ ctx' = [ctx EXCEPT ![r] = IF stored.expires > now
                                    THEN [@ EXCEPT !.data = stored.data, !.expires = stored.expires]
                                    ELSE CreateNewSession(r)]
  /\ UNCHANGED <<jar, cookie, overlaps>>

(* The handler: any number of updateSession() and setSession(), which do   *)
(* not ask whether the session was destroyed,                              *)
Change(r) ==
  /\ pc[r] = "running"
  /\ \/ ctx' = [ctx EXCEPT ![r].data = @ \cup {r}, ![r].isDirty = TRUE,
                           ![r].renewed = ctx[r].isDestroyed]
     \/ ctx' = [ctx EXCEPT ![r].data = {r}, ![r].isDirty = TRUE, ![r].replaced = TRUE,
                           ![r].renewed = ctx[r].isDestroyed]
  /\ UNCHANGED <<storeVars, jar, pc, cookie, overlaps>>

(* and of destroySession().                                                *)
DestroySession(r) ==
  /\ pc[r] = "running"
  /\ ctx' = [ctx EXCEPT ![r].isDestroyed = TRUE, ![r].isDirty = TRUE, ![r].renewed = FALSE]
  /\ UNCHANGED <<storeVars, jar, pc, cookie, overlaps>>

(* Mutant of Leave: a dirty session is saved, a destroyed one is dirty.    *)
LeaveDirtyFirst(r) ==
  /\ pc[r] = "running"
  /\ \/ /\ ctx[r].isDirty \/ ctx[r].isNew
        /\ GoTo(r, "saving") /\ ctx' = [ctx EXCEPT ![r].expires = now + SessionTtl]
        /\ UNCHANGED cookie
     \/ ~ctx[r].isDirty /\ ~ctx[r].isNew /\ Sends(r, "none") /\ UNCHANGED ctx
  /\ UNCHANGED <<storeVars, jar, overlaps>>

(* next() fulfils, also if an error was handled below: getCookieHeader()   *)
(* up to the call of the store.                                            *)
Leave(r) ==
  /\ pc[r] = "running"
  /\ \/ ctx[r].isDestroyed /\ GoTo(r, "deleting") /\ UNCHANGED <<ctx, cookie>>
     \/ /\ ~ctx[r].isDestroyed /\ (ctx[r].isDirty \/ ctx[r].isNew)
        /\ GoTo(r, "saving") /\ ctx' = [ctx EXCEPT ![r].expires = now + SessionTtl]
        /\ UNCHANGED cookie
     \/ ~ctx[r].isDirty /\ ~ctx[r].isNew /\ Sends(r, "none") /\ UNCHANGED ctx
  /\ UNCHANGED <<storeVars, jar, overlaps>>

Stored(r) == [data |-> ctx[r].data, expires |-> ctx[r].expires]

Save(r) ==
  /\ pc[r] = "saving"
  /\ Set(ctx[r].id, Stored(r), {SessionTtl}) /\ Sends(r, "set")
  /\ UNCHANGED <<jar, ctx, overlaps>>

Delete(r) ==
  /\ pc[r] = "deleting"
  /\ Del(ctx[r].id) /\ Sends(r, "delete")
  /\ UNCHANGED <<jar, ctx, overlaps>>

(* The store rejects a call that it did not serve or whose answer is lost: *)
(* an error page without a cookie.                                         *)
StoreFails(r) ==
  /\ \/ pc[r] = "saving" /\ Set(ctx[r].id, Stored(r), {SessionTtl})
     \/ pc[r] = "deleting" /\ Del(ctx[r].id)
     \/ pc[r] \in {"loading", "saving", "deleting"} /\ UNCHANGED storeVars
  /\ Sends(r, "none")
  /\ UNCHANGED <<jar, ctx, overlaps>>

(* The browser gets the response.                                          *)
Receive(r) ==
  /\ pc[r] = "sent"
  /\ GoTo(r, "done")
  /\ jar' = CASE cookie[r] = "set" -> [id |-> ctx[r].id, until |-> now + SessionTtl]
              [] cookie[r] = "delete" -> [id |-> Nobody, until |-> 0]
              [] OTHER -> jar
  /\ UNCHANGED <<storeVars, ctx, cookie, overlaps>>

-----------------------------------------------------------------------------
(* Properties *)

SessionTypeOK ==
  /\ jar.id \in Requests \cup {Nobody} /\ jar.until \in Nat
  /\ pc \in [Requests -> {"new", "loading", "running", "saving", "deleting", "sent", "done"}]
  /\ cookie \in [Requests -> {"none", "set", "delete"}]
  /\ overlaps \in [Requests -> SUBSET Requests]
  /\ \A r \in Requests :
       /\ ctx[r].id \in Requests \cup {Nobody} /\ ctx[r].data \subseteq Requests
       /\ ctx[r].isNew => ctx[r].id = r

(* The requests that shared the session of r while r was in flight, and    *)
(* all requests that had it.                                               *)
Sharing(r) == {q \in Requests \ {r} : ctx[q].id = ctx[r].id}
Overlapping(r) == Sharing(r) \cap overlaps[r]

Answered(r, header) == pc[r] \in {"sent", "done"} /\ cookie[r] = header

(* What a request saved is there until the session is over: the browser    *)
(* never holds the cookie of a session that was not stored, and a change   *)
(* is lost only to a request that was in flight at the same time, or that  *)
(* replaced or destroyed the session.                                      *)
SavedIsKept ==
  \A r \in Requests :
    Answered(r, "set") /\ now < ctx[r].expires =>
      \/ \E q \in Sharing(r) : ctx[q].isDestroyed
      \/ \E e \in live[ctx[r].id] :
           r \in e.value.data \/ ~ctx[r].isDirty \/ Overlapping(r) # {}
             \/ \E q \in Sharing(r) : ctx[q].replaced

(* A session that was destroyed stays destroyed, unless a request that was *)
(* in flight at the same time saves it afterwards.                         *)
DestroyedIsGone ==
  \A r \in Requests :
    Answered(r, "delete") /\ live[ctx[r].id] # {} =>
      \E q \in Overlapping(r) : ctx[q].isDirty \/ ctx[q].isNew

(* A session that is set after the old one was destroyed is answered with  *)
(* its cookie, as docs/authentication/sessions.md:413-414 says.  The code  *)
(* deletes the session and its cookie, and what was set is lost.           *)
SetAfterDestroyIsKept == \A r \in Requests : ctx[r].renewed => ~Answered(r, "delete")
=============================================================================
