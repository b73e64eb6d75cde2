------------------------------- MODULE Requests -------------------------------
(***************************************************************************)
(* HTTP requests on the way through the layers of a router and of a router *)
(* mounted in it: the bootstrap that gives a request its context, request  *)
(* injection, the security middleware that every router registers, user    *)
(* middleware bound with options, authorization, the handler, and the way  *)
(* back up, with errors, the error handlers of both routers, and work left *)
(* for after the response.  Requests run concurrently and a handler may    *)
(* send another one.  User code is nondeterministic: it may await, write   *)
(* to the context, read the body or take the raw request, fail, answer by  *)
(* itself, or call next() in a storage scope or after it has finished.     *)
(*                                                                         *)
(* Every action is one turn of the event loop or, while turn = r, a part   *)
(* of one: no other request moves before the turn ends.                    *)
(***************************************************************************)
EXTENDS ContextFrames, Sequences, FiniteSetsExt

CONSTANTS
  Requests,
  Chain,      \* the layers: [kind, router], router 1 is the root and 2 is mounted in it
  Senders     \* [Requests -> SUBSET Requests]: whose handler may send the request

ASSUME ModeAssumption == DefaultMode \in {"sync", "async"}
ASSUME NobodyAssumption == Nobody \notin Requests

(* What every router registers, in this order: the bootstrap, request      *)
(* injection and security, then user middleware and the chain of a route,  *)
(* which ends in its handler; the one modelled is behind @Authorized.      *)
ASSUME ChainAssumption ==
  /\ Chain \in Seq([kind : {"bootstrap", "inject", "security", "user", "route", "authorize",
                            "handler"}, router : {1, 2}])
  /\ Len(Chain) > 1 /\ Chain[1] = [kind |-> "bootstrap", router |-> 1]
  /\ \A i \in DOMAIN Chain :
       /\ Chain[i].kind = "handler" <=> i = Len(Chain)
       /\ Chain[i].kind \in {"user", "route", "handler"}
            => \E j \in 1..(i - 1) : Chain[j].kind = "inject"
  /\ \A kind \in {"security", "authorize"} : \E i \in DOMAIN Chain : Chain[i].kind = kind

VARIABLES
  mode,       \* context mode of the runtime that serves the request
  turn,       \* the request whose code runs, or Nobody
  at,         \* where the request is: layer, phase, and router of a running error handler
  acts,       \* what each layer remembers while the request is in it or below it
  scopes,     \* the WeakMap from a request's Hono context to its frame
  values,     \* the values of the request's context
  body,       \* BodyState, and what became of the raw request's stream
  deferred,   \* whether a callback for after the response is registered
  kept,       \* a layer that returned and still holds its next(), or 0
  secured     \* how often the security middleware ran (history)

vars == <<synchronousFrame, carried, mode, turn, at, acts, scopes, values, body,
          deferred, kept, secured>>

Layers == DOMAIN Chain
Endpoint == Len(Chain)
Kind(i) == Chain[i].kind

NoValues == [creator |-> 0, injected |-> FALSE, hono |-> Nobody, applied |-> FALSE,
             user |-> Nobody, options |-> 0]

(* from, als: what is carried where the layer is called and inside its own *)
(* run(); frame: captureContext() at its start; previous, options: what it *)
(* has to restore; stored: it calls next() in a storage scope (history).   *)
NoAct == [from |-> NoFrame, als |-> NoFrame, frame |-> NoFrame, previous |-> NoFrame,
          options |-> 0, awaited |-> FALSE, called |-> FALSE, stored |-> FALSE]

(* BodyState: the source is the raw request, or once it is isolated a      *)
(* clone, whose stream may be spent; text, form: cached promises.          *)
(* exposed, used: user code has the raw request, has consumed it.  lost:   *)
(* a body was asked for whose stream was gone.                             *)
NoBody == [kind |-> "none", set |-> FALSE, isolated |-> FALSE, spent |-> FALSE,
           text |-> FALSE, form |-> FALSE, exposed |-> FALSE, used |-> FALSE, lost |-> FALSE]

RequestsInit ==
  /\ synchronousFrame = NoFrame
  /\ carried = NoFrame
  /\ mode \in [Requests -> {"sync", DefaultMode}]
  /\ turn = Nobody
  /\ at = [r \in Requests |-> [layer |-> 1, phase |-> "new", router |-> 0]]
  /\ acts = [r \in Requests |-> [i \in Layers |-> NoAct]]
  /\ scopes = [r \in Requests |-> NoFrame]
  /\ values = [r \in Requests |-> NoValues]
  /\ \E reader \in Requests, kind \in {"none", "json", "multipart"} :
       body = [r \in Requests |-> [NoBody EXCEPT !.kind = IF r = reader THEN kind ELSE @]]
  /\ deferred = [r \in Requests |-> FALSE]
  /\ kept = [r \in Requests |-> 0]
  /\ secured = [r \in Requests |-> 0]

-----------------------------------------------------------------------------
(* Moving a request *)

In(r, phase) == at[r].phase = phase
Runs(r, phase) == turn = r /\ In(r, phase)
Idle(r, phase) == turn = Nobody /\ In(r, phase)

GoTo(r, i, phase) == at' = [at EXCEPT ![r].layer = i, ![r].phase = phase]

Here(r) == at[r].layer
Act(r) == acts[r][Here(r)]

(* Frames and the turn: go on in this turn, start one, or end one.         *)
Goes(r, frame) == Run(frame) /\ UNCHANGED turn
Starts(r, parent) == turn' = r /\ BeginTurn(parent)
StartsIn(r, parent, frame) == turn' = r /\ RunFrom(parent, frame)
Ends == turn' = Nobody /\ EndTurn
Stays == UNCHANGED <<synchronousFrame, carried, turn>>

(* The layer above that has code to run once the layers below are done:    *)
(* the bootstrap of the root router, or a middleware.                      *)
Above(i) == Max({1} \cup {j \in 1..(i - 1) : Kind(j) = "user"})

(* The promise of a layer fulfils: the awaited next() of the one above.    *)
Completes(r, i) == GoTo(r, Above(i), "up")

(* Calling the layer below.                                                *)
Descends(r) == GoTo(r, Here(r) + 1, "enter")

-----------------------------------------------------------------------------
(* From fetch() to the first layer *)

(* A bound: a request that carries a body is the only one of its run.      *)
AloneWithBody(r) ==
  \A q \in Requests \ {r} : body[q].kind = "none" /\ (body[r].kind = "none" \/ In(q, "new"))

(* fetch(request), by the handler of another request or by nobody; the     *)
(* scope it creates copies the values of its caller, and it then awaits.   *)
Fetch(r) ==
  /\ In(r, "new") /\ AloneWithBody(r)
  /\ \/ turn = Nobody
     \/ \E s \in Senders[r] : Runs(s, "user") /\ Here(s) = Endpoint
  /\ LET frame == [req |-> r, mode |-> mode[r], storage |-> CurrentFrame.storage] IN
       acts' = [acts EXCEPT ![r][1] = [NoAct EXCEPT !.als = carried, !.frame = frame]]
  /\ IF HasContext
     THEN values' = [values EXCEPT ![r] = values[CurrentFrame.req]]
     ELSE UNCHANGED values
  /\ GoTo(r, 1, "prepared")
  /\ UNCHANGED <<mode, scopes, body, deferred, kept, secured>> /\ Stays

(* Mutant of Inherits: the context of whoever sends a request is always    *)
(* inherited.                                                              *)
InheritsAlways(r) == TRUE

(* createBootstrapMiddleware: inherit what fetch() copied?                 *)
Inherits(r) == values[r].creator = 0

(* The bootstrap middleware of the root router creates the context of the  *)
(* request and awaits startupPending().                                    *)
Bootstrap(r) ==
  /\ Idle(r, "prepared")
  /\ LET fetched == Act(r).frame
         scope == IF Inherits(r) THEN fetched ELSE [fetched EXCEPT !.storage = 0]
         als == Carried(Act(r).als, fetched) IN
       /\ scopes' = [scopes EXCEPT ![r] = scope]
       /\ acts' = [acts EXCEPT ![r][1] = [NoAct EXCEPT !.from = als, !.als = als,
                                                       !.frame = scope]]
       /\ values' = [values EXCEPT ![r] = IF Inherits(r) THEN @ ELSE NoValues]
  /\ GoTo(r, 1, "booting")
  /\ UNCHANGED <<mode, body, deferred, kept, secured>> /\ Stays

(* startupPending() has fulfilled, in the bootstrap.                       *)
Boot(r) ==
  /\ Idle(r, "booting") /\ Here(r) = 1
  /\ StartsIn(r, Act(r).als, scopes[r])
  /\ values' = [values EXCEPT ![r].creator = Chain[1].router]
  /\ GoTo(r, 2, "enter")
  /\ UNCHANGED <<mode, acts, scopes, body, deferred, kept, secured>>

(* ... or has rejected, there or in the route handler.                     *)
BootFails(r) ==
  /\ Idle(r, "booting")
  /\ GoTo(r, Here(r), "failed")
  /\ UNCHANGED <<mode, acts, scopes, values, body, deferred, kept, secured>> /\ Stays

-----------------------------------------------------------------------------
(* The layers on the way down *)

Enters(r, kind) == Runs(r, "enter") /\ Kind(Here(r)) = kind

(* The bootstrap of the mounted router finds the request bootstrapped.     *)
Nested(r) ==
  /\ Enters(r, "bootstrap")
  /\ Goes(r, scopes[r]) /\ Descends(r)
  /\ UNCHANGED <<mode, acts, scopes, values, body, deferred, kept, secured>>

(* A new BodyState on the raw request, whose stream is what it is.         *)
SetBodySource(b) == [b EXCEPT !.set = TRUE, !.isolated = FALSE, !.spent = FALSE,
                              !.text = FALSE, !.form = FALSE]

(* createRequestInjectionMiddleware: the outermost router injects.         *)
Inject(r) ==
  /\ Enters(r, "inject")
  /\ IF values[r].injected
     THEN UNCHANGED <<values, body>>
     ELSE /\ values' = [values EXCEPT ![r].injected = TRUE, ![r].hono = r]
          /\ body' = [body EXCEPT ![r] = SetBodySource(@)]
  /\ Goes(r, scopes[r]) /\ Descends(r)
  /\ UNCHANGED <<mode, acts, scopes, deferred, kept, secured>>

(* Mutant of Secure: every router runs its security middleware.            *)
SecureAgain(r) ==
  /\ Enters(r, "security")
  /\ secured' = [secured EXCEPT ![r] = @ + 1]
  /\ Goes(r, scopes[r]) /\ Descends(r)
  /\ UNCHANGED <<mode, acts, scopes, values, body, deferred, kept>>

(* A security middleware of a router, once per request; it may answer by   *)
(* itself, as for a preflight request.                                     *)
Secure(r) ==
  /\ Enters(r, "security")
  /\ values' = [values EXCEPT ![r].applied = TRUE]
  /\ secured' = IF values[r].applied THEN secured ELSE [secured EXCEPT ![r] = @ + 1]
  /\ \/ Goes(r, scopes[r]) /\ Descends(r)
     \/ ~values[r].applied /\ Ends /\ Completes(r, Here(r))
  /\ UNCHANGED <<mode, acts, scopes, body, deferred, kept>>

(* The injection of the matched route.                                     *)
InjectRoute(r) ==
  /\ Enters(r, "route")
  /\ values' = [values EXCEPT ![r].hono = r]
  /\ body' = IF body[r].set THEN body ELSE [body EXCEPT ![r] = SetBodySource(@)]
  /\ Goes(r, scopes[r]) /\ Descends(r)
  /\ UNCHANGED <<mode, acts, scopes, deferred, kept, secured>>

(* @Authorized: without a user of the request, an answer and no next().    *)
Authorize(r) ==
  /\ Enters(r, "authorize")
  /\ IF values[r].user # Nobody
     THEN Goes(r, scopes[r]) /\ Descends(r)
     ELSE Ends /\ Completes(r, Here(r))
  /\ UNCHANGED <<mode, acts, scopes, values, body, deferred, kept, secured>>

Called(r, options) ==
  [NoAct EXCEPT !.from = carried, !.als = Carried(carried, scopes[r]), !.frame = scopes[r],
                !.options = options]

(* A user middleware bound with options: they are recorded, use() runs.    *)
Use(r) ==
  /\ Enters(r, "user")
  /\ acts' = [acts EXCEPT ![r][Here(r)] = Called(r, values[r].options)]
  /\ values' = [values EXCEPT ![r].options = Here(r)]
  /\ Goes(r, scopes[r]) /\ GoTo(r, Here(r), "user")
  /\ UNCHANGED <<mode, scopes, body, deferred, kept, secured>>

(* The route handler awaits startupPending(), then calls the controller.   *)
Handle(r) ==
  /\ Enters(r, "handler")
  /\ acts' = [acts EXCEPT ![r][Here(r)] = Called(r, 0)]
  /\ Ends /\ GoTo(r, Here(r), "booting")
  /\ UNCHANGED <<mode, scopes, values, body, deferred, kept, secured>>

Invoke(r) ==
  /\ Idle(r, "booting") /\ Here(r) = Endpoint
  /\ StartsIn(r, Act(r).from, scopes[r])
  /\ GoTo(r, Endpoint, "user")
  /\ UNCHANGED <<mode, acts, scopes, values, body, deferred, kept, secured>>

-----------------------------------------------------------------------------
(* User code: middleware and handlers *)

OwnContext(r) == CurrentFrame.req = r

(* It awaits something of its own, once and before next(): what comes      *)
(* after next() is a continuation anyway.                                  *)
Await(r) ==
  /\ Runs(r, "user") /\ ~Act(r).awaited /\ ~Act(r).called
  /\ acts' = [acts EXCEPT ![r][Here(r)].awaited = TRUE]
  /\ Ends /\ GoTo(r, Here(r), "waiting")
  /\ UNCHANGED <<mode, scopes, values, body, deferred, kept, secured>>

Wake(r) ==
  /\ Idle(r, "waiting")
  /\ Starts(r, Act(r).als) /\ GoTo(r, Here(r), "user")
  /\ UNCHANGED <<mode, acts, scopes, values, body, deferred, kept, secured>>

(* It goes back into the context that it captured when it was called.      *)
Recapture(r) ==
  /\ Runs(r, "user") /\ ~HasContext
  /\ Goes(r, Act(r).frame)
  /\ UNCHANGED <<mode, at, acts, scopes, values, body, deferred, kept, secured>>

(* setUser(), by a middleware of the root router.                          *)
SetUser(r) ==
  /\ Runs(r, "user") /\ Kind(Here(r)) = "user" /\ Chain[Here(r)].router = 1
  /\ ~Act(r).called /\ OwnContext(r)
  /\ values' = [values EXCEPT ![r].user = r]
  /\ UNCHANGED <<mode, at, acts, scopes, body, deferred, kept, secured>> /\ Stays

(* afterResponse(), by the handler.                                        *)
Defer(r) ==
  /\ Runs(r, "user") /\ Here(r) = Endpoint /\ OwnContext(r)
  /\ deferred' = [deferred EXCEPT ![r] = TRUE]
  /\ UNCHANGED <<mode, at, acts, scopes, values, body, kept, secured>> /\ Stays

(* The text of the body, cached: read from the source, or from a clone of  *)
(* it as long as others may need the source.                               *)
ReadText(b) ==
  IF b.text THEN b
  ELSE IF ~b.isolated THEN [b EXCEPT !.text = TRUE, !.lost = @ \/ b.used]
  ELSE [b EXCEPT !.text = TRUE, !.lost = @ \/ b.spent, !.spent = @ \/ b.kind # "multipart"]

(* The form data of a multipart body, cached: always from a clone.         *)
ReadForm(b) ==
  IF b.form THEN b
  ELSE [b EXCEPT !.form = TRUE, !.lost = @ \/ (IF b.isolated THEN b.spent ELSE b.used)]

ReadBody(b) == IF b.kind = "multipart" THEN ReadForm(b) ELSE ReadText(b)

(* Mutant of PrepareForRawAccess: the text alone counts as a cached body.  *)
PrepareUnlessText(b) ==
  IF b.isolated \/ b.text THEN b
  ELSE [b EXCEPT !.isolated = TRUE, !.lost = @ \/ b.used]

(* prepareBodySourceForRawAccess(): unless all of the body is cached, the  *)
(* source becomes a clone.                                                 *)
PrepareForRawAccess(b) ==
  IF b.isolated \/ (b.text /\ (b.kind = "multipart" => b.form)) THEN b
  ELSE [b EXCEPT !.isolated = TRUE, !.lost = @ \/ b.used]

(* bodyRaw(), body(), requestContext(), or consuming the raw request; a    *)
(* request without a body of a known kind is left alone.                   *)
TouchBody(r) ==
  /\ Runs(r, "user") /\ body[r].kind # "none"
  /\ \/ /\ OwnContext(r)
        /\ \/ body' = [body EXCEPT ![r] = ReadText(@)]
           \/ body' = [body EXCEPT ![r] = ReadBody(@)]
           \/ body' = [body EXCEPT ![r] = [PrepareForRawAccess(@) EXCEPT !.exposed = TRUE]]
     \/ body[r].exposed /\ body' = [body EXCEPT ![r].used = TRUE]
  /\ UNCHANGED <<mode, at, acts, scopes, values, deferred, kept, secured>> /\ Stays

(* Mutant of Downstream: next() runs in the context at the start of use(). *)
DownstreamCaptured(r, current) == Act(r).frame

(* captureNextValue: the context that next() runs in is the current one,   *)
(* if that is the request's, and otherwise the one at the start of use().  *)
Downstream(r, current) == IF current.req = r THEN current ELSE Act(r).frame

(* next(), called by a middleware, in a storage scope of its own or not.   *)
CallNext(r) ==
  /\ Runs(r, "user") /\ Kind(Here(r)) = "user" /\ ~Act(r).called
  /\ \E current \in {CurrentFrame, WithStorage(Here(r))} :
       LET scope == Downstream(r, current)
           als == Carried(IF current = CurrentFrame THEN carried ELSE Carried(carried, current),
                          scope) IN
         /\ acts' = [acts EXCEPT ![r][Here(r)] =
                      [@ EXCEPT !.called = TRUE, !.awaited = FALSE, !.previous = scopes[r],
                                !.stored = OwnContext(r) /\ current # CurrentFrame]]
         /\ scopes' = [scopes EXCEPT ![r] = scope]
         /\ synchronousFrame' = scope /\ carried' = als
  /\ Descends(r)
  /\ UNCHANGED <<mode, turn, values, body, deferred, kept, secured>>

(* What the finally of a layer does: its next() is inactive from now on,   *)
(* and the options it found are restored.                                  *)
Leaves(r) ==
  /\ acts' = [acts EXCEPT ![r][Here(r)] = NoAct]
  /\ values' = [values EXCEPT ![r].options =
                  IF Kind(Here(r)) = "user" THEN Act(r).options ELSE @]

(* It returns: with an answer of its own and without next(), which it may  *)
(* keep; after next(); or with the result of the handler.                  *)
Return(r) ==
  /\ Runs(r, "user")
  /\ Leaves(r) /\ Ends /\ Completes(r, Here(r))
  /\ kept' = IF Kind(Here(r)) = "user" /\ ~Act(r).called
             THEN [kept EXCEPT ![r] = Here(r)] ELSE kept
  /\ UNCHANGED <<mode, scopes, body, deferred, secured>>

(* It throws an Error; the options are restored on the way out.  Anything  *)
(* else that is thrown is left out: Hono gives error handlers Errors only, *)
(* and the fetch() rejects.                                                *)
Throw(r) ==
  /\ Runs(r, "user")
  /\ acts' = [acts EXCEPT ![r][Here(r)] = [NoAct EXCEPT !.from = Act(r).from]]
  /\ values' = [values EXCEPT ![r].options =
                  IF Kind(Here(r)) = "user" THEN Act(r).options ELSE @]
  /\ Ends /\ GoTo(r, Here(r), "failed")
  /\ UNCHANGED <<mode, scopes, body, deferred, kept, secured>>

(* A kept next() is called, by a timer say: it rejects, being inactive.    *)
LateNext(r) ==
  /\ turn = Nobody /\ kept[r] # 0 /\ In(r, "over")
  /\ kept' = [kept EXCEPT ![r] = 0]
  /\ UNCHANGED <<mode, at, acts, scopes, values, body, deferred, secured>> /\ Stays

-----------------------------------------------------------------------------
(* Errors, and the way up *)

HandlesError(r, router) ==
  /\ StartsIn(r, Act(r).from, scopes[r])
  /\ at' = [at EXCEPT ![r].phase = "error", ![r].router = router]

(* An error reaches the error handlers of the router of its layer.         *)
OnError(r) ==
  /\ Idle(r, "failed")
  /\ HandlesError(r, Chain[Here(r)].router)
  /\ UNCHANGED <<mode, acts, scopes, values, body, deferred, kept, secured>>

(* Mutant of IsRequestRoot: the request root is a router that finds no     *)
(* context.                                                                *)
IsRequestRootOutside(r) == values[r].creator = 0

(* isRequestRoot(): nothing may be above the router that handles an error. *)
IsRequestRoot(r) == values[r].creator \in {0, at[r].router}

(* They answer, or none of them does: the request root falls back to its   *)
(* own answer.  Handlers that throw in turn are left out.                  *)
ErrorAnswered(r) ==
  /\ Runs(r, "error")
  /\ acts' = [acts EXCEPT ![r][Here(r)] = IF Here(r) = 1 THEN @ ELSE NoAct]
  /\ Ends /\ Completes(r, Here(r))
  /\ UNCHANGED <<mode, scopes, values, body, deferred, kept, secured>>

(* None answers, and a router that is not the root throws on.              *)
ErrorBubbles(r) ==
  /\ Runs(r, "error") /\ ~IsRequestRoot(r)
  /\ Ends
  /\ at' = [at EXCEPT ![r].phase = IF at[r].router > 1 THEN "bubbling" ELSE "rejected"]
  /\ UNCHANGED <<mode, acts, scopes, values, body, deferred, kept, secured>>

OnErrorAbove(r) ==
  /\ Idle(r, "bubbling")
  /\ HandlesError(r, at[r].router - 1)
  /\ UNCHANGED <<mode, acts, scopes, values, body, deferred, kept, secured>>

(* next() fulfils: the frame of before is recorded again, and the          *)
(* middleware goes on.                                                     *)
Back(r) ==
  /\ Idle(r, "up") /\ Here(r) > 1
  /\ scopes' = [scopes EXCEPT ![r] = Act(r).previous]
  /\ Starts(r, Act(r).als) /\ GoTo(r, Here(r), "user")
  /\ UNCHANGED <<mode, acts, values, body, deferred, kept, secured>>

(* The bootstrap flushes what is deferred, in the scope it created, and    *)
(* the response goes out.                                                  *)
Answer(r) ==
  /\ Idle(r, "up") /\ Here(r) = 1
  /\ GoTo(r, 1, IF deferred[r] THEN "answered" ELSE "over")
  /\ UNCHANGED <<mode, acts, scopes, values, body, deferred, kept, secured>> /\ Stays

(* The timer of a deferred callback fires.                                 *)
RunDeferred(r) ==
  /\ Idle(r, "answered")
  /\ StartsIn(r, Carried(Act(r).als, Act(r).frame), Act(r).frame)
  /\ GoTo(r, 1, "after")
  /\ UNCHANGED <<mode, acts, scopes, values, body, deferred, kept, secured>>

DeferredEnds(r) ==
  /\ Runs(r, "after")
  /\ deferred' = [deferred EXCEPT ![r] = FALSE]
  /\ Ends /\ GoTo(r, 1, "over")
  /\ UNCHANGED <<mode, acts, scopes, values, body, kept, secured>>

(* Nothing refers to the request any more; its WeakMap entries are gone.   *)
Forget(r) ==
  /\ Idle(r, "over") /\ kept[r] = 0
  /\ GoTo(r, 1, "done")
  /\ acts' = [acts EXCEPT ![r] = [i \in Layers |-> NoAct]]
  /\ scopes' = [scopes EXCEPT ![r] = NoFrame]
  /\ values' = [values EXCEPT ![r] = NoValues]
  /\ secured' = [secured EXCEPT ![r] = 0]
  /\ UNCHANGED <<mode, body, deferred, kept>> /\ Stays

-----------------------------------------------------------------------------
(* The specification *)

(* The framework, and user code that is under way.                         *)
Step(r) ==
  \/ Bootstrap(r) \/ Boot(r) \/ BootFails(r)
  \/ Nested(r) \/ Inject(r) \/ Secure(r) \/ InjectRoute(r) \/ Authorize(r) \/ Use(r)
  \/ Handle(r) \/ Invoke(r)
  \/ Await(r) \/ Wake(r) \/ Recapture(r) \/ SetUser(r) \/ Defer(r) \/ TouchBody(r)
  \/ CallNext(r) \/ Return(r) \/ Throw(r)
  \/ OnError(r) \/ ErrorAnswered(r) \/ ErrorBubbles(r) \/ OnErrorAbove(r)
  \/ Back(r) \/ Answer(r) \/ RunDeferred(r) \/ DeferredEnds(r)
  \/ Forget(r)

RequestsNext == \E r \in Requests : Fetch(r) \/ LateNext(r) \/ Step(r)

RequestsSpec == RequestsInit /\ [][RequestsNext]_vars

-----------------------------------------------------------------------------
(* Properties *)

Frames == [req : Requests \cup {Nobody}, mode : {"none", "sync", "async"}, storage : {0} \cup Layers]

Answered == {"answered", "after", "over", "done"}

(* The types; and between turns no synchronous frame is left behind.       *)
RequestsTypeOK ==
  /\ synchronousFrame \in Frames /\ carried \in Frames
  /\ turn \in Requests \cup {Nobody}
  /\ turn = Nobody => synchronousFrame = NoFrame /\ carried = NoFrame
  /\ at \in [Requests -> [layer : Layers, router : 0..2,
        phase : {"new", "prepared", "booting", "enter", "user", "waiting", "failed", "error",
                 "bubbling", "rejected", "up"} \cup Answered]]
  /\ scopes \in [Requests -> Frames]
  /\ \A r \in Requests :
       /\ \A i \in Layers : {acts[r][i].from, acts[r][i].als, acts[r][i].frame} \subseteq Frames
       /\ values[r].user \in Requests \cup {Nobody} /\ values[r].options \in {0} \cup Layers
  /\ kept \in [Requests -> {0} \cup Layers]

RunsUserCode(r) == turn = r /\ at[r].phase \in {"user", "error", "after"}

(* What user code reads from the ambient context is of its own request:    *)
(* never of another one, neither of one that runs at the same time nor of  *)
(* the one whose handler sent it, whatever the modes of the two runtimes;  *)
(* and a context is there throughout in async mode, and in sync mode up to *)
(* the first await (docs: website/docs/async-context.md:15).  What         *)
(* middlewareOptions() answers a middleware are the options it was bound   *)
(* with, before and after its next(), although another binding of the same *)
(* class runs below it and may fail there.                                 *)
ContextIsOwn ==
  \A r \in Requests : RunsUserCode(r) =>
    /\ HasContext => /\ CurrentFrame.req = r
                     /\ {values[r].hono, values[r].user} \subseteq {r, Nobody}
    /\ mode[r] = "async" \/ ~(Act(r).awaited \/ Act(r).called) => HasContext
    /\ In(r, "user") /\ Kind(Here(r)) = "user" /\ HasContext => values[r].options = Here(r)

(* The layer that opened the innermost storage scope around the code.      *)
Storage(r) ==
  IF In(r, "after") THEN 0 ELSE Max({0} \cup {i \in 1..(Here(r) - 1) : acts[r][i].stored})

(* Code finds in the storage exactly what the innermost scope around it    *)
(* put there: the layers below a middleware that opened a scope, and the   *)
(* error handlers called for them, see its value; no code runs in a scope  *)
(* that has ended, after next() or after the response.                     *)
StorageIsLive ==
  \A r \in Requests : RunsUserCode(r) /\ HasContext => CurrentFrame.storage = Storage(r)

(* A handler behind @Authorized runs only after the security middleware    *)
(* ran for its request, once although two routers register it, and after a *)
(* middleware set a user for this very request.                            *)
HandlerIsGuarded ==
  \A r \in Requests :
    /\ secured[r] <= 1
    /\ Runs(r, "user") /\ Here(r) = Endpoint => secured[r] = 1 /\ values[r].user = r

(* body() and bodyRaw() find the body although user code took the raw      *)
(* request from requestContext() and consumed it, in any order.            *)
BodySurvives == \A r \in Requests : ~body[r].lost

(* Provided that what layers throw are Errors and that error handlers do   *)
(* not throw themselves (Throw, ErrorAnswered): an error that no error     *)
(* handler answers, of whichever layer, after whichever awaits and in a    *)
(* request sent from another one, ends with the fallback of the router     *)
(* that created the context and not in a rejected fetch(): a mounted       *)
(* router throws on, and that router never does.                           *)
ErrorsEndAtRoot == \A r \in Requests : at[r].phase # "rejected"
=============================================================================
