---------------------------- MODULE RequestsProofs ----------------------------
(***************************************************************************)
(* Proofs about requests and their contexts, for any set of requests, any  *)
(* layers that a root router and a router mounted in it can register, and  *)
(* whichever handlers send requests, in every mix of context modes.        *)
(***************************************************************************)
EXTENDS Requests, TLAPS

(* The types of the variables, those included that no property needs.      *)
Values == [creator : {0, 1}, injected : BOOLEAN, hono : Requests \cup {Nobody},
           applied : BOOLEAN, user : Requests \cup {Nobody}, options : {0} \cup Layers]

ActTypes == [from : Frames, als : Frames, frame : Frames, previous : Frames,
             options : {0} \cup Layers, awaited : BOOLEAN, called : BOOLEAN, stored : BOOLEAN]

Bodies == [kind : {"none", "json", "multipart"}, set : BOOLEAN, isolated : BOOLEAN,
           spent : BOOLEAN, text : BOOLEAN, form : BOOLEAN, exposed : BOOLEAN, used : BOOLEAN,
           lost : BOOLEAN]

Phases == {"new", "prepared", "booting", "enter", "user", "waiting", "failed", "error",
           "bubbling", "rejected", "up"} \cup Answered

Typed ==
  /\ mode \in [Requests -> {"sync", "async"}]
  /\ at \in [Requests -> [layer : Layers, phase : Phases, router : 0..2]]
  /\ acts \in [Requests -> [Layers -> ActTypes]]
  /\ scopes \in [Requests -> Frames]
  /\ values \in [Requests -> Values]
  /\ body \in [Requests -> Bodies]
  /\ deferred \in [Requests -> BOOLEAN]
  /\ kept \in [Requests -> {0} \cup Layers]
  /\ secured \in [Requests -> Nat]

-----------------------------------------------------------------------------
(* Where a request is                                                      *)

(* Between the bootstrap and the answer.                                   *)
Live == {"booting", "enter", "user", "waiting", "failed", "error", "bubbling", "up"}

(* In the turn of the request, and only in these, its code runs.           *)
Running == {"enter", "user", "error", "after"}

(* The layers a request may be at, and the routers it may look for an      *)
(* error handler in.                                                       *)
PlaceInv(r) ==
  LET i == at[r].layer phase == at[r].phase IN
  /\ phase \in {"new", "prepared"} \cup Answered => i = 1
  /\ phase = "booting" => i \in {1, Endpoint}
  /\ phase = "enter" => i > 1
  /\ phase \in {"user", "waiting"} => Kind(i) \in {"user", "handler"}
  /\ phase = "up" => i = 1 \/ Kind(i) = "user"
  /\ phase = "error" => at[r].router > 0
  /\ phase = "bubbling" => at[r].router > 1
  /\ phase # "rejected"

-----------------------------------------------------------------------------
(* Frames                                                                  *)

(* o is the nearest user middleware above layer i, or 0.                   *)
IsPrevious(o, i) ==
  /\ o = 0 \/ (o \in 1..(i - 1) /\ Kind(o) = "user")
  /\ \A j \in 1..(i - 1) : Kind(j) = "user" => j <= o

(* s is the layer that opened the innermost storage scope around layer i.  *)
IsStorage(r, i, s) ==
  /\ s = 0 \/ (s \in 1..(i - 1) /\ acts[r][s].stored)
  /\ \A j \in 1..(i - 1) : acts[r][j].stored => j <= s

(* The frame that the code of layer i runs in, whatever ran before it: of  *)
(* its own request, in its mode and in the innermost scope around it.      *)
OwnFrame(r, i, frame) ==
  frame.req = r /\ frame.mode = mode[r] /\ IsStorage(r, i, frame.storage)

(* What a layer that is under way remembers.                               *)
Entered(r, i) ==
  /\ OwnFrame(r, i, acts[r][i].frame)
  /\ acts[r][i].als.mode = "async" => acts[r][i].als = acts[r][i].frame
  /\ mode[r] = "async" => acts[r][i].als = acts[r][i].frame
  /\ Kind(i) = "user" => IsPrevious(acts[r][i].options, i)

(* ... and a middleware that awaits its next().                            *)
Awaits(r, i) ==
  /\ Entered(r, i)
  /\ acts[r][i].called
  /\ OwnFrame(r, i, acts[r][i].previous)

(* Nothing is remembered of layer i and of the layers below it.            *)
Fresh(r, i) == \A j \in i..Endpoint : acts[r][j] = NoAct

(* Middleware from the second layer on that are above layer i have called  *)
(* next(), and no other layer above remembers anything.                    *)
AllAwait(r, i) ==
  \A j \in 2..(i - 1) : IF Kind(j) = "user" THEN Awaits(r, j) ELSE acts[r][j] = NoAct

(* What the layers remember, and the frame recorded for the layer at hand. *)
LayersInv(r, i, phase) ==
  /\ ~acts[r][1].stored
  /\ AllAwait(r, i)
  /\ Fresh(r, i + 1)
  /\ phase = "enter" => Fresh(r, i)
  /\ phase # "up" => OwnFrame(r, i, scopes[r])
  /\ phase \in {"user", "waiting"} \/ (phase = "booting" /\ i > 1) =>
       Entered(r, i) /\ IF acts[r][i].called THEN Awaits(r, i) ELSE ~acts[r][i].stored
  /\ phase = "waiting" => acts[r][i].awaited
  /\ phase = "up" /\ i > 1 => Awaits(r, i)

FramesInv(r) ==
  LET phase == at[r].phase IN
  /\ phase \in {"new", "prepared"} => Fresh(r, 2)
  /\ phase = "prepared" => acts[r][1].frame.req = r /\ acts[r][1].frame.mode = mode[r]
  /\ phase \in Live \cup {"answered", "after"} =>
       acts[r][1].frame = [req |-> r, mode |-> mode[r], storage |-> 0]
  /\ phase \in Live => LayersInv(r, at[r].layer, phase)

(* The frames of the turn that runs: those of the layer, or none of its    *)
(* own after an await, or only what is carried.                            *)
TurnInv ==
  /\ turn \in Requests \cup {Nobody}
  /\ synchronousFrame \in Frames /\ carried \in Frames
  /\ turn = Nobody => synchronousFrame = NoFrame /\ carried = NoFrame
  /\ \A r \in Requests : turn = r <=> at[r].phase \in Running
  /\ \A r \in Requests : turn = r =>
       LET i == at[r].layer phase == at[r].phase IN
       /\ phase \in {"enter", "error"} => synchronousFrame = scopes[r]
       /\ phase = "user" =>
            \/ synchronousFrame = acts[r][i].frame
            \/ /\ synchronousFrame = NoFrame /\ carried = acts[r][i].als
               /\ acts[r][i].awaited \/ acts[r][i].called
       /\ phase = "after" => synchronousFrame = acts[r][1].frame

-----------------------------------------------------------------------------
(* Values, and the body                                                    *)

(* The options of the middleware that runs, or of the one above.           *)
OptionsInv(r) ==
  IF at[r].phase \in {"user", "waiting", "up"} /\ Kind(at[r].layer) = "user"
  THEN values[r].options = at[r].layer
  ELSE IsPrevious(values[r].options, at[r].layer)

(* What the layers above have done for the request.                        *)
GuardsInv(r) ==
  /\ at[r].layer > 1 => values[r].creator = 1
  /\ secured[r] = IF values[r].applied THEN 1 ELSE 0
  /\ \A j \in 1..(at[r].layer - 1) :
       /\ Kind(j) = "inject" => values[r].injected
       /\ Kind(j) = "security" => values[r].applied
       /\ Kind(j) = "authorize" => values[r].user = r

(* Before the bootstrap the values may be those of the sender; they are    *)
(* left behind with the storage.                                           *)
ValuesInv(r) ==
  LET phase == at[r].phase IN
  /\ phase \in Live \cup {"answered", "after"} =>
       values[r].hono \in {r, Nobody} /\ values[r].user \in {r, Nobody}
  /\ phase \in Live => OptionsInv(r) /\ GuardsInv(r)
  /\ phase = "new" => values[r] = NoValues
  /\ phase = "prepared" => \/ values[r] = NoValues /\ acts[r][1].frame.storage = 0
                           \/ values[r].creator # 0
  /\ phase = "booting" /\ at[r].layer = 1 => values[r] = NoValues
  /\ phase \in {"new", "prepared"} => secured[r] = 0
  /\ secured[r] <= 1

(* Whoever has consumed the raw request had it, and then either the source *)
(* was a clone or all of the body was cached; a spent clone was cached.    *)
BodyInv(r) ==
  /\ ~body[r].lost
  /\ body[r].used => body[r].exposed
  /\ body[r].exposed =>
       body[r].isolated \/ (body[r].text /\ (body[r].kind = "multipart" => body[r].form))
  /\ body[r].spent => body[r].text /\ body[r].kind # "multipart"
  /\ at[r].phase \in {"new", "prepared"} => ~body[r].set
  /\ at[r].phase \in Live => (values[r].injected <=> body[r].set)
  /\ ~body[r].set => ~body[r].exposed

RequestInv(r) == PlaceInv(r) /\ FramesInv(r) /\ ValuesInv(r) /\ BodyInv(r)

RequestsInv == Typed /\ TurnInv /\ \A r \in Requests : RequestInv(r)

-----------------------------------------------------------------------------
(* The chain, frames, and the invariant's relations                        *)

LEMMA ChainFacts ==
  /\ Endpoint \in Nat /\ Endpoint > 1
  /\ Layers = 1..Endpoint
  /\ Kind(1) = "bootstrap" /\ Chain[1].router = 1
  /\ \A i \in Layers :
       /\ Kind(i) \in {"bootstrap", "inject", "security", "user", "route", "authorize", "handler"}
       /\ Chain[i].router \in {1, 2}
       /\ Kind(i) = "handler" <=> i = Endpoint
       /\ Kind(i) \in {"user", "route", "handler"} => \E j \in 1..(i - 1) : Kind(j) = "inject"
  /\ \A kind \in {"security", "authorize"} : \E i \in Layers : Kind(i) = kind
<1>1. Endpoint \in Nat /\ Endpoint > 1 /\ Layers = 1..Endpoint
  BY ChainAssumption DEF Layers, Endpoint
<1>2. Kind(1) = "bootstrap" /\ Chain[1].router = 1
  BY ChainAssumption DEF Kind
<1> DEFINE Each == [kind : {"bootstrap", "inject", "security", "user", "route", "authorize",
                            "handler"}, router : {1, 2}]
<1>3. Chain \in Seq(Each)
  BY ChainAssumption
<1> HIDE DEF Each
<1>4. \A i \in Layers : Chain[i] \in Each
  BY <1>3 DEF Layers
<1> USE DEF Each
<1>5. QED
  BY <1>1, <1>2, <1>4, ChainAssumption DEF Layers, Endpoint, Kind

LEMMA NoFrameTyped == NoFrame \in Frames /\ NoAct \in ActTypes /\ NoValues \in Values
BY DEF NoFrame, Frames, NoAct, ActTypes, NoValues, Values

LEMMA CurrentTyped ==
  ASSUME synchronousFrame \in Frames, carried \in Frames
  PROVE  CurrentFrame \in Frames
BY NoFrameTyped DEF CurrentFrame

LEMMA CarriedTyped ==
  ASSUME NEW parent \in Frames, NEW frame \in Frames
  PROVE  Carried(parent, frame) \in Frames
BY DEF Carried

(* What is carried below a frame: an async frame always; below a sync one, *)
(* nothing that is async, or the frame itself.                             *)
LEMMA CarriedOwn ==
  ASSUME NEW parent \in Frames, NEW frame \in Frames, frame.mode \in {"sync", "async"}
  PROVE  /\ frame.mode = "async" => Carried(parent, frame) = frame
         /\ Carried(parent, frame).mode = "async" => Carried(parent, frame) = frame
BY DEF Carried, Frames

LEMMA MaxIs ==
  ASSUME NEW S \in SUBSET Nat, NEW m \in S, \A n \in S : n <= m
  PROVE  Max(S) = m
<1> DEFINE Largest(n) == n \in S /\ \A k \in S : n >= k
<1>1. Largest(m)
  OBVIOUS
<1>2. Max(S) = CHOOSE n : Largest(n)
  BY DEF Max
<1>3. Largest(CHOOSE n : Largest(n))
  BY <1>1
<1>4. Largest(Max(S))
  BY <1>2, <1>3
<1>5. Max(S) \in S /\ Max(S) \in Nat /\ m \in Nat /\ Max(S) >= m /\ m >= Max(S)
  BY <1>4
<1>6. QED
  BY <1>5

LEMMA AboveIs ==
  ASSUME NEW i \in Layers, NEW o, IsPrevious(o, i)
  PROVE  Above(i) = IF o = 0 THEN 1 ELSE o
<1> DEFINE S == {1} \cup {j \in 1..(i - 1) : Kind(j) = "user"}
           m == IF o = 0 THEN 1 ELSE o
<1>1. S \in SUBSET Nat
  BY ChainFacts
<1>2. m \in S /\ \A n \in S : n <= m
  BY ChainFacts DEF IsPrevious
<1>3. Max(S) = m
  BY <1>1, <1>2, MaxIs
<1>4. QED
  BY <1>3 DEF Above

LEMMA OneFrame ==
  ASSUME NEW r \in Requests, NEW i \in Layers, Typed,
         NEW f \in Frames, OwnFrame(r, i, f), NEW g \in Frames, OwnFrame(r, i, g)
  PROVE  f = g
<1>1. f.storage = g.storage
  BY ChainFacts DEF OwnFrame, IsStorage, Frames
<1>2. QED
  BY <1>1 DEF OwnFrame, Frames

(* The frame that a layer finds is that of the layers above it, whatever   *)
(* becomes of what the layers from here on remember.                       *)
LEMMA FrameKept ==
  ASSUME NEW r \in Requests, NEW i \in Layers, NEW f, OwnFrame(r, i, f), mode' = mode,
         \A j \in 1..(i - 1) : acts'[r][j].stored = acts[r][j].stored
  PROVE  OwnFrame(r, i, f)'
BY DEF OwnFrame, IsStorage

(* The layer below a middleware that opens no scope finds the same frame.  *)
LEMMA FrameBelow ==
  ASSUME NEW r \in Requests, NEW i \in Layers, NEW f, OwnFrame(r, i, f), ~acts[r][i].stored
  PROVE  OwnFrame(r, i + 1, f)
BY ChainFacts DEF OwnFrame, IsStorage

LEMMA EnteredKept ==
  ASSUME NEW r \in Requests, NEW i \in Layers, Entered(r, i), mode' = mode,
         \A j \in 1..i : acts'[r][j] = acts[r][j]
  PROVE  Entered(r, i)'
<1>1. i \in 1..i /\ \A j \in 1..(i - 1) : j \in 1..i
  BY ChainFacts
<1>2. acts'[r][i] = acts[r][i] /\ OwnFrame(r, i, acts[r][i].frame)'
  BY <1>1, FrameKept DEF Entered
<1>3. QED
  BY <1>2 DEF Entered, IsPrevious

LEMMA AwaitsKept ==
  ASSUME NEW r \in Requests, NEW i \in Layers, Awaits(r, i), mode' = mode,
         \A j \in 1..i : acts'[r][j] = acts[r][j]
  PROVE  Awaits(r, i)'
<1>1. i \in 1..i /\ \A j \in 1..(i - 1) : j \in 1..i
  BY ChainFacts
<1>2. acts'[r][i] = acts[r][i] /\ OwnFrame(r, i, acts[r][i].previous)'
  BY <1>1, FrameKept DEF Awaits
<1>3. QED
  BY <1>2, EnteredKept DEF Awaits

-----------------------------------------------------------------------------
(* A step of one request, and the others                                   *)

Untouched(r) ==
  /\ at'[r] = at[r] /\ acts'[r] = acts[r] /\ scopes'[r] = scopes[r]
  /\ values'[r] = values[r] /\ body'[r] = body[r] /\ secured'[r] = secured[r]

LEMMA UntouchedKept ==
  ASSUME NEW r \in Requests, RequestInv(r), Untouched(r), mode' = mode
  PROVE  RequestInv(r)'
<1>1. PlaceInv(r)'
  BY DEF RequestInv, Untouched, PlaceInv
<1>2. \A i, frame : OwnFrame(r, i, frame) <=> OwnFrame(r, i, frame)'
  BY DEF Untouched, OwnFrame, IsStorage
<1>3. \A i : (Entered(r, i) <=> Entered(r, i)') /\ (Awaits(r, i) <=> Awaits(r, i)')
  BY DEF Untouched, Entered, Awaits, OwnFrame, IsStorage, IsPrevious
<1>4. \A i : Fresh(r, i) <=> Fresh(r, i)'
  BY DEF Untouched, Fresh
<1>5. FramesInv(r)'
  BY <1>2, <1>3, <1>4 DEF RequestInv, Untouched, FramesInv, LayersInv, AllAwait
<1>6. ValuesInv(r)'
  BY DEF RequestInv, Untouched, ValuesInv, OptionsInv, GuardsInv, IsPrevious
<1>7. BodyInv(r)'
  BY DEF RequestInv, Untouched, BodyInv
<1>8. QED
  BY <1>1, <1>5, <1>6, <1>7 DEF RequestInv

LEMMA OthersUntouched ==
  ASSUME Typed, NEW r \in Requests, Fetch(r) \/ LateNext(r) \/ Step(r)
  PROVE  mode' = mode /\ \A q \in Requests \ {r} : Untouched(q)
<1> USE DEF Typed, Untouched, GoTo, Completes, Descends, Leaves, HandlesError
<1>1. CASE Fetch(r) \/ LateNext(r)
  BY <1>1 DEF Fetch, LateNext
<1>2. CASE Bootstrap(r) \/ Boot(r) \/ BootFails(r)
  BY <1>2 DEF Bootstrap, Boot, BootFails
<1>3. CASE Nested(r) \/ Inject(r) \/ Secure(r) \/ InjectRoute(r) \/ Authorize(r)
  BY <1>3 DEF Nested, Inject, Secure, InjectRoute, Authorize
<1>4. CASE Use(r) \/ Handle(r) \/ Invoke(r) \/ Await(r) \/ Wake(r) \/ Recapture(r)
  BY <1>4 DEF Use, Handle, Invoke, Await, Wake, Recapture
<1>5. CASE SetUser(r) \/ Defer(r) \/ TouchBody(r) \/ CallNext(r) \/ Return(r) \/ Throw(r)
  BY <1>5 DEF SetUser, Defer, TouchBody, CallNext, Return, Throw
<1>6. CASE OnError(r) \/ ErrorAnswered(r) \/ ErrorBubbles(r) \/ OnErrorAbove(r)
  BY <1>6 DEF OnError, ErrorAnswered, ErrorBubbles, OnErrorAbove
<1>7. CASE Back(r) \/ Answer(r) \/ RunDeferred(r) \/ DeferredEnds(r) \/ Forget(r)
  BY <1>7 DEF Back, Answer, RunDeferred, DeferredEnds, Forget
<1>8. QED
  BY <1>1, <1>2, <1>3, <1>4, <1>5, <1>6, <1>7 DEF Step

-----------------------------------------------------------------------------
(* Types                                                                   *)

LEMMA EnterBelow ==
  ASSUME RequestsInv, NEW r \in Requests, at[r].phase \in {"enter", "user"},
         Kind(Here(r)) # "handler"
  PROVE  Here(r) + 1 \in Layers /\ Here(r) \in Layers
BY ChainFacts DEF RequestsInv, Typed, Here

(* A layer whose promise fulfils is below the one whose next() awaits it.  *)
LEMMA CompletesAbove ==
  ASSUME RequestsInv, NEW r \in Requests, at[r].phase \in Live, at[r].phase # "up"
  PROVE  \E o \in {0} \cup 1..(Here(r) - 1) :
            /\ IsPrevious(o, Here(r))
            /\ Above(Here(r)) = IF o = 0 THEN 1 ELSE o
            /\ o = IF at[r].phase \in {"user", "waiting"} /\ Kind(Here(r)) = "user"
                   THEN Act(r).options ELSE values[r].options
<1> DEFINE o == IF at[r].phase \in {"user", "waiting"} /\ Kind(Here(r)) = "user"
                THEN Act(r).options ELSE values[r].options
<1>1. IsPrevious(o, Here(r))
  BY DEF RequestsInv, RequestInv, FramesInv, LayersInv, ValuesInv, OptionsInv, Entered, Here, Act
<1>2. o \in {0} \cup 1..(Here(r) - 1)
  BY <1>1 DEF IsPrevious
<1>3. Here(r) \in Layers
  BY DEF RequestsInv, Typed, Here
<1>4. Above(Here(r)) = IF o = 0 THEN 1 ELSE o
  BY <1>1, <1>3, AboveIs
<1>5. QED
  BY <1>1, <1>2, <1>4

LEMMA AtTyped ==
  ASSUME RequestsInv, NEW r \in Requests, Fetch(r) \/ LateNext(r) \/ Step(r)
  PROVE  at' \in [Requests -> [layer : Layers, phase : Phases, router : 0..2]]
<1>0. /\ at \in [Requests -> [layer : Layers, phase : Phases, router : 0..2]]
      /\ Here(r) \in Layers /\ 1 \in Layers /\ 2 \in Layers /\ Endpoint \in Layers
  BY ChainFacts DEF RequestsInv, Typed, Here
<1> USE DEF GoTo, Phases, Answered, Runs, Idle, In, Enters
<1>1. CASE Descends(r) /\ at[r].phase \in {"enter", "user"} /\ Kind(Here(r)) # "handler"
  BY <1>0, <1>1, EnterBelow DEF Descends
<1>2. CASE Completes(r, Here(r)) /\ at[r].phase \in {"enter", "user", "error"}
  <2>1. Above(Here(r)) \in Layers
    BY <1>0, <1>2, CompletesAbove, ChainFacts DEF Live
  <2>2. QED
    BY <1>0, <1>2, <2>1 DEF Completes
<1>3. CASE Fetch(r) \/ LateNext(r) \/ Bootstrap(r) \/ Boot(r) \/ BootFails(r)
  BY <1>0, <1>3 DEF Fetch, LateNext, Bootstrap, Boot, BootFails
<1>4. CASE Nested(r) \/ Inject(r) \/ Secure(r) \/ InjectRoute(r) \/ Authorize(r)
  BY <1>1, <1>2, <1>4 DEF Nested, Inject, Secure, InjectRoute, Authorize
<1>5. CASE Use(r) \/ Handle(r) \/ Invoke(r) \/ Await(r) \/ Wake(r) \/ Recapture(r)
  BY <1>0, <1>5 DEF Use, Handle, Invoke, Await, Wake, Recapture
<1>6. CASE SetUser(r) \/ Defer(r) \/ TouchBody(r) \/ CallNext(r) \/ Return(r) \/ Throw(r)
  BY <1>0, <1>1, <1>2, <1>6 DEF SetUser, Defer, TouchBody, CallNext, Return, Throw
<1>7. CASE OnError(r) \/ ErrorAnswered(r) \/ ErrorBubbles(r) \/ OnErrorAbove(r)
  <2>1. Chain[Here(r)].router \in 0..2 /\ (at[r].phase = "bubbling" => at[r].router - 1 \in 0..2)
    BY <1>0, ChainFacts DEF RequestsInv, RequestInv, PlaceInv
  <2>2. QED
    BY <1>0, <1>2, <1>7, <2>1 DEF OnError, ErrorAnswered, ErrorBubbles, OnErrorAbove, HandlesError
<1>8. CASE Back(r) \/ Answer(r) \/ RunDeferred(r) \/ DeferredEnds(r) \/ Forget(r)
  BY <1>0, <1>8 DEF Back, Answer, RunDeferred, DeferredEnds, Forget
<1>9. QED
  BY <1>3, <1>4, <1>5, <1>6, <1>7, <1>8 DEF Step

(* The frames that the turn of a request may run in and carry.             *)
LEMMA FramesTyped ==
  ASSUME RequestsInv, NEW r \in Requests
  PROVE  /\ scopes[r] \in Frames /\ NoFrame \in Frames /\ CurrentFrame \in Frames
         /\ carried \in Frames /\ synchronousFrame \in Frames
         /\ Act(r).from \in Frames /\ Act(r).als \in Frames /\ Act(r).frame \in Frames
         /\ Act(r).previous \in Frames
         /\ Carried(carried, scopes[r]) \in Frames
         /\ \A i \in Layers : WithStorage(i) \in Frames
<1>1. scopes[r] \in Frames /\ carried \in Frames /\ synchronousFrame \in Frames
  BY DEF RequestsInv, Typed, TurnInv
<1>2. Act(r) \in ActTypes
  BY DEF RequestsInv, Typed, Act, Here
<1>3. NoFrame \in Frames /\ CurrentFrame \in Frames
  BY <1>1, CurrentTyped, NoFrameTyped
<1>4. Carried(carried, scopes[r]) \in Frames
  BY <1>1, CarriedTyped
<1>5. \A i \in Layers : WithStorage(i) \in Frames
  BY <1>3, ModeAssumption DEF WithStorage, Frames, NoFrame
<1>6. QED
  BY <1>1, <1>2, <1>3, <1>4, <1>5 DEF ActTypes

LEMMA ActsTyped ==
  ASSUME RequestsInv, NEW r \in Requests, Fetch(r) \/ LateNext(r) \/ Step(r)
  PROVE  acts' \in [Requests -> [Layers -> ActTypes]]
<1> DEFINE Becomes(i, act) == acts' = [acts EXCEPT ![r][i] = act]
<1>a. /\ acts \in [Requests -> [Layers -> ActTypes]] /\ mode[r] \in {"sync", "async"}
      /\ Here(r) \in Layers /\ 1 \in Layers /\ values[r] \in Values
  BY ChainFacts DEF RequestsInv, Typed, Here
<1>0. /\ acts \in [Requests -> [Layers -> ActTypes]] /\ mode[r] \in {"sync", "async"}
      /\ Here(r) \in Layers /\ 1 \in Layers /\ acts[r][1] \in ActTypes
      /\ Act(r) \in ActTypes /\ acts[r][Here(r)] = Act(r) /\ values[r].options \in {0} \cup Layers
  BY <1>a DEF Act, Values
<1>1. ASSUME NEW i \in Layers, NEW act \in ActTypes, Becomes(i, act)
      PROVE  acts' \in [Requests -> [Layers -> ActTypes]]
  BY <1>0, <1>1
<1>2. CASE UNCHANGED acts
  BY <1>0, <1>2
<1>3. CASE Fetch(r)
  <2> DEFINE frame == [req |-> r, mode |-> mode[r], storage |-> CurrentFrame.storage]
  <2>1. frame \in Frames
    BY <1>0, FramesTyped DEF Frames
  <2>2. [NoAct EXCEPT !.als = carried, !.frame = frame] \in ActTypes
    BY <2>1, NoFrameTyped, FramesTyped DEF ActTypes
  <2>3. QED
    BY <1>0, <1>1, <1>3, <2>2 DEF Fetch
<1>4. CASE Bootstrap(r)
  <2>1. PICK scope, als : Becomes(1, [NoAct EXCEPT !.from = als, !.als = als, !.frame = scope])
                          /\ scope \in Frames /\ als \in Frames
    <3>1. [Act(r).frame EXCEPT !.storage = 0] \in Frames
      BY FramesTyped DEF Frames
    <3>2. QED
      BY <1>4, <3>1, FramesTyped, CarriedTyped DEF Bootstrap
  <2>2. [NoAct EXCEPT !.from = als, !.als = als, !.frame = scope] \in ActTypes
    BY <2>1, NoFrameTyped DEF ActTypes
  <2>3. QED
    BY <1>0, <1>1, <2>1, <2>2
<1>5. CASE Use(r) \/ Handle(r)
  <2>1. \A options \in {0} \cup Layers : Called(r, options) \in ActTypes
    BY NoFrameTyped, FramesTyped DEF Called, ActTypes
  <2>2. QED
    BY <1>0, <1>1, <1>5, <2>1 DEF Use, Handle
<1>6. CASE Await(r)
  <2>1. [Act(r) EXCEPT !.awaited = TRUE] \in ActTypes
    BY <1>0 DEF ActTypes
  <2>2. acts' = [acts EXCEPT ![r][Here(r)] = [Act(r) EXCEPT !.awaited = TRUE]]
    BY <1>0, <1>6 DEF Await
  <2>3. QED
    BY <1>0, <1>1, <2>1, <2>2
<1>7. CASE CallNext(r)
  <2>1. PICK stored \in BOOLEAN :
          Becomes(Here(r), [Act(r) EXCEPT !.called = TRUE, !.awaited = FALSE,
                                          !.previous = scopes[r], !.stored = stored])
    BY <1>0, <1>7 DEF CallNext
  <2>2. [Act(r) EXCEPT !.called = TRUE, !.awaited = FALSE, !.previous = scopes[r],
                       !.stored = stored] \in ActTypes
    BY <1>0, <2>1, FramesTyped DEF ActTypes
  <2>3. QED
    BY <1>0, <1>1, <2>1, <2>2
<1>8. CASE Return(r) \/ Throw(r) \/ ErrorAnswered(r)
  <2>1. [NoAct EXCEPT !.from = Act(r).from] \in ActTypes
    BY NoFrameTyped, FramesTyped DEF ActTypes
  <2>2. QED
    BY <1>0, <1>1, <1>8, <2>1, NoFrameTyped DEF Return, Leaves, Throw, ErrorAnswered
<1>9. CASE Forget(r)
  BY <1>0, <1>9, NoFrameTyped DEF Forget
<1>10. QED
  BY <1>2, <1>3, <1>4, <1>5, <1>6, <1>7, <1>8, <1>9 DEF Step, LateNext, Boot, BootFails, Nested,
     Inject, Secure, InjectRoute, Authorize, Invoke, Wake, Recapture, SetUser, Defer, TouchBody,
     OnError, ErrorBubbles, OnErrorAbove, Back, Answer, RunDeferred, DeferredEnds

LEMMA ValuesTyped ==
  ASSUME RequestsInv, NEW r \in Requests, Fetch(r) \/ LateNext(r) \/ Step(r)
  PROVE  values' \in [Requests -> Values]
<1>0. /\ values \in [Requests -> Values] /\ values[r] \in Values /\ Here(r) \in Layers
      /\ Act(r).options \in {0} \cup Layers /\ Chain[1].router = 1
  BY ChainFacts DEF RequestsInv, Typed, Here, Act, ActTypes
<1>1. CASE UNCHANGED values
  BY <1>0, <1>1
<1>2. CASE Fetch(r)
  <2>1. HasContext => CurrentFrame.req \in Requests
    <3>1. CASE turn = Nobody
      BY <3>1 DEF RequestsInv, TurnInv, HasContext, CurrentFrame, NoFrame
    <3>2. CASE turn # Nobody
      <4>1. PICK s \in Requests : turn = s /\ at[s].phase = "user"
        BY <1>2, <3>2 DEF Fetch, Runs, In, RequestsInv, TurnInv
      <4>2. Entered(s, Here(s)) /\ mode[s] \in {"sync", "async"}
        BY <4>1 DEF RequestsInv, RequestInv, FramesInv, LayersInv, Live, Here, Typed
      <4>3. Act(s).frame.req = s /\ (Act(s).als.mode = "async" => Act(s).als.req = s)
        BY <4>2 DEF Entered, OwnFrame, Act
      <4>4. QED
        BY <4>1, <4>3 DEF RequestsInv, TurnInv, HasContext, CurrentFrame, NoFrame, Act, Here
    <3>3. QED
      BY <3>1, <3>2
  <2>2. QED
    BY <1>0, <1>2, <2>1 DEF Fetch
<1>3. CASE Bootstrap(r) \/ Forget(r)
  BY <1>0, <1>3, NoFrameTyped DEF Bootstrap, Forget
<1>4. CASE Boot(r) \/ Inject(r) \/ Secure(r) \/ InjectRoute(r) \/ Use(r) \/ SetUser(r)
  <2>1. PICK own : values' = [values EXCEPT ![r] = own]
                   /\ own \in {[values[r] EXCEPT !.creator = Chain[1].router], values[r],
                               [values[r] EXCEPT !.injected = TRUE, !.hono = r],
                               [values[r] EXCEPT !.applied = TRUE], [values[r] EXCEPT !.hono = r],
                               [values[r] EXCEPT !.options = Here(r)],
                               [values[r] EXCEPT !.user = r]}
    BY <1>0, <1>4 DEF Boot, Inject, Secure, InjectRoute, Use, SetUser
  <2>2. own \in Values
    BY <1>0, <2>1 DEF Values
  <2>3. QED
    BY <1>0, <2>1, <2>2
<1>5. CASE Return(r) \/ Throw(r)
  BY <1>0, <1>5 DEF Return, Leaves, Throw, Values
<1>6. QED
  BY <1>1, <1>2, <1>3, <1>4, <1>5 DEF Step, LateNext, BootFails, Nested, Authorize, Handle, Invoke,
     Await, Wake, Recapture, Defer, TouchBody, CallNext, OnError, ErrorAnswered, ErrorBubbles,
     OnErrorAbove, Back, Answer, RunDeferred, DeferredEnds

LEMMA ScopesTyped ==
  ASSUME RequestsInv, NEW r \in Requests, Fetch(r) \/ LateNext(r) \/ Step(r)
  PROVE  scopes' \in [Requests -> Frames]
<1>0. scopes \in [Requests -> Frames] /\ Here(r) \in Layers
  BY DEF RequestsInv, Typed, Here
<1>1. CASE UNCHANGED scopes
  BY <1>0, <1>1
<1>2. CASE Bootstrap(r)
  <2>1. [Act(r).frame EXCEPT !.storage = 0] \in Frames
    BY FramesTyped DEF Frames
  <2>2. QED
    BY <1>0, <1>2, <2>1, FramesTyped DEF Bootstrap
<1>3. CASE CallNext(r)
  <2>1. PICK current \in {CurrentFrame, WithStorage(Here(r))} :
          scopes' = [scopes EXCEPT ![r] = Downstream(r, current)]
    BY <1>3 DEF CallNext
  <2>2. Downstream(r, current) \in Frames
    BY <1>0, <2>1, FramesTyped DEF Downstream
  <2>3. QED
    BY <1>0, <2>1, <2>2
<1>4. CASE Back(r) \/ Forget(r)
  BY <1>0, <1>4, FramesTyped DEF Back, Forget
<1>5. QED
  BY <1>1, <1>2, <1>3, <1>4 DEF Step, Fetch, LateNext, Boot, BootFails, Nested, Inject, Secure,
     InjectRoute, Authorize, Use, Handle, Invoke, Await, Wake, Recapture, SetUser, Defer, TouchBody,
     Return, Throw, OnError, ErrorAnswered, ErrorBubbles, OnErrorAbove, Answer, RunDeferred,
     DeferredEnds

LEMMA BodyTyped ==
  ASSUME RequestsInv, NEW r \in Requests, Fetch(r) \/ LateNext(r) \/ Step(r)
  PROVE  body' \in [Requests -> Bodies]
<1>0. body \in [Requests -> Bodies] /\ body[r] \in Bodies
  BY DEF RequestsInv, Typed
<1>1. CASE UNCHANGED body
  BY <1>0, <1>1
<1>2. CASE Inject(r) \/ InjectRoute(r)
  <2>1. SetBodySource(body[r]) \in Bodies
    BY <1>0 DEF SetBodySource, Bodies
  <2>2. QED
    BY <1>0, <1>2, <2>1 DEF Inject, InjectRoute
<1>3. CASE TouchBody(r)
  <2>1. ReadText(body[r]) \in Bodies
    <3>1. CASE body[r].text
      BY <1>0, <3>1 DEF ReadText
    <3>2. CASE ~body[r].text /\ ~body[r].isolated
      BY <1>0, <3>2 DEF ReadText, Bodies
    <3>3. CASE ~body[r].text /\ body[r].isolated
      BY <1>0, <3>3 DEF ReadText, Bodies
    <3>4. QED
      BY <3>1, <3>2, <3>3
  <2>2. ReadForm(body[r]) \in Bodies
    <3>1. CASE body[r].form
      BY <1>0, <3>1 DEF ReadForm
    <3>2. CASE ~body[r].form
      BY <1>0, <3>2 DEF ReadForm, Bodies
    <3>3. QED
      BY <3>1, <3>2
  <2>3. PrepareForRawAccess(body[r]) \in Bodies
    BY <1>0 DEF PrepareForRawAccess, Bodies
  <2>4. /\ [PrepareForRawAccess(body[r]) EXCEPT !.exposed = TRUE] \in Bodies
        /\ [body[r] EXCEPT !.used = TRUE] \in Bodies
    BY <1>0, <2>3 DEF Bodies
  <2>5. QED
    BY <1>0, <1>3, <2>1, <2>2, <2>4 DEF TouchBody, ReadBody
<1>4. QED
  BY <1>1, <1>2, <1>3 DEF Step, Fetch, LateNext, Bootstrap, Boot, BootFails, Nested, Secure,
     Authorize, Use, Handle, Invoke, Await, Wake, Recapture, SetUser, Defer, CallNext,
     Return, Throw, OnError, ErrorAnswered, ErrorBubbles, OnErrorAbove, Back, Answer, RunDeferred,
     DeferredEnds, Forget

LEMMA TypedStep ==
  ASSUME RequestsInv, NEW r \in Requests, Fetch(r) \/ LateNext(r) \/ Step(r)
  PROVE  Typed'
<1>0. /\ mode \in [Requests -> {"sync", "async"}] /\ deferred \in [Requests -> BOOLEAN]
      /\ kept \in [Requests -> {0} \cup Layers] /\ secured \in [Requests -> Nat]
      /\ Here(r) \in Layers
  BY DEF RequestsInv, Typed, Here
<1>1. mode' \in [Requests -> {"sync", "async"}]
  BY <1>0, OthersUntouched DEF RequestsInv
<1>2. deferred' \in [Requests -> BOOLEAN]
  <2>1. CASE UNCHANGED deferred
    BY <1>0, <2>1
  <2>2. CASE Defer(r) \/ DeferredEnds(r)
    BY <1>0, <2>2 DEF Defer, DeferredEnds
  <2>3. QED
    BY <2>1, <2>2 DEF Step, Fetch, LateNext, Bootstrap, Boot, BootFails, Nested, Inject, Secure,
       InjectRoute, Authorize, Use, Handle, Invoke, Await, Wake, Recapture, SetUser, TouchBody,
       CallNext, Return, Throw, OnError, ErrorAnswered, ErrorBubbles, OnErrorAbove, Back, Answer,
       RunDeferred, Forget
<1>3. kept' \in [Requests -> {0} \cup Layers]
  <2>1. CASE UNCHANGED kept
    BY <1>0, <2>1
  <2>2. CASE Return(r) \/ LateNext(r)
    BY <1>0, <2>2 DEF Return, LateNext
  <2>3. QED
    BY <2>1, <2>2 DEF Step, Fetch, Bootstrap, Boot, BootFails, Nested, Inject, Secure,
       InjectRoute, Authorize, Use, Handle, Invoke, Await, Wake, Recapture, SetUser, Defer,
       TouchBody, CallNext, Throw, OnError, ErrorAnswered, ErrorBubbles, OnErrorAbove, Back, Answer,
       RunDeferred, DeferredEnds, Forget
<1>4. secured' \in [Requests -> Nat]
  <2>1. CASE UNCHANGED secured
    BY <1>0, <2>1
  <2>2. CASE Secure(r) \/ Forget(r)
    BY <1>0, <2>2 DEF Secure, Forget
  <2>3. QED
    BY <2>1, <2>2 DEF Step, Fetch, LateNext, Bootstrap, Boot, BootFails, Nested, Inject,
       InjectRoute, Authorize, Use, Handle, Invoke, Await, Wake, Recapture, SetUser, Defer,
       TouchBody, CallNext, Return, Throw, OnError, ErrorAnswered, ErrorBubbles, OnErrorAbove, Back,
       Answer, RunDeferred, DeferredEnds
<1>5. QED
  BY <1>1, <1>2, <1>3, <1>4, AtTyped, ActsTyped, ValuesTyped, ScopesTyped, BodyTyped DEF Typed

-----------------------------------------------------------------------------
(* Turns                                                                   *)

(* Outside of turns: what is not running stays so.                         *)
LEMMA TurnStays ==
  ASSUME RequestsInv, NEW r \in Requests, Untouched(r) \/ at'[r].phase \notin Running,
         \A q \in Requests \ {r} : Untouched(q), turn # r, Stays
  PROVE  TurnInv'
BY DEF RequestsInv, TurnInv, Stays, NoFrame, Untouched

LEMMA TurnEnds ==
  ASSUME RequestsInv, NEW r \in Requests, at'[r].phase \notin Running,
         \A q \in Requests \ {r} : Untouched(q), turn = r, Ends
  PROVE  TurnInv'
BY NobodyAssumption, NoFrameTyped DEF RequestsInv, TurnInv, Ends, EndTurn, Untouched

(* A turn starts or goes on, in a frame that the invariant allows.         *)
LEMMA TurnRuns ==
  ASSUME RequestsInv, NEW r \in Requests, at'[r].phase \in Running,
         \A q \in Requests \ {r} : Untouched(q), turn \in {r, Nobody}, turn' = r,
         synchronousFrame' \in Frames, carried' \in Frames,
         LET i == at'[r].layer phase == at'[r].phase IN
         /\ phase \in {"enter", "error"} => synchronousFrame' = scopes'[r]
         /\ phase = "user" =>
              \/ synchronousFrame' = acts'[r][i].frame
              \/ /\ synchronousFrame' = NoFrame /\ carried' = acts'[r][i].als
                 /\ acts'[r][i].awaited \/ acts'[r][i].called
         /\ phase = "after" => synchronousFrame' = acts'[r][1].frame
  PROVE  TurnInv'
BY NobodyAssumption DEF RequestsInv, TurnInv, Untouched

LEMMA TurnStep ==
  ASSUME RequestsInv, NEW r \in Requests, Fetch(r) \/ LateNext(r) \/ Step(r)
  PROVE  TurnInv'
<1>0. /\ \A q \in Requests \ {r} : Untouched(q)
      /\ at \in [Requests -> [layer : Layers, phase : Phases, router : 0..2]]
      /\ acts \in [Requests -> [Layers -> ActTypes]]
      /\ Here(r) \in Layers /\ Here(r) = at[r].layer
  BY OthersUntouched DEF RequestsInv, Typed, Here
<1>a. turn = r <=> at[r].phase \in Running
  BY DEF RequestsInv, TurnInv
<1>b. turn = Nobody => synchronousFrame = NoFrame
  BY DEF RequestsInv, TurnInv
<1>c. \A parent \in Frames : Carried(parent, scopes[r]) \in Frames
                             /\ Carried(parent, Act(r).frame) \in Frames
  BY FramesTyped, CarriedTyped
<1> USE DEF GoTo, Runs, Idle, In, Enters, Running, Goes, Starts, StartsIn, Run, RunFrom, BeginTurn
<1>1. CASE Fetch(r) \/ Bootstrap(r) \/ BootFails(r) \/ Answer(r) \/ Forget(r)
  <2>1. Stays /\ at'[r].phase \notin Running /\ turn # r
    BY <1>0, <1>a, <1>1, NobodyAssumption DEF Fetch, Bootstrap, BootFails, Answer, Forget
  <2>2. QED
    BY <1>0, <2>1, TurnStays
<1>2. CASE LateNext(r)
  <2>1. Stays /\ at'[r] = at[r] /\ at[r].phase \notin Running /\ turn # r
    BY <1>2, NobodyAssumption DEF LateNext
  <2>2. QED
    BY <1>0, <2>1, TurnStays
<1>3. CASE \/ Ends /\ (Secure(r) \/ Authorize(r))
           \/ Handle(r) \/ Await(r) \/ Return(r) \/ Throw(r)
           \/ ErrorAnswered(r) \/ ErrorBubbles(r) \/ DeferredEnds(r)
  <2>1. CASE Ends /\ (Secure(r) \/ Authorize(r))
    <3>1. turn = r /\ at'[r].phase = "up"
      BY <1>0, <2>1, NobodyAssumption DEF Secure, Authorize, Ends, Completes
    <3>2. QED
      BY <1>0, <2>1, <3>1, TurnEnds
  <2>2. CASE Handle(r) \/ Await(r) \/ Return(r) \/ Throw(r)
    <3>1. turn = r /\ Ends /\ at'[r].phase \in {"booting", "waiting", "up", "failed"}
      BY <1>0, <2>2 DEF Handle, Await, Return, Throw, Completes
    <3>2. QED
      BY <1>0, <3>1, TurnEnds
  <2>3. CASE ErrorAnswered(r) \/ ErrorBubbles(r) \/ DeferredEnds(r)
    <3>1. turn = r /\ Ends /\ at'[r].phase \in {"bubbling", "rejected", "up", "over"}
      BY <1>0, <2>3 DEF ErrorAnswered, ErrorBubbles, DeferredEnds, Completes
    <3>2. QED
      BY <1>0, <3>1, TurnEnds
  <2>4. QED
    BY <1>3, <2>1, <2>2, <2>3
<1>4. CASE \/ Nested(r) \/ Inject(r) \/ InjectRoute(r)
           \/ ~Ends /\ (Secure(r) \/ Authorize(r))
  <2>1. /\ turn = r /\ turn' = r /\ at'[r].phase = "enter" /\ scopes'[r] = scopes[r]
        /\ synchronousFrame' = scopes[r] /\ carried' = Carried(carried, scopes[r])
    BY <1>0, <1>4 DEF Nested, Inject, Secure, InjectRoute, Authorize, Descends
  <2>2. QED
    BY <1>0, <1>c, <2>1, FramesTyped, TurnRuns
<1>5. CASE Boot(r)
  <2>1. /\ turn = Nobody /\ turn' = r /\ at'[r].phase = "enter" /\ scopes'[r] = scopes[r]
        /\ synchronousFrame' = scopes[r] /\ carried' = Carried(Act(r).als, scopes[r])
    BY <1>0, <1>5 DEF Boot
  <2>2. QED
    BY <1>0, <1>c, <2>1, FramesTyped, TurnRuns
<1>6. CASE Use(r)
  <2>1. /\ turn = r /\ turn' = r /\ at'[r].phase = "user" /\ at'[r].layer = Here(r)
        /\ acts'[r][Here(r)].frame = scopes[r]
        /\ synchronousFrame' = scopes[r] /\ carried' = Carried(carried, scopes[r])
    BY <1>0, <1>6 DEF Use, Called, NoAct
  <2>2. QED
    BY <1>0, <1>c, <2>1, FramesTyped, TurnRuns
<1>7. CASE Invoke(r)
  <2>1. /\ turn = Nobody /\ turn' = r /\ at'[r].phase = "user" /\ at'[r].layer = Here(r)
        /\ acts' = acts
        /\ synchronousFrame' = scopes[r] /\ carried' = Carried(Act(r).from, scopes[r])
    BY <1>0, <1>7 DEF Invoke
  <2>a. at[r].phase = "booting" /\ at[r].layer > 1
    BY <1>0, <1>7, ChainFacts DEF Invoke
  <2>b. OwnFrame(r, Here(r), scopes[r]) /\ Entered(r, Here(r))
    BY <2>a DEF RequestsInv, RequestInv, FramesInv, LayersInv, Live, Here
  <2>2. OwnFrame(r, Here(r), scopes[r]) /\ OwnFrame(r, Here(r), Act(r).frame)
    BY <2>b DEF Entered, Act
  <2>3. Act(r).frame = scopes[r]
    BY <1>0, <2>2, FramesTyped, OneFrame DEF RequestsInv
  <2>4. QED
    BY <1>0, <1>c, <2>1, <2>3, FramesTyped, TurnRuns DEF Act
<1>8. CASE Wake(r)
  <2>1. /\ turn = Nobody /\ turn' = r /\ at'[r].phase = "user" /\ at'[r].layer = Here(r)
        /\ acts' = acts /\ synchronousFrame' = NoFrame /\ carried' = Act(r).als
    BY <1>0, <1>b, <1>8 DEF Wake
  <2>2. Act(r).awaited
    BY <1>8 DEF Wake, RequestsInv, RequestInv, FramesInv, LayersInv, Live, Act, Here
  <2>3. QED
    BY <1>0, <2>1, <2>2, FramesTyped, TurnRuns DEF Act
<1>9. CASE Recapture(r)
  <2>1. /\ turn = r /\ turn' = r /\ at' = at /\ acts' = acts /\ at[r].phase = "user"
        /\ synchronousFrame' = Act(r).frame /\ carried' = Carried(carried, Act(r).frame)
    BY <1>0, <1>9 DEF Recapture
  <2>2. QED
    BY <1>0, <1>c, <2>1, FramesTyped, TurnRuns DEF Act
<1>10. CASE SetUser(r) \/ Defer(r) \/ TouchBody(r)
  <2>1. /\ turn = r /\ turn' = r /\ at' = at /\ acts' = acts /\ at[r].phase = "user"
        /\ synchronousFrame' = synchronousFrame /\ carried' = carried
    BY <1>0, <1>10 DEF SetUser, Defer, TouchBody, Stays
  <2>2. QED
    BY <1>0, <2>1, TurnRuns DEF RequestsInv, TurnInv
<1>11. CASE CallNext(r)
  <2>1. PICK current \in {CurrentFrame, WithStorage(Here(r))} :
          /\ scopes' = [scopes EXCEPT ![r] = Downstream(r, current)]
          /\ synchronousFrame' = Downstream(r, current)
          /\ carried' = Carried(IF current = CurrentFrame THEN carried
                                ELSE Carried(carried, current), Downstream(r, current))
    BY <1>11 DEF CallNext
  <2>2. Downstream(r, current) \in Frames /\ current \in Frames
    BY <1>0, <2>1, FramesTyped DEF Downstream
  <2>3. carried' \in Frames
    BY <2>1, <2>2, FramesTyped, CarriedTyped
  <2>4. /\ turn = r /\ turn' = r /\ at'[r].phase = "enter"
        /\ scopes'[r] = Downstream(r, current)
    BY <1>0, <1>11, <2>1 DEF CallNext, Descends, RequestsInv, Typed
  <2>5. QED
    BY <1>0, <2>1, <2>2, <2>3, <2>4, TurnRuns
<1>12. CASE OnError(r) \/ OnErrorAbove(r)
  <2>1. /\ turn = Nobody /\ turn' = r /\ at'[r].phase = "error" /\ scopes' = scopes
        /\ synchronousFrame' = scopes[r] /\ carried' = Carried(Act(r).from, scopes[r])
    BY <1>0, <1>12 DEF OnError, OnErrorAbove, HandlesError
  <2>2. QED
    BY <1>0, <1>c, <2>1, FramesTyped, TurnRuns
<1>13. CASE Back(r)
  <2>1. /\ turn = Nobody /\ turn' = r /\ at'[r].phase = "user" /\ at'[r].layer = Here(r)
        /\ acts' = acts /\ synchronousFrame' = NoFrame /\ carried' = Act(r).als
    BY <1>0, <1>b, <1>13 DEF Back
  <2>2. Act(r).called
    BY <1>13 DEF Back, RequestsInv, RequestInv, FramesInv, LayersInv, Live, Act, Here, Awaits
  <2>3. QED
    BY <1>0, <2>1, <2>2, FramesTyped, TurnRuns DEF Act
<1>14. CASE RunDeferred(r)
  <2>1. /\ turn = Nobody /\ turn' = r /\ at'[r].phase = "after" /\ at'[r].layer = 1
        /\ acts' = acts /\ synchronousFrame' = Act(r).frame
        /\ carried' = Carried(Carried(Act(r).als, Act(r).frame), Act(r).frame)
    BY <1>0, <1>14 DEF RunDeferred
  <2>2. Here(r) = 1
    BY <1>14 DEF RunDeferred, RequestsInv, RequestInv, PlaceInv, Answered, Here
  <2>3. QED
    BY <1>0, <1>c, <2>1, <2>2, FramesTyped, TurnRuns DEF Act
<1>15. QED
  BY <1>1, <1>2, <1>3, <1>4, <1>5, <1>6, <1>7, <1>8, <1>9, <1>10, <1>11, <1>12, <1>13, <1>14
     DEF Step

-----------------------------------------------------------------------------
(* Where requests go                                                       *)

LEMMA PlaceStep ==
  ASSUME RequestsInv, NEW r \in Requests, Fetch(r) \/ LateNext(r) \/ Step(r)
  PROVE  PlaceInv(r)'
<1>0. /\ at \in [Requests -> [layer : Layers, phase : Phases, router : 0..2]]
      /\ Here(r) \in Layers /\ Here(r) = at[r].layer /\ PlaceInv(r) /\ Kind(1) = "bootstrap"
      /\ Chain[Here(r)].router \in {1, 2} /\ values[r].creator \in {0, 1}
  BY ChainFacts DEF RequestsInv, Typed, RequestInv, Here, Values
<1> USE DEF PlaceInv, Answered, GoTo, Runs, Idle, In, Enters
<1>1. CASE Completes(r, Here(r)) /\ at[r].phase \in {"enter", "user", "error"}
  <2>1. PICK o \in {0} \cup 1..(Here(r) - 1) :
          IsPrevious(o, Here(r)) /\ Above(Here(r)) = IF o = 0 THEN 1 ELSE o
    BY <1>1, CompletesAbove DEF Live
  <2>2. Above(Here(r)) = 1 \/ Kind(Above(Here(r))) = "user"
    BY <2>1 DEF IsPrevious
  <2>3. QED
    BY <1>0, <1>1, <2>2 DEF Completes
<1>2. CASE Descends(r) /\ at[r].phase \in {"enter", "user"}
  <2>1. Here(r) + 1 > 1
    BY <1>0, ChainFacts
  <2>2. QED
    BY <1>0, <1>2, <2>1 DEF Descends
<1>3. CASE Fetch(r) \/ LateNext(r) \/ Bootstrap(r) \/ Boot(r) \/ BootFails(r)
  BY <1>0, <1>3 DEF Fetch, LateNext, Bootstrap, Boot, BootFails
<1>4. CASE Nested(r) \/ Inject(r) \/ Secure(r) \/ InjectRoute(r) \/ Authorize(r)
  BY <1>1, <1>2, <1>4 DEF Nested, Inject, Secure, InjectRoute, Authorize
<1>5. CASE Use(r) \/ Handle(r) \/ Invoke(r) \/ Await(r) \/ Wake(r) \/ Recapture(r)
  <2>1. Kind(Endpoint) = "handler" /\ Endpoint > 1
        /\ (Kind(Here(r)) = "handler" => Here(r) = Endpoint)
    BY <1>0, ChainFacts
  <2>2. QED
    BY <1>0, <1>5, <2>1 DEF Use, Handle, Invoke, Await, Wake, Recapture
<1>6. CASE SetUser(r) \/ Defer(r) \/ TouchBody(r) \/ CallNext(r) \/ Return(r) \/ Throw(r)
  BY <1>0, <1>1, <1>2, <1>6 DEF SetUser, Defer, TouchBody, CallNext, Return, Throw
<1>7. CASE OnError(r) \/ ErrorAnswered(r) \/ ErrorBubbles(r) \/ OnErrorAbove(r)
  <2>1. at[r].router \in 0..2
    BY <1>0
  <2>2. QED
    BY <1>0, <1>1, <1>7, <2>1
       DEF OnError, ErrorAnswered, ErrorBubbles, OnErrorAbove, HandlesError, IsRequestRoot
<1>8. CASE Back(r) \/ Answer(r) \/ RunDeferred(r) \/ DeferredEnds(r) \/ Forget(r)
  BY <1>0, <1>8 DEF Back, Answer, RunDeferred, DeferredEnds, Forget
<1>9. QED
  BY <1>3, <1>4, <1>5, <1>6, <1>7, <1>8 DEF Step

-----------------------------------------------------------------------------
(* What the layers remember                                                *)

(* What is remembered above a layer stays as it was.                       *)
LEMMA LayersKept ==
  ASSUME NEW r \in Requests, NEW i \in Layers, NEW k \in 1..i, AllAwait(r, i), mode' = mode,
         \A j \in 1..(k - 1) : acts'[r][j] = acts[r][j]
  PROVE  AllAwait(r, k)'
<1>1. k \in Layers /\ k \in Nat /\ i \in Nat
  BY ChainFacts
<1> SUFFICES ASSUME NEW j \in 2..(k - 1)
             PROVE  (IF Kind(j) = "user" THEN Awaits(r, j) ELSE acts[r][j] = NoAct)'
  BY DEF AllAwait
<1>2. j \in 2..(i - 1) /\ j \in Layers /\ acts'[r][j] = acts[r][j]
      /\ \A l \in 1..j : acts'[r][l] = acts[r][l]
  BY <1>1, ChainFacts
<1>3. CASE Kind(j) = "user"
  BY <1>2, <1>3, AwaitsKept DEF AllAwait
<1>4. CASE Kind(j) # "user"
  BY <1>2, <1>4 DEF AllAwait
<1>5. QED
  BY <1>3, <1>4

(* A step that changes nothing but the phase.                              *)
LEMMA PhaseOnly ==
  ASSUME RequestsInv, NEW r \in Requests, mode' = mode, at'[r].layer = at[r].layer,
         acts'[r] = acts[r], scopes'[r] = scopes[r],
         at[r].phase \in Live, at'[r].phase \in Live,
         at'[r].phase # "enter", at[r].phase # "up", at'[r].phase # "up",
         at'[r].phase \in {"user", "waiting"} =>
           \/ at[r].phase \in {"user", "waiting"}
           \/ at[r].phase = "booting" /\ at[r].layer > 1,
         at'[r].phase \in {"booting", "waiting"} => at[r].phase = at'[r].phase
  PROVE  FramesInv(r)'
<1>0. FramesInv(r) /\ LayersInv(r, at[r].layer, at[r].phase)
  BY DEF RequestsInv, RequestInv, FramesInv
<1>1. \A i, frame : OwnFrame(r, i, frame) <=> OwnFrame(r, i, frame)'
  BY DEF OwnFrame, IsStorage
<1>2. \A i : (Entered(r, i) <=> Entered(r, i)') /\ (Awaits(r, i) <=> Awaits(r, i)')
  BY DEF Entered, Awaits, OwnFrame, IsStorage, IsPrevious
<1>3. \A i : (Fresh(r, i) <=> Fresh(r, i)') /\ (AllAwait(r, i) <=> AllAwait(r, i)')
  BY <1>2 DEF Fresh, AllAwait
<1>4. LayersInv(r, at[r].layer, at[r].phase)'
  BY <1>0, <1>1, <1>2, <1>3 DEF LayersInv
<1>5. QED
  BY <1>0, <1>4 DEF FramesInv, Live

(* A layer other than a middleware calls the layer below.                  *)
LEMMA FramesDescend ==
  ASSUME RequestsInv, NEW r \in Requests, mode' = mode, Here(r) + 1 \in Layers,
         at'[r].layer = Here(r) + 1, at'[r].phase = "enter",
         acts'[r] = acts[r], scopes'[r] = scopes[r], Kind(Here(r)) # "user",
         \/ at[r].phase = "enter" /\ Here(r) > 1
         \/ at[r].phase = "booting" /\ Here(r) = 1
  PROVE  FramesInv(r)'
<1>a. PICK i \in Layers : i = Here(r)
  BY DEF RequestsInv, Typed, Here
<1>0. FramesInv(r) /\ LayersInv(r, i, at[r].phase)
  BY <1>a DEF RequestsInv, RequestInv, FramesInv, Here, Live
<1>1. ~acts[r][i].stored /\ (i > 1 => acts[r][i] = NoAct)
  <2>1. i \in i..Endpoint
    BY ChainFacts
  <2>2. CASE i > 1
    <3>1. acts[r][i] = NoAct
      BY <1>0, <1>a, <2>1, <2>2 DEF LayersInv, Fresh
    <3>2. QED
      BY <3>1 DEF NoAct
  <2>3. CASE i = 1
    BY <1>0, <2>3 DEF LayersInv
  <2>4. QED
    BY <2>2, <2>3, ChainFacts
<1>2. OwnFrame(r, i + 1, scopes[r])
  BY <1>0, <1>1, FrameBelow DEF LayersInv
<1>3. OwnFrame(r, i + 1, scopes[r])'
  BY <1>2 DEF OwnFrame, IsStorage
<1>4. AllAwait(r, i)'
  BY <1>0, ChainFacts, LayersKept DEF LayersInv
<1>5. AllAwait(r, i + 1)'
  BY <1>0, <1>1, <1>4, <1>a, ChainFacts DEF AllAwait
<1>6. Fresh(r, i + 1)' /\ Fresh(r, i + 2)'
  BY <1>0, <1>a, ChainFacts DEF LayersInv, Fresh
<1>7. LayersInv(r, i + 1, "enter")'
  BY <1>0, <1>3, <1>5, <1>6, ChainFacts DEF LayersInv
<1>8. QED
  BY <1>0, <1>7, <1>a DEF FramesInv, Live, Here

(* The promise of a layer fulfils, and the layer above goes on.            *)
LEMMA FramesComplete ==
  ASSUME RequestsInv, NEW r \in Requests, mode' = mode, at[r].phase \in {"enter", "user", "error"},
         at'[r].layer = Above(Here(r)), at'[r].phase = "up",
         \A j \in Layers \ {Here(r)} : acts'[r][j] = acts[r][j],
         acts'[r][Here(r)] = IF Here(r) = 1 THEN acts[r][1] ELSE NoAct
  PROVE  FramesInv(r)'
<1>a. PICK i \in Layers : i = Here(r)
  BY DEF RequestsInv, Typed, Here
<1>0. FramesInv(r) /\ LayersInv(r, i, at[r].phase) /\ i \in 1..Endpoint
  BY <1>a, ChainFacts DEF RequestsInv, RequestInv, FramesInv, Here, Live
<1>1. PICK o \in {0} \cup 1..(i - 1) :
        IsPrevious(o, i) /\ Above(Here(r)) = IF o = 0 THEN 1 ELSE o
  BY <1>a, CompletesAbove DEF Live
<1>2. PICK k \in 1..i : k = (IF o = 0 THEN 1 ELSE o) /\ at'[r].layer = k
  BY <1>0, <1>1
<1>3. \A j \in 1..(k - 1) : acts'[r][j] = acts[r][j]
  BY <1>0, <1>a, <1>2, ChainFacts
<1>4. AllAwait(r, k)'
  BY <1>0, <1>3, LayersKept DEF LayersInv
<1>5. Fresh(r, k + 1)'
  <2> SUFFICES ASSUME NEW j \in (k + 1)..Endpoint PROVE acts'[r][j] = NoAct
    BY DEF Fresh
  <2>1. CASE j > i
    BY <2>1, <1>0, <1>a, ChainFacts DEF LayersInv, Fresh
  <2>2. CASE j = i
    BY <2>2, <1>0, <1>a, <1>2
  <2>3. CASE j < i
    <3>1. Kind(j) # "user" /\ j \in 2..(i - 1)
      BY <2>3, <1>0, <1>1, <1>2 DEF IsPrevious
    <3>2. QED
      BY <2>3, <3>1, <1>0, <1>a, ChainFacts DEF LayersInv, AllAwait
  <2>4. QED
    BY <1>0, <2>1, <2>2, <2>3
<1>6. k > 1 => Awaits(r, k)'
  <2>1. ASSUME k > 1 PROVE Awaits(r, k)'
    <3>1. Kind(k) = "user" /\ k \in 2..(i - 1) /\ k \in Layers
      BY <2>1, <1>0, <1>1, <1>2, ChainFacts DEF IsPrevious
    <3>2. \A j \in 1..k : acts'[r][j] = acts[r][j]
      BY <3>1, <1>0, <1>a, ChainFacts
    <3>3. Awaits(r, k)
      BY <3>1, <1>0 DEF LayersInv, AllAwait
    <3>4. QED
      BY <3>1, <3>2, <3>3, AwaitsKept
  <2>2. QED
    BY <2>1
<1>7. 1 \in Layers
  BY ChainFacts
<1>8. acts'[r][1] = acts[r][1]
  BY <1>7, <1>a
<1>9. LayersInv(r, k, "up")'
  BY <1>0, <1>4, <1>5, <1>6, <1>8 DEF LayersInv
<1>10. QED
  BY <1>0, <1>2, <1>8, <1>9 DEF FramesInv, Live

(* A layer below the first changes what it remembers itself.               *)
LEMMA FramesHere ==
  ASSUME RequestsInv, NEW r \in Requests, mode' = mode, NEW i \in Layers, i = Here(r), i > 1,
         at[r].phase \in Live, at[r].phase # "up", at'[r].layer = i,
         at'[r].phase \in {"user", "waiting", "booting", "failed"},
         \A j \in Layers \ {i} : acts'[r][j] = acts[r][j], scopes'[r] = scopes[r],
         at'[r].phase # "failed" => /\ Entered(r, i)'
                                    /\ ~acts'[r][i].called /\ ~acts'[r][i].stored,
         at'[r].phase = "waiting" => acts'[r][i].awaited
  PROVE  FramesInv(r)'
<1>0. FramesInv(r) /\ LayersInv(r, i, at[r].phase) /\ i \in 1..Endpoint /\ i \in 1..i
      /\ acts'[r][1] = acts[r][1]
  BY ChainFacts DEF RequestsInv, RequestInv, FramesInv, Here, Live
<1>1. \A j \in 1..(i - 1) : acts'[r][j] = acts[r][j]
  BY <1>0, ChainFacts
<1>2. AllAwait(r, i)'
  BY <1>0, <1>1, LayersKept DEF LayersInv
<1>3. Fresh(r, i + 1)'
  BY <1>0, ChainFacts DEF LayersInv, Fresh
<1>4. OwnFrame(r, i, scopes[r])'
  <2>1. OwnFrame(r, i, scopes[r])
    BY <1>0 DEF LayersInv
  <2>2. QED
    BY <1>1, <2>1 DEF OwnFrame, IsStorage
<1>5. LayersInv(r, i, at[r].phase)'
  BY <1>0, <1>2, <1>3, <1>4 DEF LayersInv
<1>6. QED
  BY <1>0, <1>5 DEF FramesInv, Live

(* User code has the frame of its layer, or in sync mode after an await    *)
(* none at all.                                                            *)
LEMMA UserFrame ==
  ASSUME RequestsInv, NEW r \in Requests, Runs(r, "user")
  PROVE  /\ OwnFrame(r, Here(r), Act(r).frame)
         /\ Act(r).frame.req = r /\ Act(r).frame # NoFrame
         /\ CurrentFrame = Act(r).frame \/ CurrentFrame = NoFrame
         /\ CurrentFrame = NoFrame => mode[r] = "sync" /\ (Act(r).awaited \/ Act(r).called)
<1>1. Entered(r, Here(r)) /\ mode[r] \in {"sync", "async"}
  BY DEF RequestsInv, RequestInv, FramesInv, LayersInv, Live, Runs, In, Here, Typed
<1>2. Act(r).frame.req = r /\ Act(r).frame.mode = mode[r] /\ Act(r).frame # NoFrame
  BY <1>1, NobodyAssumption DEF Entered, OwnFrame, Act, NoFrame
<1>3. \/ synchronousFrame = Act(r).frame
      \/ /\ synchronousFrame = NoFrame /\ carried = Act(r).als
         /\ Act(r).awaited \/ Act(r).called
  BY DEF RequestsInv, TurnInv, Runs, In, Act, Here
<1>4. QED
  BY <1>1, <1>2, <1>3 DEF Entered, Act, CurrentFrame

(* next() is called in the frame of the layer, or in a new scope.          *)
LEMMA NextFrame ==
  ASSUME RequestsInv, NEW r \in Requests, Runs(r, "user"),
         NEW current \in {CurrentFrame, WithStorage(Here(r))}
  PROVE  \/ /\ Downstream(r, current) = Act(r).frame
            /\ ~(OwnContext(r) /\ current # CurrentFrame)
         \/ /\ Downstream(r, current) = [Act(r).frame EXCEPT !.storage = Here(r)]
            /\ OwnContext(r) /\ current # CurrentFrame
<1> USE DEF Downstream, OwnContext, WithStorage, HasContext
<1>0. Act(r).frame \in Frames /\ Here(r) \in Layers /\ NoFrame.req = Nobody /\ Nobody # r
  BY FramesTyped, NobodyAssumption DEF RequestsInv, Typed, Here, NoFrame
<1>1. CASE CurrentFrame = NoFrame
  <2>1. [NoFrame EXCEPT !.mode = DefaultMode, !.storage = Here(r)].req = Nobody
    BY DEF NoFrame
  <2>2. QED
    BY <1>0, <1>1, <2>1
<1>2. CASE CurrentFrame = Act(r).frame
  <2>1. Act(r).frame # NoFrame /\ Act(r).frame.req = r
    BY UserFrame
  <2>2. Act(r).frame.storage # Here(r)
    BY <1>0, ChainFacts, UserFrame DEF OwnFrame, IsStorage
  <2>3. [Act(r).frame EXCEPT !.storage = Here(r)].req = r
        /\ [Act(r).frame EXCEPT !.storage = Here(r)].storage = Here(r)
    BY <1>0, <2>1 DEF Frames
  <2>4. QED
    BY <1>2, <2>1, <2>2, <2>3
<1>3. QED
  BY <1>1, <1>2, UserFrame

LEMMA FramesNext ==
  ASSUME RequestsInv, NEW r \in Requests, CallNext(r)
  PROVE  FramesInv(r)'
<1>a. PICK i \in Layers : i = Here(r)
  BY DEF RequestsInv, Typed, Here
<1>b. /\ Runs(r, "user") /\ Kind(i) = "user" /\ ~Act(r).called /\ i > 1 /\ i + 1 \in Layers
      /\ i \in 1..Endpoint /\ acts[r] \in [Layers -> ActTypes] /\ Act(r) = acts[r][i]
      /\ Act(r).frame \in Frames /\ scopes[r] \in Frames /\ Act(r) \in ActTypes
  <2>1. acts[r] \in [Layers -> ActTypes] /\ Act(r) = acts[r][i]
    BY <1>a DEF RequestsInv, Typed, Act
  <2>2. Runs(r, "user") /\ Kind(i) = "user" /\ ~Act(r).called
    BY <1>a DEF CallNext
  <2>3. i \in 1..Endpoint /\ i # 1 /\ i # Endpoint /\ Endpoint \in Nat /\ Layers = 1..Endpoint
    BY <2>2, ChainFacts
  <2>4. i > 1 /\ i + 1 \in Layers
    BY <2>3
  <2>5. Act(r).frame \in Frames /\ scopes[r] \in Frames
    BY FramesTyped
  <2>6. QED
    BY <2>1, <2>2, <2>3, <2>4, <2>5
<1>0. FramesInv(r) /\ LayersInv(r, i, "user") /\ mode' = mode
  BY <1>a, <1>b DEF RequestsInv, RequestInv, FramesInv, Here, Live, Runs, In, CallNext
<1>1. /\ at'[r].layer = i + 1 /\ at'[r].phase = "enter"
      /\ \A j \in Layers \ {i} : acts'[r][j] = acts[r][j]
      /\ acts'[r][i].called /\ acts'[r][i].previous = scopes[r]
      /\ acts'[r][i].frame = acts[r][i].frame
      /\ acts'[r][i].als = acts[r][i].als /\ acts'[r][i].options = acts[r][i].options
      /\ \/ scopes'[r] = acts[r][i].frame /\ ~acts'[r][i].stored
         \/ scopes'[r] = [acts[r][i].frame EXCEPT !.storage = i] /\ acts'[r][i].stored
  <2>1. PICK current \in {CurrentFrame, WithStorage(Here(r))} :
          /\ scopes' = [scopes EXCEPT ![r] = Downstream(r, current)]
          /\ acts' = [acts EXCEPT ![r][Here(r)] = [@ EXCEPT
                !.called = TRUE, !.awaited = FALSE, !.previous = scopes[r],
                !.stored = OwnContext(r) /\ current # CurrentFrame]]
    BY DEF CallNext
  <2>2. \/ /\ Downstream(r, current) = Act(r).frame
           /\ ~(OwnContext(r) /\ current # CurrentFrame)
        \/ /\ Downstream(r, current) = [Act(r).frame EXCEPT !.storage = Here(r)]
           /\ OwnContext(r) /\ current # CurrentFrame
    BY <1>b, NextFrame
  <2>3. at'[r].layer = i + 1 /\ at'[r].phase = "enter"
    BY <1>a DEF CallNext, Descends, GoTo, RequestsInv, Typed
  <2>4. scopes'[r] = Downstream(r, current)
    BY <2>1 DEF RequestsInv, Typed
  <2>5. /\ \A j \in Layers \ {i} : acts'[r][j] = acts[r][j]
        /\ acts'[r][i] = [Act(r) EXCEPT
              !.called = TRUE, !.awaited = FALSE, !.previous = scopes[r],
              !.stored = OwnContext(r) /\ current # CurrentFrame]
    BY <1>a, <1>b, <2>1 DEF RequestsInv, Typed
  <2>6. /\ acts'[r][i].called /\ acts'[r][i].previous = scopes[r]
        /\ acts'[r][i].frame = acts[r][i].frame
        /\ acts'[r][i].als = acts[r][i].als /\ acts'[r][i].options = acts[r][i].options
        /\ acts'[r][i].stored = (OwnContext(r) /\ current # CurrentFrame)
    BY <1>b, <2>5 DEF ActTypes
  <2>7. QED
    BY <1>a, <1>b, <2>2, <2>3, <2>4, <2>5, <2>6
<1>4. \A j \in 1..(i - 1) : acts'[r][j] = acts[r][j]
  <2>1. Endpoint \in Nat /\ Layers = 1..Endpoint
    BY ChainFacts
  <2>2. 1..(i - 1) \subseteq Layers \ {i}
    BY <1>b, <2>1
  <2>3. QED
    BY <1>1, <2>2
<1>5. OwnFrame(r, i, scopes[r]) /\ Entered(r, i) /\ OwnFrame(r, i, acts[r][i].frame)
  BY <1>0 DEF LayersInv, Entered
<1>6. \A frame : OwnFrame(r, i, frame) => OwnFrame(r, i, frame)'
  BY <1>0, <1>4 DEF OwnFrame, IsStorage
<1>7. Awaits(r, i)'
  BY <1>0, <1>1, <1>5, <1>6 DEF Awaits, Entered, IsPrevious
<1>8. AllAwait(r, i)'
  BY <1>0, <1>4, <1>b, LayersKept DEF LayersInv
<1>9. AllAwait(r, i + 1)'
  BY <1>7, <1>8, <1>b DEF AllAwait
<1>10. Fresh(r, i + 1)' /\ Fresh(r, i + 2)'
  <2>1. \A j \in (i + 1)..Endpoint : j \in Layers \ {i} /\ acts[r][j] = NoAct
    BY <1>0, ChainFacts DEF LayersInv, Fresh
  <2>2. \A j \in (i + 2)..Endpoint : j \in (i + 1)..Endpoint
    BY ChainFacts
  <2>3. QED
    BY <1>1, <2>1, <2>2 DEF Fresh
<1>11. OwnFrame(r, i + 1, scopes[r])'
  <2>1. /\ acts[r][i].frame.req = r /\ acts[r][i].frame.mode = mode[r]
        /\ IsStorage(r, i, acts[r][i].frame.storage) /\ acts[r][i].frame \in Frames
    BY <1>5, <1>b DEF OwnFrame
  <2>2. CASE scopes'[r] = acts[r][i].frame /\ ~acts'[r][i].stored
    <3>1. \A j \in 1..((i + 1) - 1) : j \in 1..(i - 1) \/ j = i
      BY ChainFacts
    <3>2. \A j \in 1..(i - 1) : j \in 1..((i + 1) - 1)
      BY ChainFacts
    <3>3. IsStorage(r, i, scopes'[r].storage)
      BY <2>1, <2>2
    <3>4. IsStorage(r, i + 1, scopes[r].storage)'
      BY <1>4, <2>2, <3>1, <3>2, <3>3 DEF IsStorage
    <3>5. QED
      BY <1>0, <2>1, <2>2, <3>4 DEF OwnFrame
  <2>3. CASE scopes'[r] = [acts[r][i].frame EXCEPT !.storage = i] /\ acts'[r][i].stored
    <3>1. scopes'[r].req = r /\ scopes'[r].mode = mode[r] /\ scopes'[r].storage = i
      BY <2>1, <2>3 DEF Frames
    <3>2. QED
      BY <1>0, <2>3, <3>1, ChainFacts DEF OwnFrame, IsStorage
  <2>4. QED
    BY <1>1, <2>2, <2>3
<1>12. acts'[r][1] = acts[r][1]
  BY <1>4, <1>b
<1>13. LayersInv(r, i + 1, "enter")'
  BY <1>0, <1>9, <1>10, <1>11, <1>12, <1>b DEF LayersInv
<1>14. QED
  BY <1>b, <1>0, <1>1, <1>12, <1>13 DEF FramesInv, Live, Runs, In

LEMMA FramesStep ==
  ASSUME RequestsInv, NEW r \in Requests, Fetch(r) \/ LateNext(r) \/ Step(r)
  PROVE  FramesInv(r)'
<1>0. /\ mode' = mode /\ mode[r] \in {"sync", "async"}
      /\ at \in [Requests -> [layer : Layers, phase : Phases, router : 0..2]]
      /\ acts \in [Requests -> [Layers -> ActTypes]] /\ scopes \in [Requests -> Frames]
      /\ Here(r) \in Layers /\ Here(r) = at[r].layer /\ Act(r) = acts[r][Here(r)]
      /\ Kind(1) = "bootstrap" /\ 1 \in Layers
      /\ PlaceInv(r) /\ FramesInv(r) /\ ValuesInv(r)
  BY ChainFacts, OthersUntouched DEF RequestsInv, RequestInv, Typed, Here, Act
<1>a. at[r].phase \in Live => LayersInv(r, Here(r), at[r].phase)
  BY <1>0 DEF FramesInv
<1> USE DEF GoTo, Runs, Idle, In, Enters
<1>1. CASE Fetch(r)
  <2>1. \A j \in 2..Endpoint : acts'[r][j] = acts[r][j]
    BY <1>0, <1>1, ChainFacts DEF Fetch
  <2>2. acts'[r][1].frame.req = r /\ acts'[r][1].frame.mode = mode[r]
    BY <1>0, <1>1 DEF Fetch, NoAct
  <2>3. at'[r].phase = "prepared"
    BY <1>0, <1>1 DEF Fetch
  <2>4. QED
    BY <1>0, <1>1, <2>1, <2>2, <2>3 DEF Fetch, FramesInv, Fresh, Live
<1>2. CASE LateNext(r)
  BY <1>0, <1>2, UntouchedKept DEF LateNext, Untouched, RequestsInv, RequestInv
<1>3. CASE Bootstrap(r)
  <2>1. \A j \in 2..Endpoint : acts'[r][j] = acts[r][j]
    BY <1>0, <1>3, ChainFacts DEF Bootstrap
  <2>2. /\ at[r].phase = "prepared" /\ Here(r) = 1
        /\ at'[r].phase = "booting" /\ at'[r].layer = 1
    BY <1>0, <1>3 DEF Bootstrap, PlaceInv
  <2>3. PICK als : acts' = [acts EXCEPT ![r][1] = [NoAct EXCEPT !.from = als, !.als = als,
                                                               !.frame = scopes'[r]]]
                   /\ scopes'[r] = IF Inherits(r) THEN Act(r).frame
                                   ELSE [Act(r).frame EXCEPT !.storage = 0]
    BY <1>0, <1>3 DEF Bootstrap
  <2>4. acts'[r][1].frame = scopes'[r] /\ ~acts'[r][1].stored
    BY <1>0, <2>3 DEF NoAct
  <2>5. /\ Act(r).frame \in Frames /\ Act(r).frame.req = r /\ Act(r).frame.mode = mode[r]
        /\ Inherits(r) => Act(r).frame.storage = 0
    BY <1>0, <2>2, FramesTyped DEF FramesInv, ValuesInv, Inherits, NoValues, Act
  <2>6. scopes'[r] = [req |-> r, mode |-> mode[r], storage |-> 0]
    BY <2>3, <2>5 DEF Frames
  <2>7. OwnFrame(r, 1, scopes[r])'
    BY <1>0, <2>6 DEF OwnFrame, IsStorage
  <2>8. LayersInv(r, 1, "booting")'
    BY <1>0, <2>1, <2>2, <2>4, <2>7 DEF LayersInv, AllAwait, Fresh, FramesInv
  <2>9. QED
    BY <1>0, <2>2, <2>4, <2>6, <2>8 DEF FramesInv, Live
<1>4. CASE Boot(r)
  <2>1. /\ at[r].phase = "booting" /\ Here(r) = 1 /\ Here(r) + 1 \in Layers
        /\ at'[r].layer = Here(r) + 1 /\ at'[r].phase = "enter"
        /\ acts'[r] = acts[r] /\ scopes'[r] = scopes[r]
    BY <1>0, <1>4, ChainFacts DEF Boot
  <2>2. QED
    BY <1>0, <2>1, FramesDescend
<1>5. CASE /\ Nested(r) \/ Inject(r) \/ Secure(r) \/ InjectRoute(r) \/ Authorize(r)
           /\ Descends(r)
  <2>1. /\ at[r].phase = "enter" /\ Here(r) > 1 /\ Kind(Here(r)) \notin {"user", "handler"}
        /\ at'[r].layer = Here(r) + 1 /\ at'[r].phase = "enter"
        /\ acts'[r] = acts[r] /\ scopes'[r] = scopes[r]
    BY <1>0, <1>5 DEF Nested, Inject, Secure, InjectRoute, Authorize, Descends, PlaceInv
  <2>2. QED
    BY <1>0, <2>1, EnterBelow, FramesDescend
<1>6. CASE (Secure(r) \/ Authorize(r)) /\ Completes(r, Here(r))
  <2>1. /\ at[r].phase = "enter" /\ at'[r].layer = Above(Here(r)) /\ at'[r].phase = "up"
        /\ acts' = acts /\ Here(r) > 1
    BY <1>0, <1>6 DEF Secure, Authorize, Completes, PlaceInv
  <2>2. acts[r][Here(r)] = NoAct
    BY <1>0, <1>a, <2>1, ChainFacts DEF LayersInv, Fresh, Live
  <2>3. QED
    BY <1>0, <2>1, <2>2, FramesComplete
<1>7. CASE Use(r) \/ Handle(r)
  <2>1. /\ at[r].phase = "enter" /\ at'[r].layer = Here(r) /\ at'[r].phase \in {"user", "booting"}
        /\ scopes' = scopes /\ Here(r) > 1
    BY <1>0, <1>7 DEF Use, Handle, PlaceInv
  <2>2. PICK options : /\ acts' = [acts EXCEPT ![r][Here(r)] = Called(r, options)]
                       /\ Kind(Here(r)) = "user" => options = values[r].options
    BY <1>0, <1>7 DEF Use, Handle
  <2>3. /\ \A j \in Layers \ {Here(r)} : acts'[r][j] = acts[r][j]
        /\ acts'[r][Here(r)].frame = scopes[r] /\ acts'[r][Here(r)].options = options
        /\ acts'[r][Here(r)].als = Carried(carried, scopes[r])
        /\ ~acts'[r][Here(r)].called /\ ~acts'[r][Here(r)].stored
    BY <1>0, <2>2 DEF Called, NoAct
  <2>4. \A j \in 1..(Here(r) - 1) : acts'[r][j] = acts[r][j]
    BY <1>0, <2>3, ChainFacts
  <2>5. OwnFrame(r, Here(r), scopes[r]) /\ scopes[r] \in Frames /\ carried \in Frames
    BY <1>a, <2>1, FramesTyped DEF LayersInv, Live
  <2>6. /\ mode[r] = "async" => Carried(carried, scopes[r]) = scopes[r]
        /\ Carried(carried, scopes[r]).mode = "async" => Carried(carried, scopes[r]) = scopes[r]
    BY <1>0, <2>5, CarriedOwn DEF OwnFrame
  <2>7. Kind(Here(r)) = "user" => IsPrevious(options, Here(r))
    BY <1>0, <2>1, <2>2 DEF ValuesInv, OptionsInv, Live
  <2>8. PICK i \in Layers : i = Here(r)
    BY <1>0
  <2>9. Entered(r, i)'
    BY <1>0, <2>3, <2>4, <2>5, <2>6, <2>7, <2>8 DEF Entered, OwnFrame, IsStorage, IsPrevious
  <2>10. QED
    BY <1>0, <2>1, <2>3, <2>8, <2>9, FramesHere DEF Live
<1>8. CASE Await(r)
  <2>1. PICK i \in Layers : i = Here(r)
    BY <1>0
  <2>2. /\ at[r].phase = "user" /\ at'[r].layer = i /\ at'[r].phase = "waiting" /\ i > 1
        /\ scopes' = scopes /\ ~acts[r][i].called
        /\ acts' = [acts EXCEPT ![r][i].awaited = TRUE]
    BY <1>0, <1>8, <2>1, ChainFacts DEF Await, PlaceInv
  <2>3. /\ \A j \in Layers \ {i} : acts'[r][j] = acts[r][j]
        /\ acts'[r][i] = [acts[r][i] EXCEPT !.awaited = TRUE] /\ acts[r][i] \in ActTypes
    BY <1>0, <2>2
  <2>4. /\ acts'[r][i].frame = acts[r][i].frame /\ acts'[r][i].als = acts[r][i].als
        /\ acts'[r][i].options = acts[r][i].options /\ acts'[r][i].awaited
        /\ acts'[r][i].called = acts[r][i].called /\ acts'[r][i].stored = acts[r][i].stored
    BY <2>3 DEF ActTypes
  <2>5. \A j \in 1..(i - 1) : acts'[r][j] = acts[r][j]
    BY <2>3, ChainFacts
  <2>6. Entered(r, i) /\ ~acts[r][i].stored
    BY <1>a, <2>1, <2>2 DEF LayersInv, Live
  <2>7. Entered(r, i)'
    BY <1>0, <2>4, <2>5, <2>6 DEF Entered, OwnFrame, IsStorage, IsPrevious
  <2>8. QED
    BY <1>0, <2>1, <2>2, <2>3, <2>4, <2>6, <2>7, FramesHere DEF Live
<1>9. CASE Throw(r)
  <2>1. PICK i \in Layers : i = Here(r)
    BY <1>0
  <2>2. /\ at[r].phase = "user" /\ at'[r].layer = i /\ at'[r].phase = "failed" /\ i > 1
        /\ scopes' = scopes /\ \A j \in Layers \ {i} : acts'[r][j] = acts[r][j]
    BY <1>0, <1>9, <2>1, ChainFacts DEF Throw, PlaceInv
  <2>3. QED
    BY <1>0, <2>1, <2>2, FramesHere DEF Live
<1>10. CASE CallNext(r)
  BY <1>10, FramesNext
<1>11. CASE Return(r) \/ ErrorAnswered(r)
  <2>1. /\ at[r].phase \in {"user", "error"} /\ at'[r].layer = Above(Here(r)) /\ at'[r].phase = "up"
        /\ at[r].phase = "user" => Here(r) # 1
    BY <1>0, <1>11, ChainFacts DEF Return, ErrorAnswered, Completes, PlaceInv
  <2>2. /\ \A j \in Layers \ {Here(r)} : acts'[r][j] = acts[r][j]
        /\ acts'[r][Here(r)] = IF Here(r) = 1 THEN acts[r][1] ELSE NoAct
    BY <1>0, <1>11, <2>1 DEF Return, Leaves, ErrorAnswered
  <2>3. QED
    BY <1>0, <2>1, <2>2, FramesComplete
<1>12. CASE BootFails(r) \/ Invoke(r) \/ Wake(r) \/ OnError(r) \/ ErrorBubbles(r)
            \/ OnErrorAbove(r)
  <2>1. /\ acts' = acts /\ scopes' = scopes /\ at'[r].layer = at[r].layer
        /\ \/ at[r].phase = "booting" /\ at'[r].phase = "failed"
           \/ at[r].phase = "booting" /\ at[r].layer = Endpoint /\ at'[r].phase = "user"
           \/ at[r].phase = "waiting" /\ at'[r].phase = "user"
           \/ at[r].phase \in {"failed", "bubbling"} /\ at'[r].phase = "error"
           \/ at[r].phase = "error" /\ at'[r].phase \in {"bubbling", "rejected"}
    BY <1>0, <1>12 DEF BootFails, Invoke, Wake, OnError, ErrorBubbles, OnErrorAbove, HandlesError
  <2>2. at'[r].phase # "rejected"
    BY <1>12, PlaceStep DEF PlaceInv, Step
  <2>3. QED
    BY <1>0, <2>1, <2>2, PhaseOnly, ChainFacts DEF Live
<1>13. CASE Recapture(r) \/ SetUser(r) \/ Defer(r) \/ TouchBody(r)
  <2>1. acts' = acts /\ scopes' = scopes /\ at' = at /\ at[r].phase = "user"
    BY <1>13 DEF Recapture, SetUser, Defer, TouchBody
  <2>2. QED
    BY <1>0, <2>1, PhaseOnly DEF Live
<1>14. CASE Back(r)
  <2>1. PICK i \in Layers : i = Here(r)
    BY <1>0
  <2>2. /\ at[r].phase = "up" /\ at'[r].layer = i /\ at'[r].phase = "user" /\ i > 1
        /\ acts' = acts /\ scopes'[r] = acts[r][i].previous
    BY <1>0, <1>14, <2>1 DEF Back
  <2>3. LayersInv(r, i, "up") /\ Awaits(r, i) /\ i \in 1..i
    BY <1>a, <2>1, <2>2, ChainFacts DEF LayersInv, Live
  <2>4. Awaits(r, i)' /\ AllAwait(r, i)' /\ Fresh(r, i + 1)'
    BY <1>0, <2>2, <2>3, AwaitsKept, LayersKept DEF LayersInv, Fresh
  <2>5. OwnFrame(r, i, scopes[r])'
    BY <2>2, <2>4 DEF Awaits
  <2>6. LayersInv(r, i, "user")'
    BY <2>2, <2>3, <2>4, <2>5 DEF LayersInv, Awaits
  <2>7. QED
    BY <1>0, <2>2, <2>6 DEF FramesInv, Live
<1>15. CASE Answer(r) \/ RunDeferred(r) \/ DeferredEnds(r)
  <2>1. /\ acts' = acts
        /\ \/ at[r].phase = "up" /\ at'[r].phase \in {"answered", "over"}
           \/ at[r].phase = "answered" /\ at'[r].phase = "after"
           \/ at[r].phase = "after" /\ at'[r].phase = "over"
    BY <1>0, <1>15 DEF Answer, RunDeferred, DeferredEnds
  <2>2. QED
    BY <1>0, <2>1 DEF FramesInv, Live
<1>16. CASE Forget(r)
  <2>1. at'[r].phase = "done"
    BY <1>0, <1>16 DEF Forget
  <2>2. QED
    BY <2>1 DEF FramesInv, Live
<1>17. (Nested(r) \/ Inject(r) \/ Secure(r) \/ InjectRoute(r) \/ Authorize(r))
         => Descends(r) \/ ((Secure(r) \/ Authorize(r)) /\ Completes(r, Here(r)))
  <2>1. Nested(r) \/ Inject(r) \/ InjectRoute(r) => Descends(r)
    BY Zenon DEF Nested, Inject, InjectRoute
  <2>2. Secure(r) => Descends(r) \/ Completes(r, Here(r))
    BY Zenon DEF Secure
  <2>3. Authorize(r) => Descends(r) \/ Completes(r, Here(r))
    BY Zenon DEF Authorize
  <2>4. QED
    BY <2>1, <2>2, <2>3
<1>18. QED
  BY <1>1, <1>2, <1>3, <1>4, <1>5, <1>6, <1>7, <1>8, <1>9, <1>10, <1>11, <1>12, <1>13, <1>14,
     <1>15, <1>16, <1>17 DEF Step

-----------------------------------------------------------------------------
(* Values                                                                  *)

(* What a request finds when its layer calls the one below.                *)
LEMMA ValuesDescend ==
  ASSUME RequestsInv, NEW r \in Requests, NEW i \in Layers, i = Here(r), i + 1 \in Layers,
         at[r].phase \in Live,
         at'[r].layer = i + 1, at'[r].phase = "enter", values'[r] \in Values,
         values'[r].creator = 1, values'[r].hono \in {r, Nobody},
         values'[r].user \in {values[r].user, r},
         values'[r].injected = values[r].injected \/ (values'[r].injected /\ Kind(i) = "inject"),
         Kind(i) = "inject" => values'[r].injected,
         values[r].applied => values'[r].applied, Kind(i) = "security" => values'[r].applied,
         Kind(i) = "authorize" => values'[r].user = r,
         values'[r].options = values[r].options,
         Kind(i) = "user" => at[r].phase = "user",
         secured'[r] = IF values'[r].applied THEN 1 ELSE 0
  PROVE  ValuesInv(r)'
<1>0. /\ values[r].hono \in {r, Nobody} /\ values[r].user \in {r, Nobody}
      /\ OptionsInv(r) /\ GuardsInv(r)
  BY DEF RequestsInv, RequestInv, ValuesInv
<1>1. OptionsInv(r)'
  <2>1. CASE Kind(i) = "user"
    <3>1. values[r].options = i
      BY <1>0, <2>1 DEF OptionsInv, Here
    <3>2. IsPrevious(i, i + 1)
      BY <2>1, ChainFacts DEF IsPrevious
    <3>3. QED
      BY <3>1, <3>2 DEF OptionsInv, IsPrevious
  <2>2. CASE Kind(i) # "user"
    <3>1. IsPrevious(values[r].options, i)
      BY <1>0, <2>2 DEF OptionsInv, Here
    <3>2. IsPrevious(values[r].options, i + 1)
      BY <2>2, <3>1, ChainFacts DEF IsPrevious
    <3>3. QED
      BY <3>2 DEF OptionsInv, IsPrevious
  <2>3. QED
    BY <2>1, <2>2
<1>2. GuardsInv(r)'
  <2>1. \A j \in 1..((i + 1) - 1) : j \in 1..(i - 1) \/ j = i
    BY ChainFacts
  <2>2. QED
    BY <1>0, <2>1 DEF GuardsInv, Here
<1>3. values'[r].user \in {r, Nobody} /\ secured'[r] <= 1
  BY <1>0
<1>4. i + 1 # 1
  BY ChainFacts
<1>5. QED
  BY <1>1, <1>2, <1>3, <1>4 DEF ValuesInv, Live

(* ... and when the promise of its layer fulfils.                          *)
LEMMA ValuesComplete ==
  ASSUME RequestsInv, NEW r \in Requests, at[r].phase \in {"enter", "user", "error"},
         at'[r].layer = Above(Here(r)), at'[r].phase = "up", values'[r] \in Values,
         values'[r].creator = values[r].creator, values'[r].hono = values[r].hono,
         values'[r].user = values[r].user, values'[r].injected = values[r].injected,
         values[r].applied => values'[r].applied,
         values'[r].options = IF at[r].phase = "user" /\ Kind(Here(r)) = "user"
                              THEN Act(r).options ELSE values[r].options,
         secured'[r] = IF values'[r].applied THEN 1 ELSE 0
  PROVE  ValuesInv(r)'
<1>a. PICK i \in Layers : i = Here(r)
  BY DEF RequestsInv, Typed, Here
<1>0. /\ values[r].hono \in {r, Nobody} /\ values[r].user \in {r, Nobody}
      /\ GuardsInv(r) /\ Kind(1) = "bootstrap"
  BY ChainFacts DEF RequestsInv, RequestInv, ValuesInv, Live
<1>1. PICK o \in {0} \cup 1..(i - 1) :
        /\ IsPrevious(o, i) /\ at'[r].layer = IF o = 0 THEN 1 ELSE o
        /\ values'[r].options = o
  BY <1>a, CompletesAbove DEF Live
<1>2. OptionsInv(r)'
  <2>1. CASE o = 0
    BY <1>0, <1>1, <2>1 DEF OptionsInv, IsPrevious
  <2>2. CASE o # 0
    BY <1>1, <2>2 DEF OptionsInv, IsPrevious
  <2>3. QED
    BY <2>1, <2>2
<1>3. GuardsInv(r)'
  <2>1. PICK k \in 1..i : at'[r].layer = k
    BY <1>1, ChainFacts
  <2>2. \A j \in 1..(k - 1) : j \in 1..(i - 1)
    BY <2>1, ChainFacts
  <2>3. k > 1 => i > 1
    BY <2>1, ChainFacts
  <2>4. QED
    BY <1>a, <1>0, <2>1, <2>2, <2>3 DEF GuardsInv, Here
<1>4. secured'[r] <= 1
  OBVIOUS
<1>5. QED
  BY <1>0, <1>2, <1>3, <1>4 DEF ValuesInv, Live

(* A step at its layer.                                                    *)
LEMMA ValuesHere ==
  ASSUME RequestsInv, NEW r \in Requests, at'[r].layer = at[r].layer,
         at[r].phase \in Live, at'[r].phase \in Live,
         at'[r].phase = "booting" => at[r].layer # 1,
         secured'[r] = secured[r], values'[r].creator = values[r].creator,
         values'[r].hono = values[r].hono, values'[r].injected = values[r].injected,
         values'[r].applied = values[r].applied, values'[r].user \in {values[r].user, r},
         OptionsInv(r)'
  PROVE  ValuesInv(r)'
<1>0. ValuesInv(r) /\ GuardsInv(r)
  BY DEF RequestsInv, RequestInv, ValuesInv
<1>1. GuardsInv(r)'
  BY <1>0 DEF GuardsInv
<1>2. QED
  BY <1>0, <1>1 DEF ValuesInv, Live

LEMMA ValuesStep ==
  ASSUME RequestsInv, NEW r \in Requests, Fetch(r) \/ LateNext(r) \/ Step(r)
  PROVE  ValuesInv(r)'
<1>0. /\ mode' = mode
      /\ at \in [Requests -> [layer : Layers, phase : Phases, router : 0..2]]
      /\ values \in [Requests -> Values] /\ values[r] \in Values /\ values'[r] \in Values
      /\ acts \in [Requests -> [Layers -> ActTypes]]
      /\ secured \in [Requests -> Nat] /\ secured[r] \in Nat
      /\ Here(r) \in Layers /\ Here(r) = at[r].layer
      /\ Kind(1) = "bootstrap" /\ 1 \in Layers /\ Chain[1].router = 1
      /\ PlaceInv(r) /\ FramesInv(r) /\ ValuesInv(r)
  <2>1. /\ at \in [Requests -> [layer : Layers, phase : Phases, router : 0..2]]
        /\ values \in [Requests -> Values] /\ acts \in [Requests -> [Layers -> ActTypes]]
        /\ secured \in [Requests -> Nat] /\ Typed
    BY DEF RequestsInv, Typed
  <2>2. PlaceInv(r) /\ FramesInv(r) /\ ValuesInv(r)
    BY DEF RequestsInv, RequestInv
  <2>3. mode' = mode
    BY <2>1, OthersUntouched
  <2>4. values' \in [Requests -> Values]
    BY ValuesTyped
  <2>5. Kind(1) = "bootstrap" /\ 1 \in Layers /\ Chain[1].router = 1
    BY ChainFacts
  <2>6. QED
    BY <2>1, <2>2, <2>3, <2>4, <2>5 DEF Here
<1>a. at[r].phase \in Live => OptionsInv(r) /\ GuardsInv(r)
        /\ values[r].hono \in {r, Nobody} /\ values[r].user \in {r, Nobody}
  BY <1>0 DEF ValuesInv
<1> USE DEF GoTo, Runs, Idle, In, Enters
<1>1. CASE Fetch(r)
  <2>1. CASE HasContext
    <3>1. PICK s \in Requests : turn = s /\ at[s].phase = "user" /\ Here(s) = Endpoint
      BY <1>1, <2>1
         DEF Fetch, RequestsInv, TurnInv, HasContext, CurrentFrame, NoFrame
    <3>2. CurrentFrame.req = s
      BY <2>1, <3>1, UserFrame DEF HasContext
    <3>3. values[s].creator = 1
      BY <3>1, ChainFacts DEF RequestsInv, RequestInv, ValuesInv, GuardsInv, Live, Here
    <3>4. values'[r].creator # 0
      BY <1>0, <1>1, <2>1, <3>2, <3>3 DEF Fetch
    <3>5. at[r].phase = "new" /\ at'[r].phase = "prepared" /\ secured' = secured
      BY <1>0, <1>1 DEF Fetch
    <3>6. QED
      BY <1>0, <3>4, <3>5 DEF ValuesInv, Live
  <2>2. CASE ~HasContext
    <3>1. at[r].phase = "new" /\ at'[r].phase = "prepared" /\ secured' = secured /\ values' = values
      BY <1>0, <1>1, <2>2 DEF Fetch
    <3>2. acts'[r][1].frame.storage = CurrentFrame.storage
      BY <1>0, <1>1 DEF Fetch, NoAct
    <3>3. acts'[r][1].frame.storage = 0
      BY <2>2, <3>2 DEF HasContext, NoFrame
    <3>4. QED
      BY <1>0, <3>1, <3>3 DEF ValuesInv, Live
  <2>3. QED
    BY <2>1, <2>2
<1>2. CASE LateNext(r)
  BY <1>0, <1>2, UntouchedKept DEF LateNext, Untouched, RequestsInv, RequestInv
<1>3. CASE Bootstrap(r)
  <2>1. /\ at[r].phase = "prepared" /\ at'[r].phase = "booting" /\ at'[r].layer = 1
        /\ secured'[r] = 0 /\ values'[r] = NoValues
    BY <1>0, <1>3 DEF Bootstrap, ValuesInv, Inherits
  <2>2. OptionsInv(r)' /\ GuardsInv(r)'
    BY <1>0, <2>1 DEF OptionsInv, GuardsInv, IsPrevious, NoValues
  <2>3. QED
    BY <2>1, <2>2 DEF ValuesInv, NoValues
<1>4. CASE Boot(r)
  <2>1. /\ at[r].phase = "booting" /\ Here(r) = 1 /\ 1 + 1 \in Layers
        /\ at'[r].layer = 1 + 1 /\ at'[r].phase = "enter"
        /\ values'[r] = [values[r] EXCEPT !.creator = 1] /\ secured' = secured
    BY <1>0, <1>4, ChainFacts DEF Boot
  <2>2. /\ values'[r].creator = 1 /\ values'[r].hono = values[r].hono
        /\ values'[r].user = values[r].user /\ values'[r].injected = values[r].injected
        /\ values'[r].applied = values[r].applied /\ values'[r].options = values[r].options
    BY <1>0, <2>1 DEF Values
  <2>3. secured[r] = IF values[r].applied THEN 1 ELSE 0
    BY <1>a, <2>1 DEF GuardsInv, Live
  <2>4. QED
    BY <1>0, <1>a, <2>1, <2>2, <2>3, ValuesDescend DEF Live
<1>5. CASE /\ Nested(r) \/ Inject(r) \/ Secure(r) \/ InjectRoute(r) \/ Authorize(r)
           /\ Descends(r)
  <2>1. PICK i \in Layers : i = Here(r)
    BY <1>0
  <2>2. /\ at[r].phase = "enter" /\ i > 1 /\ Kind(i) \notin {"user", "handler"}
        /\ at'[r].layer = i + 1 /\ at'[r].phase = "enter" /\ i + 1 \in Layers
    BY <1>0, <1>5, <2>1, EnterBelow
       DEF Nested, Inject, Secure, InjectRoute, Authorize, Descends, PlaceInv
  <2>3. values[r].creator = 1 /\ secured[r] = IF values[r].applied THEN 1 ELSE 0
    BY <1>a, <2>1, <2>2 DEF GuardsInv, Live, Here
  <2>4. /\ values'[r].creator = 1 /\ values'[r].hono \in {r, Nobody}
        /\ values'[r].user = values[r].user
        /\ values'[r].injected = values[r].injected \/ (values'[r].injected /\ Kind(i) = "inject")
        /\ Kind(i) = "inject" => values'[r].injected
        /\ values[r].applied => values'[r].applied
        /\ Kind(i) = "security" => values'[r].applied
        /\ Kind(i) = "authorize" => values'[r].user = r
        /\ values'[r].options = values[r].options
        /\ secured'[r] = IF values'[r].applied THEN 1 ELSE 0
    <3>0. values[r].user \in {r, Nobody}
      BY <1>a, <2>2 DEF Live
    <3>1. CASE Nested(r) \/ Authorize(r)
      <4>1. values' = values /\ secured' = secured /\ Kind(i) \in {"bootstrap", "authorize"}
        BY <2>1, <3>1 DEF Nested, Authorize
      <4>2. Kind(i) = "authorize" => values[r].user # Nobody
        BY <1>0, <2>1, <2>2, <3>1 DEF Nested, Authorize, Completes
      <4>3. values[r].hono \in {r, Nobody}
        BY <1>a, <2>2 DEF Live
      <4>4. QED
        BY <2>3, <3>0, <4>1, <4>2, <4>3
    <3>2. CASE Inject(r)
      BY <1>0, <1>a, <2>1, <2>2, <2>3, <3>2 DEF Inject, Live, Values
    <3>3. CASE Secure(r)
      BY <1>0, <1>a, <2>1, <2>2, <2>3, <3>3 DEF Secure, Live, Values
    <3>4. CASE InjectRoute(r)
      BY <1>0, <1>a, <2>1, <2>2, <2>3, <3>4 DEF InjectRoute, Live, Values
    <3>5. QED
      BY <1>5, <3>1, <3>2, <3>3, <3>4
  <2>5. QED
    BY <1>0, <2>1, <2>2, <2>4, ValuesDescend DEF Live
<1>6. CASE (Secure(r) \/ Authorize(r)) /\ Completes(r, Here(r))
  <2>1. /\ at[r].phase = "enter" /\ at'[r].layer = Above(Here(r)) /\ at'[r].phase = "up"
        /\ Kind(Here(r)) # "user"
    BY <1>0, <1>6 DEF Secure, Authorize, Completes
  <2>2. secured[r] = IF values[r].applied THEN 1 ELSE 0
    BY <1>a, <2>1 DEF GuardsInv, Live
  <2>3. /\ values'[r].creator = values[r].creator /\ values'[r].hono = values[r].hono
        /\ values'[r].user = values[r].user /\ values'[r].injected = values[r].injected
        /\ values[r].applied => values'[r].applied
        /\ values'[r].options = values[r].options
        /\ secured'[r] = IF values'[r].applied THEN 1 ELSE 0
    <3>1. CASE Authorize(r)
      BY <1>0, <2>2, <3>1 DEF Authorize
    <3>2. CASE Secure(r)
      BY <1>0, <2>2, <3>2 DEF Secure, Values
    <3>3. QED
      BY <1>6, <3>1, <3>2
  <2>4. QED
    BY <1>0, <2>1, <2>3, ValuesComplete
<1>7. CASE Use(r)
  <2>1. /\ at[r].phase = "enter" /\ at'[r].layer = at[r].layer /\ at'[r].phase = "user"
        /\ Kind(at[r].layer) = "user" /\ secured' = secured
        /\ values'[r] = [values[r] EXCEPT !.options = at[r].layer]
    BY <1>0, <1>7 DEF Use
  <2>2. /\ values'[r].creator = values[r].creator /\ values'[r].hono = values[r].hono
        /\ values'[r].user = values[r].user /\ values'[r].injected = values[r].injected
        /\ values'[r].applied = values[r].applied /\ values'[r].options = at[r].layer
    BY <1>0, <2>1 DEF Values
  <2>3. OptionsInv(r)'
    BY <2>1, <2>2 DEF OptionsInv
  <2>4. QED
    BY <2>1, <2>2, <2>3, ValuesHere DEF Live
<1>8. CASE \/ Handle(r) \/ Invoke(r) \/ Await(r) \/ Wake(r) \/ Recapture(r) \/ Defer(r)
           \/ TouchBody(r) \/ BootFails(r) \/ OnError(r) \/ ErrorBubbles(r) \/ OnErrorAbove(r)
           \/ Back(r)
  <2>1. /\ values' = values /\ secured' = secured /\ at'[r].layer = at[r].layer
        /\ \/ /\ at[r].phase = "enter" /\ at'[r].phase = "booting"
              /\ Kind(at[r].layer) = "handler"
           \/ /\ at[r].phase = "booting" /\ at'[r].phase = "user" /\ at[r].layer = Endpoint
           \/ at[r].phase \in {"user", "waiting"} /\ at'[r].phase \in {"user", "waiting"}
           \/ at[r].phase = "booting" /\ at'[r].phase = "failed"
           \/ at[r].phase \in {"failed", "bubbling"} /\ at'[r].phase = "error"
           \/ at[r].phase = "error" /\ at'[r].phase \in {"bubbling", "rejected"}
           \/ at[r].phase = "up" /\ at'[r].phase = "user"
    <3>1. CASE Handle(r) \/ Invoke(r) \/ BootFails(r) \/ Back(r)
      BY <1>0, <3>1 DEF Handle, Invoke, BootFails, Back
    <3>2. CASE Await(r) \/ Wake(r) \/ Recapture(r) \/ Defer(r) \/ TouchBody(r)
      BY <1>0, <3>2 DEF Await, Wake, Recapture, Defer, TouchBody
    <3>3. CASE OnError(r) \/ ErrorBubbles(r) \/ OnErrorAbove(r)
      BY <1>0, <3>3 DEF OnError, ErrorBubbles, OnErrorAbove, HandlesError
    <3>4. QED
      BY <1>8, <3>1, <3>2, <3>3
  <2>2. at'[r].phase # "rejected"
    BY PlaceStep DEF PlaceInv
  <2>3. Kind(Endpoint) = "handler" /\ Endpoint # 1
    BY ChainFacts
  <2>4. OptionsInv(r) /\ at[r].phase \in Live /\ at'[r].phase \in Live
    BY <1>a, <2>1, <2>2 DEF Live
  <2>5. OptionsInv(r)'
    BY <1>0, <2>1, <2>2, <2>3, <2>4 DEF OptionsInv, IsPrevious
  <2>6. at'[r].phase = "booting" => at[r].layer # 1
    BY <1>0, <2>1
  <2>7. QED
    BY <1>0, <2>1, <2>4, <2>5, <2>6, ValuesHere
<1>9. CASE SetUser(r)
  <2>1. /\ values'[r] = [values[r] EXCEPT !.user = r] /\ secured' = secured /\ at' = at
        /\ at[r].phase = "user"
    BY <1>0, <1>9 DEF SetUser
  <2>2. /\ values'[r].creator = values[r].creator /\ values'[r].hono = values[r].hono
        /\ values'[r].user = r /\ values'[r].injected = values[r].injected
        /\ values'[r].applied = values[r].applied /\ values'[r].options = values[r].options
    BY <1>0, <2>1 DEF Values
  <2>3. OptionsInv(r)'
    BY <1>a, <2>1, <2>2 DEF OptionsInv, IsPrevious, Live
  <2>4. QED
    BY <2>1, <2>2, <2>3, ValuesHere DEF Live
<1>10. CASE Throw(r)
  <2>1. /\ at[r].phase = "user" /\ at'[r].layer = at[r].layer /\ at'[r].phase = "failed"
        /\ secured' = secured
        /\ values'[r] = [values[r] EXCEPT !.options = IF Kind(Here(r)) = "user" THEN Act(r).options
                                                      ELSE values[r].options]
    BY <1>0, <1>10 DEF Throw
  <2>2. /\ values'[r].creator = values[r].creator /\ values'[r].hono = values[r].hono
        /\ values'[r].user = values[r].user /\ values'[r].injected = values[r].injected
        /\ values'[r].applied = values[r].applied
        /\ values'[r].options = IF Kind(Here(r)) = "user" THEN Act(r).options
                                ELSE values[r].options
    BY <1>0, <2>1 DEF Values
  <2>3. Kind(Here(r)) = "user" => IsPrevious(Act(r).options, Here(r))
    BY <1>0, <2>1 DEF FramesInv, LayersInv, Entered, Live, Act
  <2>4. IsPrevious(values'[r].options, at[r].layer)
    BY <1>0, <1>a, <2>1, <2>2, <2>3 DEF OptionsInv, Live
  <2>5. OptionsInv(r)'
    BY <2>1, <2>4 DEF OptionsInv, IsPrevious
  <2>6. QED
    BY <2>1, <2>2, <2>5, ValuesHere DEF Live
<1>11. CASE CallNext(r)
  <2>1. PICK i \in Layers : i = Here(r)
    BY <1>0
  <2>2. /\ at[r].phase = "user" /\ Kind(i) = "user" /\ i + 1 \in Layers /\ i > 1
        /\ at'[r].layer = i + 1 /\ at'[r].phase = "enter"
        /\ values' = values /\ secured' = secured
    BY <1>0, <1>11, <2>1, EnterBelow, ChainFacts DEF CallNext, Descends
  <2>3. values[r].creator = 1 /\ secured[r] = IF values[r].applied THEN 1 ELSE 0
    BY <1>a, <2>1, <2>2 DEF GuardsInv, Live, Here
  <2>4. QED
    BY <1>0, <1>a, <2>1, <2>2, <2>3, ValuesDescend DEF Live
<1>12. CASE Return(r)
  <2>1. /\ at[r].phase = "user" /\ at'[r].layer = Above(Here(r)) /\ at'[r].phase = "up"
        /\ secured' = secured
        /\ values'[r] = [values[r] EXCEPT !.options = IF Kind(Here(r)) = "user" THEN Act(r).options
                                                      ELSE values[r].options]
    BY <1>0, <1>12 DEF Return, Leaves, Completes
  <2>2. /\ values'[r].creator = values[r].creator /\ values'[r].hono = values[r].hono
        /\ values'[r].user = values[r].user /\ values'[r].injected = values[r].injected
        /\ values'[r].applied = values[r].applied
        /\ values'[r].options = IF Kind(Here(r)) = "user" THEN Act(r).options
                                ELSE values[r].options
    BY <1>0, <2>1 DEF Values
  <2>3. secured[r] = IF values[r].applied THEN 1 ELSE 0
    BY <1>a, <2>1 DEF GuardsInv, Live
  <2>4. QED
    BY <1>0, <2>1, <2>2, <2>3, ValuesComplete
<1>13. CASE ErrorAnswered(r)
  <2>1. /\ at[r].phase = "error" /\ at'[r].layer = Above(Here(r)) /\ at'[r].phase = "up"
        /\ secured' = secured /\ values' = values
    BY <1>0, <1>13 DEF ErrorAnswered, Completes
  <2>2. secured[r] = IF values[r].applied THEN 1 ELSE 0
    BY <1>a, <2>1 DEF GuardsInv, Live
  <2>3. QED
    BY <1>0, <2>1, <2>2, ValuesComplete
<1>14. CASE Answer(r) \/ RunDeferred(r) \/ DeferredEnds(r)
  <2>1. /\ values' = values /\ secured' = secured
        /\ \/ at[r].phase = "up" /\ at'[r].phase \in {"answered", "over"}
           \/ at[r].phase = "answered" /\ at'[r].phase = "after"
           \/ at[r].phase = "after" /\ at'[r].phase = "over"
    BY <1>0, <1>14 DEF Answer, RunDeferred, DeferredEnds
  <2>2. QED
    BY <1>0, <2>1 DEF ValuesInv, Live
<1>15. CASE Forget(r)
  <2>1. at'[r].phase = "done" /\ secured'[r] = 0
    BY <1>0, <1>15 DEF Forget
  <2>2. QED
    BY <2>1 DEF ValuesInv, Live
<1>16. (Nested(r) \/ Inject(r) \/ Secure(r) \/ InjectRoute(r) \/ Authorize(r))
         => Descends(r) \/ ((Secure(r) \/ Authorize(r)) /\ Completes(r, Here(r)))
  <2>1. Nested(r) \/ Inject(r) \/ InjectRoute(r) => Descends(r)
    BY Zenon DEF Nested, Inject, InjectRoute
  <2>2. Secure(r) => Descends(r) \/ Completes(r, Here(r))
    BY Zenon DEF Secure
  <2>3. Authorize(r) => Descends(r) \/ Completes(r, Here(r))
    BY Zenon DEF Authorize
  <2>4. QED
    BY <2>1, <2>2, <2>3
<1>17. QED
  BY <1>1, <1>2, <1>3, <1>4, <1>5, <1>6, <1>7, <1>8, <1>9, <1>10, <1>11, <1>12, <1>13, <1>14,
     <1>15, <1>16 DEF Step

-----------------------------------------------------------------------------
(* The body                                                                *)

(* What body(), bodyRaw() and requestContext() do to a body.               *)
BodyKept(b) ==
  /\ ~b.lost /\ b.set
  /\ b.used => b.exposed
  /\ b.exposed => b.isolated \/ (b.text /\ (b.kind = "multipart" => b.form))
  /\ b.spent => b.text /\ b.kind # "multipart"

LEMMA TextKept ==
  ASSUME NEW b \in Bodies, BodyKept(b)
  PROVE  BodyKept(ReadText(b))
BY DEF BodyKept, ReadText, Bodies

LEMMA FormKept ==
  ASSUME NEW b \in Bodies, BodyKept(b), b.kind = "multipart"
  PROVE  BodyKept(ReadForm(b))
BY DEF BodyKept, ReadForm, Bodies

LEMMA RawKept ==
  ASSUME NEW b \in Bodies, BodyKept(b)
  PROVE  BodyKept([PrepareForRawAccess(b) EXCEPT !.exposed = TRUE])
BY DEF BodyKept, PrepareForRawAccess, Bodies

LEMMA BodyStep ==
  ASSUME RequestsInv, NEW r \in Requests, Fetch(r) \/ LateNext(r) \/ Step(r)
  PROVE  BodyInv(r)'
<1>0. /\ at \in [Requests -> [layer : Layers, phase : Phases, router : 0..2]]
      /\ values \in [Requests -> Values] /\ body \in [Requests -> Bodies]
      /\ values[r] \in Values /\ body[r] \in Bodies
      /\ Here(r) \in Layers /\ Here(r) = at[r].layer
      /\ PlaceInv(r) /\ ValuesInv(r) /\ BodyInv(r)
  BY DEF RequestsInv, RequestInv, Typed, Here
<1>a. at[r].phase \in Live => GuardsInv(r)
  BY <1>0 DEF ValuesInv
<1> USE DEF GoTo, Runs, Idle, In, Enters
<1>1. CASE Fetch(r) \/ LateNext(r)
  <2>1. /\ body' = body
        /\ \/ at'[r] = at[r] /\ values' = values /\ at[r].phase = "over"
           \/ at[r].phase = "new" /\ at'[r].phase = "prepared"
    BY <1>0, <1>1 DEF Fetch, LateNext
  <2>2. QED
    BY <1>0, <2>1 DEF BodyInv, Live
<1>2. CASE Bootstrap(r)
  <2>1. body' = body /\ at[r].phase = "prepared" /\ at'[r].phase = "booting"
        /\ values'[r] = NoValues
    BY <1>0, <1>2 DEF Bootstrap, ValuesInv, Inherits
  <2>2. QED
    BY <1>0, <2>1 DEF BodyInv, Live, NoValues
<1>3. CASE Inject(r)
  <2>1. at[r].phase = "enter" /\ at'[r].phase = "enter"
    BY <1>0, <1>3 DEF Inject, Descends
  <2>2. CASE values[r].injected
    <3>1. values' = values /\ body' = body
      BY <1>3, <2>2 DEF Inject
    <3>2. QED
      BY <1>0, <2>1, <3>1 DEF BodyInv, Live
  <2>3. CASE ~values[r].injected
    <3>1. values'[r].injected /\ body'[r] = SetBodySource(body[r])
      BY <1>0, <1>3, <2>3 DEF Inject, Values
    <3>2. ~body[r].exposed /\ ~body[r].used /\ ~body[r].lost
      BY <1>0, <2>1, <2>3 DEF BodyInv, Live
    <3>3. QED
      BY <1>0, <2>1, <3>1, <3>2 DEF BodyInv, SetBodySource, Bodies, Live
  <2>4. QED
    BY <2>2, <2>3
<1>4. CASE InjectRoute(r)
  <2>1. at[r].phase = "enter" /\ at'[r].phase = "enter" /\ Kind(Here(r)) = "route"
    BY <1>0, <1>4 DEF InjectRoute, Descends
  <2>2. values[r].injected
    BY <1>0, <1>a, <2>1, ChainFacts DEF GuardsInv, Live
  <2>3. values'[r].injected /\ body' = body
    BY <1>0, <1>4, <2>1, <2>2 DEF InjectRoute, Values, BodyInv, Live
  <2>4. QED
    BY <1>0, <2>1, <2>2, <2>3 DEF BodyInv, Live
<1>5. CASE TouchBody(r)
  <2>1. at' = at /\ values' = values /\ at[r].phase = "user"
    BY <1>5 DEF TouchBody
  <2>2. values[r].injected
    BY <1>0, <1>a, <2>1, ChainFacts DEF GuardsInv, PlaceInv, Live
  <2>3. BodyKept(body[r])
    BY <1>0, <2>1, <2>2 DEF BodyInv, BodyKept, Live
  <2>4. body'[r] \in {ReadText(body[r]), ReadBody(body[r]),
                      [PrepareForRawAccess(body[r]) EXCEPT !.exposed = TRUE]}
        \/ (body[r].exposed /\ body'[r] = [body[r] EXCEPT !.used = TRUE])
    BY <1>0, <1>5 DEF TouchBody
  <2>5. body[r].exposed => BodyKept([body[r] EXCEPT !.used = TRUE])
    BY <1>0, <2>3 DEF BodyKept, Bodies
  <2>6. BodyKept(ReadBody(body[r]))
    BY <1>0, <2>3, TextKept, FormKept DEF ReadBody
  <2>7. BodyKept(body'[r])
    BY <1>0, <2>3, <2>4, <2>5, <2>6, TextKept, RawKept
  <2>8. QED
    BY <2>1, <2>2, <2>7 DEF BodyInv, BodyKept, Live
<1>6. CASE Boot(r) \/ Secure(r) \/ Use(r) \/ SetUser(r) \/ Return(r) \/ Throw(r)
  <2>1. /\ body' = body /\ values'[r].injected = values[r].injected /\ at[r].phase \in Live
        /\ at'[r].phase \in Live
    BY <1>0, <1>6
       DEF Boot, Secure, Use, SetUser, Return, Leaves, Throw, Descends, Completes, Values, Live
  <2>2. QED
    BY <1>0, <2>1 DEF BodyInv, Live
<1>7. CASE \/ BootFails(r) \/ Nested(r) \/ Authorize(r) \/ Handle(r) \/ Invoke(r) \/ Await(r)
           \/ Wake(r) \/ Recapture(r) \/ Defer(r) \/ CallNext(r) \/ OnError(r) \/ ErrorAnswered(r)
           \/ ErrorBubbles(r) \/ OnErrorAbove(r) \/ Back(r)
  <2>1. body' = body /\ values' = values
    <3>1. CASE BootFails(r) \/ Nested(r) \/ Authorize(r) \/ Handle(r) \/ Invoke(r)
      BY <3>1 DEF BootFails, Nested, Authorize, Handle, Invoke
    <3>2. CASE Await(r) \/ Wake(r) \/ Recapture(r) \/ Defer(r) \/ CallNext(r)
      BY <3>2 DEF Await, Wake, Recapture, Defer, CallNext
    <3>3. CASE OnError(r) \/ ErrorAnswered(r) \/ ErrorBubbles(r) \/ OnErrorAbove(r) \/ Back(r)
      BY <3>3 DEF OnError, ErrorAnswered, ErrorBubbles, OnErrorAbove, Back
    <3>4. QED
      BY <1>7, <3>1, <3>2, <3>3
  <2>2. at[r].phase \in Live
    <3>1. CASE BootFails(r) \/ Nested(r) \/ Authorize(r) \/ Handle(r) \/ Invoke(r)
      BY <3>1 DEF BootFails, Nested, Authorize, Handle, Invoke, Live
    <3>2. CASE Await(r) \/ Wake(r) \/ Recapture(r) \/ Defer(r) \/ CallNext(r)
      BY <3>2 DEF Await, Wake, Recapture, Defer, CallNext, Live
    <3>3. CASE OnError(r) \/ ErrorAnswered(r) \/ ErrorBubbles(r) \/ OnErrorAbove(r) \/ Back(r)
      BY <3>3 DEF OnError, ErrorAnswered, ErrorBubbles, OnErrorAbove, Back, Live
    <3>4. QED
      BY <1>7, <3>1, <3>2, <3>3
  <2>3. at'[r].phase \notin {"new", "prepared"}
    <3>1. CASE BootFails(r) \/ Nested(r) \/ Authorize(r) \/ Handle(r) \/ Invoke(r)
      BY <1>0, <3>1 DEF BootFails, Nested, Authorize, Handle, Invoke, Descends, Completes
    <3>2. CASE Await(r) \/ Wake(r) \/ Recapture(r) \/ Defer(r) \/ CallNext(r)
      BY <1>0, <3>2 DEF Await, Wake, Recapture, Defer, CallNext, Descends
    <3>3. CASE OnError(r) \/ ErrorAnswered(r) \/ ErrorBubbles(r) \/ OnErrorAbove(r) \/ Back(r)
      BY <1>0, <3>3 DEF OnError, ErrorAnswered, ErrorBubbles, OnErrorAbove, Back, Completes,
         HandlesError
    <3>4. QED
      BY <1>7, <3>1, <3>2, <3>3
  <2>4. QED
    BY <1>0, <2>1, <2>2, <2>3 DEF BodyInv
<1>8. CASE Answer(r) \/ RunDeferred(r) \/ DeferredEnds(r) \/ Forget(r)
  <2>1. body' = body /\ at'[r].phase \in {"answered", "after", "over", "done"}
    BY <1>0, <1>8 DEF Answer, RunDeferred, DeferredEnds, Forget
  <2>2. QED
    BY <1>0, <2>1 DEF BodyInv, Live
<1>9. QED
  BY <1>1, <1>2, <1>3, <1>4, <1>5, <1>6, <1>7, <1>8 DEF Step

-----------------------------------------------------------------------------
(* The invariant                                                           *)

LEMMA RequestsInitially == RequestsInit => RequestsInv
<1> SUFFICES ASSUME RequestsInit PROVE RequestsInv
  OBVIOUS
<1>0. 1 \in Layers
  BY ChainFacts
<1>1. /\ at = [r \in Requests |-> [layer |-> 1, phase |-> "new", router |-> 0]]
      /\ acts = [r \in Requests |-> [i \in Layers |-> NoAct]]
      /\ scopes = [r \in Requests |-> NoFrame] /\ values = [r \in Requests |-> NoValues]
      /\ deferred = [r \in Requests |-> FALSE] /\ kept = [r \in Requests |-> 0]
      /\ secured = [r \in Requests |-> 0] /\ mode \in [Requests -> {"sync", DefaultMode}]
      /\ turn = Nobody /\ synchronousFrame = NoFrame /\ carried = NoFrame
  BY DEF RequestsInit
<1>2. PICK reader \in Requests, kind \in {"none", "json", "multipart"} :
        body = [r \in Requests |-> [NoBody EXCEPT !.kind = IF r = reader THEN kind ELSE @]]
  BY DEF RequestsInit
<1>3. \A r \in Requests : body[r] \in Bodies /\ ~body[r].lost /\ ~body[r].used /\ ~body[r].exposed
                          /\ ~body[r].spent /\ ~body[r].set
  BY <1>2 DEF NoBody, Bodies
<1>4. Typed
  <2>1. body \in [Requests -> Bodies]
    BY <1>2, <1>3
  <2>2. at \in [Requests -> [layer : Layers, phase : Phases, router : 0..2]]
    BY <1>0, <1>1 DEF Phases
  <2>3. acts \in [Requests -> [Layers -> ActTypes]]
    BY <1>1, NoFrameTyped
  <2>4. QED
    BY <1>1, <2>1, <2>2, <2>3, NoFrameTyped, ModeAssumption DEF Typed
<1>5. TurnInv
  BY <1>1, NobodyAssumption, NoFrameTyped DEF TurnInv, Running
<1>6. ASSUME NEW r \in Requests PROVE RequestInv(r)
  <2>1. at[r].phase = "new" /\ at[r].layer = 1
    BY <1>1
  <2>2. PlaceInv(r)
    BY <2>1 DEF PlaceInv
  <2>3. FramesInv(r)
    BY <1>1, <2>1, ChainFacts DEF FramesInv, Fresh, Live
  <2>4. ValuesInv(r)
    BY <1>1, <2>1 DEF ValuesInv, Live
  <2>5. BodyInv(r)
    BY <1>3, <2>1 DEF BodyInv, Live
  <2>6. QED
    BY <2>2, <2>3, <2>4, <2>5 DEF RequestInv
<1>7. QED
  BY <1>4, <1>5, <1>6 DEF RequestsInv

LEMMA RequestsStepInv == RequestsInv /\ [RequestsNext]_vars => RequestsInv'
<1> SUFFICES ASSUME RequestsInv, [RequestsNext]_vars PROVE RequestsInv'
  OBVIOUS
<1>1. CASE UNCHANGED vars
  <2>1. Typed' /\ TurnInv'
    BY <1>1 DEF vars, RequestsInv, Typed, TurnInv
  <2>2. \A r \in Requests : RequestInv(r)'
    BY <1>1, UntouchedKept DEF vars, RequestsInv, Untouched
  <2>3. QED
    BY <2>1, <2>2 DEF RequestsInv
<1>2. ASSUME NEW r \in Requests, Fetch(r) \/ LateNext(r) \/ Step(r) PROVE RequestsInv'
  <2>1. Typed' /\ TurnInv'
    BY <1>2, TypedStep, TurnStep
  <2>2. RequestInv(r)'
    BY <1>2, PlaceStep, FramesStep, ValuesStep, BodyStep DEF RequestInv
  <2>3. \A q \in Requests \ {r} : RequestInv(q)'
    BY <1>2, OthersUntouched, UntouchedKept DEF RequestsInv
  <2>4. QED
    BY <2>1, <2>2, <2>3 DEF RequestsInv
<1>3. QED
  BY <1>1, <1>2 DEF RequestsNext

LEMMA RequestsCorrect == RequestsSpec => []RequestsInv
BY RequestsInitially, RequestsStepInv, PTL DEF RequestsSpec

-----------------------------------------------------------------------------
(* The theorems                                                            *)

(* The types; and no frame is left behind by a turn.                       *)
THEOREM RequestsTypes == RequestsSpec => []RequestsTypeOK
<1>1. RequestsInv => RequestsTypeOK
  <2> SUFFICES ASSUME RequestsInv PROVE RequestsTypeOK
    OBVIOUS
  <2>1. /\ synchronousFrame \in Frames /\ carried \in Frames
        /\ turn \in Requests \cup {Nobody}
        /\ turn = Nobody => synchronousFrame = NoFrame /\ carried = NoFrame
    BY DEF RequestsInv, TurnInv
  <2>2. /\ at \in [Requests -> [layer : Layers, router : 0..2, phase : Phases]]
        /\ scopes \in [Requests -> Frames] /\ kept \in [Requests -> {0} \cup Layers]
    BY DEF RequestsInv, Typed
  <2>3. ASSUME NEW r \in Requests, NEW i \in Layers
        PROVE  {acts[r][i].from, acts[r][i].als, acts[r][i].frame} \subseteq Frames
    <3>1. acts[r][i] \in ActTypes
      BY DEF RequestsInv, Typed
    <3>2. QED
      BY <3>1 DEF ActTypes
  <2>4. ASSUME NEW r \in Requests
        PROVE  values[r].user \in Requests \cup {Nobody} /\ values[r].options \in {0} \cup Layers
    <3>1. values[r] \in Values
      BY DEF RequestsInv, Typed
    <3>2. QED
      BY <3>1 DEF Values
  <2>5. QED
    BY <2>1, <2>2, <2>3, <2>4 DEF RequestsTypeOK, Phases
<1>2. QED
  BY <1>1, RequestsCorrect, PTL

(* Deferred code runs in the frame that the bootstrap made.                *)
LEMMA AfterFrame ==
  ASSUME RequestsInv, NEW r \in Requests, turn = r, at[r].phase = "after"
  PROVE  synchronousFrame = [req |-> r, mode |-> mode[r], storage |-> 0]
<1>1. FramesInv(r) /\ TurnInv
  BY DEF RequestsInv, RequestInv
<1>2. acts[r][1].frame = [req |-> r, mode |-> mode[r], storage |-> 0]
  BY <1>1 DEF FramesInv
<1>3. synchronousFrame = acts[r][1].frame
  BY <1>1 DEF TurnInv
<1>4. QED
  BY <1>2, <1>3

(* User code reads the context of its own request, and the options of its  *)
(* own binding, whoever else runs or sent the request.                     *)
THEOREM ContextsApart == RequestsSpec => []ContextIsOwn
<1>1. RequestsInv => ContextIsOwn
  <2> SUFFICES ASSUME RequestsInv, NEW r \in Requests, RunsUserCode(r)
               PROVE  /\ HasContext => /\ CurrentFrame.req = r
                                       /\ {values[r].hono, values[r].user} \subseteq {r, Nobody}
                      /\ mode[r] = "async" \/ ~(Act(r).awaited \/ Act(r).called) => HasContext
                      /\ In(r, "user") /\ Kind(Here(r)) = "user" /\ HasContext
                           => values[r].options = Here(r)
    BY DEF ContextIsOwn
  <2>1. {values[r].hono, values[r].user} \subseteq {r, Nobody}
    BY DEF RequestsInv, RequestInv, ValuesInv, RunsUserCode, Live
  <2>2. CASE at[r].phase = "user"
    <3>1. Runs(r, "user")
      BY <2>2 DEF RunsUserCode, Runs, In
    <3>2. Kind(Here(r)) = "user" => values[r].options = Here(r)
      BY <2>2 DEF RequestsInv, RequestInv, ValuesInv, OptionsInv, Live, Here
    <3>3. QED
      BY <2>1, <3>1, <3>2, UserFrame DEF HasContext
  <2>3. CASE at[r].phase \in {"error", "after"}
    <3>1. synchronousFrame.req = r
      <4>1. CASE at[r].phase = "error"
        <5>1. synchronousFrame = scopes[r] /\ OwnFrame(r, Here(r), scopes[r])
          BY <4>1 DEF RequestsInv, RequestInv, TurnInv, FramesInv, LayersInv, Live, RunsUserCode,
             Here
        <5>2. QED
          BY <5>1 DEF OwnFrame
      <4>2. CASE at[r].phase = "after"
        <5>1. synchronousFrame = [req |-> r, mode |-> mode[r], storage |-> 0]
          BY <4>2, AfterFrame DEF RunsUserCode
        <5>2. QED
          BY <5>1
      <4>3. QED
        BY <2>3, <4>1, <4>2
    <3>2. synchronousFrame # NoFrame
      BY <3>1, NobodyAssumption DEF NoFrame
    <3>3. QED
      BY <2>1, <2>3, <3>1, <3>2 DEF HasContext, CurrentFrame, In
  <2>4. QED
    BY <2>2, <2>3 DEF RunsUserCode
<1>2. QED
  BY <1>1, RequestsCorrect, PTL

(* Code finds in the storage what the innermost scope around it put there. *)
THEOREM ScopesNest == RequestsSpec => []StorageIsLive
<1>1. RequestsInv => StorageIsLive
  <2> SUFFICES ASSUME RequestsInv, NEW r \in Requests, RunsUserCode(r), HasContext
               PROVE  CurrentFrame.storage = Storage(r)
    BY DEF StorageIsLive
  <2>1. ASSUME NEW s, IsStorage(r, Here(r), s) PROVE s = Max({0} \cup {i \in 1..(Here(r) - 1) : acts[r][i].stored})
    <3> DEFINE S == {0} \cup {i \in 1..(Here(r) - 1) : acts[r][i].stored}
    <3>1. S \in SUBSET Nat
      BY ChainFacts
    <3>2. s \in S /\ \A n \in S : n <= s
      BY <2>1, ChainFacts DEF IsStorage
    <3>3. QED
      BY <3>1, <3>2, MaxIs
  <2>2. CASE at[r].phase = "user"
    <3>1. CurrentFrame = Act(r).frame /\ OwnFrame(r, Here(r), Act(r).frame)
      BY <2>2, UserFrame DEF RunsUserCode, Runs, In, HasContext
    <3>2. QED
      BY <2>1, <2>2, <3>1 DEF OwnFrame, Storage, In
  <2>3. CASE at[r].phase = "error"
    <3>1. synchronousFrame = scopes[r] /\ OwnFrame(r, Here(r), scopes[r])
      BY <2>3 DEF RequestsInv, RequestInv, TurnInv, FramesInv, LayersInv, Live, RunsUserCode, Here
    <3>2. CurrentFrame = scopes[r]
      BY <3>1, NobodyAssumption DEF OwnFrame, CurrentFrame, NoFrame
    <3>3. QED
      BY <2>1, <2>3, <3>1, <3>2 DEF OwnFrame, Storage, In
  <2>4. CASE at[r].phase = "after"
    <3>1. synchronousFrame = [req |-> r, mode |-> mode[r], storage |-> 0]
      BY <2>4, AfterFrame DEF RunsUserCode
    <3>2. CurrentFrame = synchronousFrame
      BY <3>1, NobodyAssumption DEF CurrentFrame, NoFrame
    <3>3. QED
      BY <2>4, <3>1, <3>2 DEF Storage, In
  <2>5. QED
    BY <2>2, <2>3, <2>4 DEF RunsUserCode
<1>2. QED
  BY <1>1, RequestsCorrect, PTL

(* A guarded handler runs after security, once, and with the user that a   *)
(* middleware set for this request.                                        *)
THEOREM HandlersGuarded == RequestsSpec => []HandlerIsGuarded
<1>1. RequestsInv => HandlerIsGuarded
  <2> SUFFICES ASSUME RequestsInv, NEW r \in Requests
               PROVE  /\ secured[r] <= 1
                      /\ Runs(r, "user") /\ Here(r) = Endpoint
                           => secured[r] = 1 /\ values[r].user = r
    BY DEF HandlerIsGuarded
  <2>1. secured[r] <= 1
    BY DEF RequestsInv, RequestInv, ValuesInv
  <2>2. ASSUME at[r].phase = "user", Here(r) = Endpoint
        PROVE  secured[r] = 1 /\ values[r].user = r
    <3>1. GuardsInv(r)
      BY <2>2 DEF RequestsInv, RequestInv, ValuesInv, Live
    <3>2. \A kind \in {"security", "authorize"} : \E i \in 1..(Endpoint - 1) : Kind(i) = kind
      BY ChainFacts
    <3>3. QED
      BY <2>2, <3>1, <3>2 DEF GuardsInv, Here
  <2>3. QED
    BY <2>1, <2>2 DEF Runs, In
<1>2. QED
  BY <1>1, RequestsCorrect, PTL

(* No body is lost to body() or bodyRaw().                                 *)
THEOREM BodiesSurvive == RequestsSpec => []BodySurvives
<1>1. RequestsInv => BodySurvives
  BY DEF RequestsInv, RequestInv, BodyInv, BodySurvives
<1>2. QED
  BY <1>1, RequestsCorrect, PTL

(* Errors that are thrown as Errors, and met by error handlers that do not *)
(* throw, end at the request root and reject no fetch().                   *)
THEOREM ErrorsEnd == RequestsSpec => []ErrorsEndAtRoot
<1>1. RequestsInv => ErrorsEndAtRoot
  BY DEF RequestsInv, RequestInv, PlaceInv, ErrorsEndAtRoot
<1>2. QED
  BY <1>1, RequestsCorrect, PTL
=============================================================================
