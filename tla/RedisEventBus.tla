---------------------------- MODULE RedisEventBus ----------------------------
(***************************************************************************)
(* The Redis adaptor of the event bus: on() and once() calls, the lazily   *)
(* connected subscriber client with its bulk SUBSCRIBE at startup, and the *)
(* messages that reach the handlers.  The Redis server and the ioredis     *)
(* client are external: a connection delivers, in order, the replies to    *)
(* the SUBSCRIBE commands and the messages of the subscribed channels; a   *)
(* connection that is lost is opened again, with the confirmed channels    *)
(* resubscribed and the unanswered commands sent again or failed.          *)
(*                                                                         *)
(* A reply and the reaction to its promise are two steps: what the parser  *)
(* finds in the same chunk behind the reply is processed between the two.  *)
(***************************************************************************)
EXTENDS Naturals, Sequences, FiniteSets, SequencesExt

CONSTANTS
  Calls,        \* calls of on() and once(); each registers a handler of its own
  OnceCalls,    \* the calls of once()
  Channels,
  MaxMessages,  \* bound on the messages published
  MaxLosses     \* bound on the connections lost

ASSUME BusAssumption ==
  /\ OnceCalls \subseteq Calls
  /\ MaxMessages \in Nat
  /\ MaxLosses \in Nat

VARIABLES
  status,         \* sub.status: "reconnecting" counts as "connecting"; "closing" on disconnect()
  startup,        \* startup(): what it awaits, or how it ended
  subscriptions,
  subscribing,    \* the channels that have a SUBSCRIBE of on() in flight
  handlers,       \* localEmitter: the calls whose handler is registered
  call,           \* where each on() call is
  channel,        \* the channel of each call
  cmds,           \* the SUBSCRIBE commands whose reply has not come, the oldest first
  server,         \* the channels that the server has this connection subscribed to
  wire,           \* from the server to the client: replies and messages
  confirmed,      \* the channels that ioredis resubscribes after a loss
  reactions,      \* settled SUBSCRIBE promises whose reaction has not run
  missed,         \* history: <<call, where it was>> for each message its handler did not get
  published, losses

bus == <<subscriptions, subscribing, handlers, call, channel>>
redis == <<cmds, server, wire, confirmed, reactions>>
busVars == <<status, startup, bus, redis, missed, published, losses>>

(* A SUBSCRIBE, the outcome of one, and a message that was published.      *)
Subscribe == [channels : SUBSET Channels, by : {"on", "startup"}]
Reply == [channels : SUBSET Channels, by : {"on", "startup"}, ok : BOOLEAN]
Message == [on : Channels]

IsReply(x) == x \notin Message

(* The types; and subscribing has exactly the channels with a SUBSCRIBE of *)
(* on() that has not settled.                                              *)
BusTypeOK ==
  /\ status \in {"wait", "connecting", "ready", "closing", "end"}
  /\ startup \in {"no", "connect", "bulk", "up", "failed"}
  /\ subscriptions \subseteq Channels
  /\ subscribing = UNION {x.channels : x \in {y \in ToSet(cmds) \cup reactions : y.by = "on"}}
  /\ handlers \subseteq Calls
  /\ call \in [Calls -> {"idle", "waiting", "resolved", "rejected", "off"}]
  /\ channel \in [Calls -> Channels]
  /\ \A i \in DOMAIN cmds : cmds[i] \in Subscribe
  /\ \A i \in DOMAIN wire : wire[i] \in Message \cup Reply
  /\ reactions \subseteq Reply
  /\ server \subseteq Channels
  /\ confirmed \subseteq Channels
  /\ missed \subseteq Calls \X {"waiting", "resolved"}
  /\ published \in 0..MaxMessages
  /\ losses \in 0..MaxLosses

BusInit ==
  /\ status = "wait"
  /\ startup = "no"
  /\ subscriptions = {}
  /\ subscribing = {}
  /\ handlers = {}
  /\ call = [c \in Calls |-> "idle"]
  /\ channel \in [Calls -> Channels]
  /\ cmds = <<>>
  /\ server = {}
  /\ wire = <<>>
  /\ confirmed = {}
  /\ reactions = {}
  /\ missed = {}
  /\ published = 0
  /\ losses = 0

-----------------------------------------------------------------------------
(* on() and the function it returns *)

Connected == status \notin {"wait", "end"}

(* on() up to its await: it resolves without one, and `channels` are added *)
(* to subscriptions, or sends the commands `sent` and waits.               *)
Resolves(c, channels) ==
  /\ subscriptions' = subscriptions \cup channels
  /\ call' = [call EXCEPT ![c] = "resolved"]
  /\ UNCHANGED <<subscribing, cmds>>

Waits(c, sent) ==
  /\ call' = [call EXCEPT ![c] = "waiting"]
  /\ subscribing' = subscribing \cup {channel[c]}
  /\ cmds' = cmds \o sent
  /\ UNCHANGED subscriptions

OnFrame(c) ==
  /\ call[c] = "idle"
  /\ handlers' = handlers \cup {c}
  /\ UNCHANGED <<status, startup, channel, server, wire, confirmed, reactions, missed,
                 published, losses>>

SubscribeTo(ch) == <<[channels |-> {ch}, by |-> "on"]>>

(* on(): before startup() and after shutdown() it only registers; else a   *)
(* new channel is subscribed, or its SUBSCRIBE in flight is joined.        *)
On(c) ==
  /\ OnFrame(c)
  /\ \/ ~Connected /\ Resolves(c, {channel[c]})
     \/ Connected /\ channel[c] \in subscriptions /\ Resolves(c, {})
     \/ /\ Connected /\ channel[c] \notin subscriptions
        /\ Waits(c, IF channel[c] \in subscribing THEN <<>> ELSE SubscribeTo(channel[c]))

(* The function that on() returned takes the handler off.                  *)
Off(c) ==
  /\ call[c] = "resolved"
  /\ handlers' = handlers \ {c}
  /\ call' = [call EXCEPT ![c] = "off"]
  /\ UNCHANGED <<status, startup, subscriptions, subscribing, channel, redis, missed,
                 published, losses>>

WaitingOn(channels) == {c \in Calls : call[c] = "waiting" /\ channel[c] \in channels}

(* The promise of the SUBSCRIBE r settled, and all calls that share it go  *)
(* on; `entries` are what is left in subscribing, `off` the handlers taken *)
(* off.                                                                    *)
Settle(r, entries, off) ==
  /\ r \in reactions /\ r.by = "on"
  /\ reactions' = reactions \ {r}
  /\ subscribing' = entries
  /\ subscriptions' = IF r.ok THEN subscriptions \cup r.channels ELSE subscriptions
  /\ call' = [c \in Calls |-> IF c \notin WaitingOn(r.channels) THEN call[c]
                             ELSE IF r.ok THEN "resolved" ELSE "rejected"]
  /\ handlers' = handlers \ off
  /\ UNCHANGED <<status, startup, channel, cmds, server, wire, confirmed, missed, published,
                 losses>>

(* Mutants of React: the handler of a call that rejects stays, the entry   *)
(* is removed only on success, or only then the calls go on.               *)
ReactKeepsHandler(r) == Settle(r, subscribing \ r.channels, {})

ReactKeepsEntry(r) ==
  Settle(r, IF r.ok THEN subscribing \ r.channels ELSE subscribing,
         IF r.ok THEN {} ELSE WaitingOn(r.channels))

ReactOnlyOk(r) == r.ok /\ Settle(r, subscribing \ r.channels, {})

(* The SUBSCRIBE of on() settled: its entry is removed, and the calls that *)
(* share it resolve, or take their handler off and reject.                 *)
React(r) == Settle(r, subscribing \ r.channels, IF r.ok THEN {} ELSE WaitingOn(r.channels))

(* The listener on 'message': a message of a channel that is not in        *)
(* subscriptions yet is dropped; once() takes its handler off.             *)
Arrives(m) ==
  LET for == {c \in handlers : channel[c] = m.on} IN
  /\ IF m.on \in subscriptions
     THEN handlers' = handlers \ (for \cap OnceCalls) /\ UNCHANGED missed
     ELSE missed' = missed \cup {<<c, call[c]>> : c \in for} /\ UNCHANGED handlers
  /\ UNCHANGED <<subscriptions, subscribing, call, channel, cmds, confirmed, reactions>>

-----------------------------------------------------------------------------
(* startup() and shutdown() *)

(* startup() up to the await of connect().                                 *)
Startup ==
  /\ startup = "no"
  /\ startup' = "connect"
  /\ status' = "connecting"
  /\ UNCHANGED <<bus, redis, missed, published, losses>>

(* Mutant of Opened: startup() subscribes nothing.                         *)
OpenedWithoutBulk ==
  /\ status = "connecting"
  /\ status' = "ready"
  /\ server' = confirmed
  /\ startup' = IF startup = "connect" THEN "up" ELSE startup
  /\ UNCHANGED <<bus, cmds, wire, confirmed, reactions, missed, published, losses>>

(* The connection is open: connect() fulfils and startup() subscribes all  *)
(* that was registered; or ioredis resubscribes after a loss.              *)
Opened ==
  /\ status = "connecting"
  /\ status' = "ready"
  /\ server' = confirmed
  /\ IF startup # "connect" THEN UNCHANGED <<startup, cmds>>
     ELSE IF subscriptions = {} THEN startup' = "up" /\ UNCHANGED cmds
     ELSE /\ startup' = "bulk"
          /\ cmds' = Append(cmds, [channels |-> subscriptions, by |-> "startup"])
  /\ UNCHANGED <<bus, wire, confirmed, reactions, missed, published, losses>>

(* connect() rejects: startup() disconnects and rethrows.                  *)
ConnectFails ==
  /\ startup = "connect"
  /\ startup' = "failed"
  /\ status' = "closing"
  /\ UNCHANGED <<bus, redis, missed, published, losses>>

(* The bulk SUBSCRIBE settled, and with it startup().                      *)
BulkSettles(r) ==
  /\ r \in reactions /\ r.by = "startup"
  /\ reactions' = reactions \ {r}
  /\ startup' = IF r.ok THEN "up" ELSE "failed"
  /\ status' = IF r.ok \/ status = "end" THEN status ELSE "closing"
  /\ UNCHANGED <<bus, cmds, server, wire, confirmed, missed, published, losses>>

(* shutdown(), which the lifecycle manager calls for what it started.      *)
Shutdown ==
  /\ startup = "up"
  /\ status \in {"connecting", "ready"}
  /\ status' = "closing"
  /\ UNCHANGED <<startup, bus, redis, missed, published, losses>>

-----------------------------------------------------------------------------
(* The connection *)

Outcome(x, ok) == [channels |-> x.channels, by |-> x.by, ok |-> ok]
Failed(sent) == {Outcome(x, FALSE) : x \in ToSet(sent)}

Answered == Cardinality({i \in DOMAIN wire : IsReply(wire[i])})

(* The server answers the next SUBSCRIBE, or refuses it.                   *)
ServerAnswers(ok) ==
  /\ status = "ready"
  /\ \E n \in DOMAIN cmds :
       /\ n = Answered + 1
       /\ wire' = Append(wire, Outcome(cmds[n], ok))
       /\ server' = IF ok THEN server \cup cmds[n].channels ELSE server
  /\ UNCHANGED <<status, startup, bus, cmds, confirmed, reactions, missed, published, losses>>

(* Somebody publishes on a channel.                                        *)
Publish(ch) ==
  /\ published < MaxMessages
  /\ published' = published + 1
  /\ wire' = IF ch \in server THEN Append(wire, [on |-> ch]) ELSE wire
  /\ UNCHANGED <<status, startup, bus, cmds, server, confirmed, reactions, missed, losses>>

(* The client's parser takes what comes next from the connection; a reply  *)
(* is that to the oldest command.                                          *)
Receive ==
  /\ status \in {"ready", "closing"} /\ wire # <<>>
  /\ wire' = Tail(wire)
  /\ \/ /\ IsReply(Head(wire))
        /\ cmds' = SubSeq(cmds, 2, Len(cmds))
        /\ reactions' = reactions \cup {Head(wire)}
        /\ confirmed' = IF Head(wire).ok THEN confirmed \cup Head(wire).channels ELSE confirmed
        /\ UNCHANGED <<bus, missed>>
     \/ ~IsReply(Head(wire)) /\ Arrives(Head(wire))
  /\ UNCHANGED <<status, startup, server, published, losses>>

(* The connection is lost; the commands without a reply are sent again or, *)
(* after too many attempts, fail.                                          *)
Lost ==
  /\ status = "ready" /\ losses < MaxLosses
  /\ losses' = losses + 1
  /\ status' = "connecting"
  /\ server' = {} /\ wire' = <<>>
  /\ \/ UNCHANGED <<cmds, reactions>>
     \/ cmds' = <<>> /\ reactions' = reactions \cup Failed(cmds)
  /\ UNCHANGED <<startup, bus, confirmed, missed, published>>

(* The disconnected client has closed: its commands fail.                  *)
Closed ==
  /\ status = "closing"
  /\ status' = "end"
  /\ server' = {} /\ wire' = <<>> /\ cmds' = <<>>
  /\ reactions' = reactions \cup Failed(cmds)
  /\ UNCHANGED <<startup, bus, confirmed, missed, published, losses>>

-----------------------------------------------------------------------------

BusNext ==
  \/ \E c \in Calls : On(c) \/ Off(c)
  \/ \E r \in reactions : React(r) \/ BulkSettles(r)
  \/ Startup \/ Opened \/ ConnectFails \/ Shutdown
  \/ \E ok \in BOOLEAN : ServerAnswers(ok)
  \/ \E ch \in Channels : Publish(ch)
  \/ Receive \/ Lost \/ Closed

(* Promise reactions run, and the server or the socket answers in the end. *)
BusFairness ==
  /\ WF_busVars(\E r \in reactions : React(r) \/ BulkSettles(r))
  /\ WF_busVars(Opened) /\ WF_busVars(Receive) /\ WF_busVars(Closed)
  /\ WF_busVars(\E ok \in BOOLEAN : ServerAnswers(ok))

BusSpec == BusInit /\ [][BusNext]_busVars /\ BusFairness

-----------------------------------------------------------------------------
(* Properties *)

(* An on() that resolved is subscribed at the server, once startup() has   *)
(* completed and while the connection is up, also after a reconnection and *)
(* whatever other calls for the channel failed or are in flight.           *)
ResolvedIsSubscribed ==
  startup = "up" /\ status = "ready" =>
    \A c \in Calls : call[c] = "resolved" => channel[c] \in server

(* No message that arrives for a call that resolved is dropped.            *)
ResolvedMissesNothing == \A c \in Calls : <<c, "resolved">> \notin missed

(* Whoever was told that on() succeeded hears every message.               *)
ResolvedHears == ResolvedIsSubscribed /\ ResolvedMissesNothing

(* A call that rejected leaves no trace: its handler is off, so that the   *)
(* caller can retry without being called twice.                            *)
RejectedLeavesNoTrace == \A c \in handlers : call[c] # "rejected"

(* Every on() resolves or rejects.                                         *)
OnSettles == \A c \in Calls : call[c] = "waiting" ~> call[c] # "waiting"

(* A message that arrives while on() is still waiting is not missed.       *)
WaitingMissesNothing == \A c \in Calls : <<c, "waiting">> \notin missed

=============================================================================
