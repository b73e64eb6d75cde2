------------------------------- MODULE BusProofs -------------------------------
(***************************************************************************)
(* For any number of calls, channels, messages and lost connections: an    *)
(* on() that resolved hears every message of its channel, and one that     *)
(* rejected leaves no handler behind.                                      *)
(***************************************************************************)
EXTENDS RedisEventBus, FiniteSetTheorems, TLAPS

(* The types without the contents of subscribing, on which nothing here    *)
(* depends.                                                                *)
BusTypes ==
  /\ status \in {"wait", "connecting", "ready", "closing", "end"}
  /\ startup \in {"no", "connect", "bulk", "up", "failed"}
  /\ subscriptions \subseteq Channels
  /\ handlers \subseteq Calls
  /\ call \in [Calls -> {"idle", "waiting", "resolved", "rejected", "off"}]
  /\ channel \in [Calls -> Channels]
  /\ cmds \in Seq(Subscribe)
  /\ wire \in Seq(Message \cup Reply)
  /\ reactions \subseteq Reply
  /\ server \subseteq Channels
  /\ confirmed \subseteq Channels

(* Without a connection nothing is on the wire; what the wire confirms is  *)
(* subscribed at the server, and so is all that ioredis knows of.          *)
WireInv ==
  /\ status \notin {"ready", "closing"} => wire = <<>> /\ server = {}
  /\ \A i \in DOMAIN wire : IsReply(wire[i]) /\ wire[i].ok => wire[i].channels \subseteq server
  /\ \A r \in reactions : r.ok => r.channels \subseteq confirmed
  /\ status = "ready" => confirmed \subseteq server

(* A bulk SUBSCRIBE on its way covers what is not confirmed.               *)
Covers(x) == x.by = "startup" => subscriptions \subseteq confirmed \cup x.channels

(* Until the connection has ended, subscriptions has nothing that is       *)
(* neither confirmed nor in the bulk SUBSCRIBE of startup().               *)
BulkInv ==
  /\ startup = "no" <=> status = "wait"
  /\ startup = "connect" => status = "connecting"
  /\ startup = "no" => cmds = <<>> /\ reactions = {}
  /\ status # "end" =>
       /\ \A i \in DOMAIN cmds : Covers(cmds[i])
       /\ \A i \in DOMAIN wire : IsReply(wire[i]) => Covers(wire[i])
       /\ \A r \in reactions : Covers(r)
       /\ startup = "up" => subscriptions \subseteq confirmed

(* What a call was told holds.                                             *)
CallsInv ==
  /\ \A c \in Calls : call[c] = "resolved" => channel[c] \in subscriptions
  /\ ResolvedMissesNothing
  /\ RejectedLeavesNoTrace

BusInv == BusTypes /\ WireInv /\ BulkInv /\ CallsInv

(* What a queue consists of with a new member.                             *)
LEMMA Appended ==
  ASSUME NEW S, NEW s \in Seq(S), NEW e \in S
  PROVE  /\ Append(s, e) \in Seq(S)
         /\ \A i \in DOMAIN Append(s, e) :
              Append(s, e)[i] = e \/ \E j \in DOMAIN s : Append(s, e)[i] = s[j]
OBVIOUS

(* Two queues, one behind the other.                                       *)
LEMMA Concatenated ==
  ASSUME NEW S, NEW s \in Seq(S), NEW t \in Seq(S)
  PROVE  /\ s \o t \in Seq(S)
         /\ \A i \in DOMAIN (s \o t) : \/ \E j \in DOMAIN s : (s \o t)[i] = s[j]
                                     \/ \E j \in DOMAIN t : (s \o t)[i] = t[j]
OBVIOUS

(* A queue whose oldest member is dropped, if it has one,                  *)
LEMMA WithoutFirst ==
  ASSUME NEW S, NEW s \in Seq(S)
  PROVE  /\ SubSeq(s, 2, Len(s)) \in Seq(S)
         /\ \A i \in DOMAIN SubSeq(s, 2, Len(s)) :
              \E j \in DOMAIN s : SubSeq(s, 2, Len(s))[i] = s[j]
OBVIOUS

(* or is taken.                                                            *)
LEMMA WithoutHead ==
  ASSUME NEW S, NEW s \in Seq(S), s # <<>>
  PROVE  /\ Tail(s) \in Seq(S) /\ Head(s) = s[1] /\ 1 \in DOMAIN s /\ Head(s) \in S
         /\ \A i \in DOMAIN Tail(s) : \E j \in DOMAIN s : Tail(s)[i] = s[j]
OBVIOUS

(* The promises of commands that fail.                                     *)
LEMMA FailedReplies ==
  ASSUME NEW s \in Seq(Subscribe)
  PROVE  /\ Failed(s) \subseteq Reply
         /\ \A r \in Failed(s) : ~r.ok /\ \E i \in DOMAIN s : r.by = s[i].by /\ r.channels = s[i].channels
<1>1. ASSUME NEW r \in Failed(s)
      PROVE  r \in Reply /\ ~r.ok /\ \E i \in DOMAIN s : r.by = s[i].by /\ r.channels = s[i].channels
  <2>1. PICK i \in DOMAIN s : r = [channels |-> s[i].channels, by |-> s[i].by, ok |-> FALSE]
    BY DEF Failed, Outcome, ToSet
  <2>2. s[i] \in Subscribe
    OBVIOUS
  <2> QED BY <2>1, <2>2 DEF Subscribe, Reply
<1> QED BY <1>1

(* What the members of the queues are.                                     *)
LEMMA QueueMembers ==
  /\ \A x \in Subscribe : \A ok \in BOOLEAN :
       /\ x.channels \in SUBSET Channels
       /\ Outcome(x, ok) \in Reply /\ Outcome(x, ok).by = x.by
       /\ Outcome(x, ok).channels = x.channels /\ Outcome(x, ok).ok = ok
  /\ \A x \in Reply : x.channels \in SUBSET Channels
  /\ \A ch \in Channels :
       /\ [on |-> ch] \in Message
       /\ SubscribeTo(ch) \in Seq(Subscribe) /\ \A i \in DOMAIN SubscribeTo(ch) : SubscribeTo(ch)[i].by = "on"
  /\ \A channels \in SUBSET Channels : [channels |-> channels, by |-> "startup"] \in Subscribe
BY DEF Subscribe, Reply, Message, Outcome, SubscribeTo

(* Every step keeps the invariant.  Replies and messages come in order over*)
(* one connection, and what is confirmed is resubscribed over the next.    *)
LEMMA BusStep ==
  ASSUME BusInv, [BusNext]_busVars
  PROVE  BusInv'
<1> USE BusAssumption
    DEF BusInv, BusTypes, WireInv, BulkInv, CallsInv, Covers, IsReply, ResolvedMissesNothing,
        RejectedLeavesNoTrace
<1>1. ASSUME UNCHANGED busVars PROVE BusInv'
  <2>1. BusTypes'
    BY <1>1 DEF busVars, bus, redis
  <2>2. WireInv'
    BY <1>1 DEF busVars, bus, redis
  <2>3. BulkInv'
    BY <1>1 DEF busVars, bus, redis
  <2>4. CallsInv'
    BY <1>1 DEF busVars, bus, redis
  <2> QED BY <2>1, <2>2, <2>3, <2>4 DEF BusInv
<1>2. ASSUME NEW c \in Calls, On(c) PROVE BusInv'
  <2>1. BusTypes'
    <3>1. channel[c] \in Channels
      OBVIOUS
    <3>2. cmds \o SubscribeTo(channel[c]) \in Seq(Subscribe)
      BY <3>1, QueueMembers, Concatenated
    <3>3. cmds \o <<>> = cmds
      OBVIOUS
    <3>4. cmds' = cmds \/ cmds' = cmds \o SubscribeTo(channel[c])
      BY <1>2, <3>3 DEF On, Resolves, Waits
    <3> QED BY <1>2, <3>1, <3>2, <3>4 DEF On, OnFrame, Resolves, Waits
  <2>2. WireInv'
    BY <1>2 DEF On, OnFrame, Resolves, Waits, SubscribeTo, Connected
  <2>3. BulkInv'
    <3>1. CASE ~Connected /\ Resolves(c, {channel[c]})
      BY <1>2, <3>1 DEF On, OnFrame, Resolves, Connected
    <3>2. CASE channel[c] \in subscriptions /\ Resolves(c, {})
      BY <1>2, <3>2 DEF On, OnFrame, Resolves
    <3>3. CASE Connected /\ Waits(c, IF channel[c] \in subscribing THEN <<>> ELSE SubscribeTo(channel[c]))
      <4>1. /\ channel[c] \in Channels /\ SubscribeTo(channel[c]) \in Seq(Subscribe)
            /\ \A i \in DOMAIN SubscribeTo(channel[c]) : SubscribeTo(channel[c])[i].by = "on"
        BY QueueMembers
      <4>2. cmds' = cmds \/ cmds' = cmds \o SubscribeTo(channel[c])
        <5>1. cmds \o <<>> = cmds
          OBVIOUS
        <5> QED BY <3>3, <5>1 DEF Waits
      <4>3. \A i \in DOMAIN cmds' : cmds'[i].by = "on" \/ \E j \in DOMAIN cmds : cmds'[i] = cmds[j]
        <5>1. CASE cmds' = cmds
          BY <5>1
        <5>2. CASE cmds' = cmds \o SubscribeTo(channel[c])
          BY <4>1, <5>2, Concatenated
        <5> QED BY <4>2, <5>1, <5>2
      <4>4. /\ UNCHANGED <<status, startup, subscriptions, wire, confirmed, reactions>> /\ status # "wait"
        BY <1>2, <3>3 DEF OnFrame, On, Waits, Connected
      <4> QED BY <4>3, <4>4
    <3> QED BY <1>2, <3>1, <3>2, <3>3 DEF On
  <2>4. CallsInv'
    BY <1>2 DEF On, OnFrame, Resolves, Waits, SubscribeTo, Connected
  <2> QED BY <2>1, <2>2, <2>3, <2>4 DEF BusInv
<1>3. ASSUME NEW c \in Calls, Off(c) PROVE BusInv'
  <2>1. BusTypes'
    BY <1>3 DEF Off, redis
  <2>2. WireInv'
    BY <1>3 DEF Off, redis
  <2>3. BulkInv'
    BY <1>3 DEF Off, redis
  <2>4. CallsInv'
    BY <1>3 DEF Off, redis
  <2> QED BY <2>1, <2>2, <2>3, <2>4 DEF BusInv
<1>4. ASSUME NEW r \in reactions, React(r) PROVE BusInv'
  <2>1. BusTypes'
    BY <1>4 DEF React, Settle, WaitingOn
  <2>2. WireInv'
    BY <1>4 DEF React, Settle, WaitingOn
  <2>3. BulkInv'
    BY <1>4 DEF React, Settle, WaitingOn
  <2>4. CallsInv'
    BY <1>4 DEF React, Settle, WaitingOn
  <2> QED BY <2>1, <2>2, <2>3, <2>4 DEF BusInv
<1>5. ASSUME NEW r \in reactions, BulkSettles(r) PROVE BusInv'
  <2>1. BusTypes'
    BY <1>5 DEF BulkSettles, bus
  <2>2. WireInv'
    BY <1>5 DEF BulkSettles, bus
  <2>3. BulkInv'
    BY <1>5 DEF BulkSettles, bus
  <2>4. CallsInv'
    BY <1>5 DEF BulkSettles, bus
  <2> QED BY <2>1, <2>2, <2>3, <2>4 DEF BusInv
<1>6. ASSUME Startup PROVE BusInv'
  <2>1. BusTypes'
    BY <1>6 DEF Startup, bus, redis
  <2>2. WireInv'
    BY <1>6 DEF Startup, bus, redis
  <2>3. BulkInv'
    BY <1>6 DEF Startup, bus, redis
  <2>4. CallsInv'
    BY <1>6 DEF Startup, bus, redis
  <2> QED BY <2>1, <2>2, <2>3, <2>4 DEF BusInv
<1>7. ASSUME Opened PROVE BusInv'
  <2>1. BusTypes'
    <3>1. Append(cmds, [channels |-> subscriptions, by |-> "startup"]) \in Seq(Subscribe)
      BY QueueMembers, Appended
    <3> QED BY <1>7, <3>1 DEF Opened, bus
  <2>2. WireInv'
    BY <1>7 DEF Opened, bus
  <2>3. BulkInv'
    <3>1. \A i \in DOMAIN cmds' :
            cmds'[i].channels = subscriptions \/ \E j \in DOMAIN cmds : cmds'[i] = cmds[j]
      <4>1. CASE UNCHANGED cmds
        BY <4>1
      <4>2. CASE cmds' = Append(cmds, [channels |-> subscriptions, by |-> "startup"])
        BY <4>2, QueueMembers, Appended
      <4> QED BY <1>7, <4>1, <4>2 DEF Opened
    <3>2. startup' = "up" => startup = "up" \/ startup = "bulk" \/ subscriptions = {}
      BY <1>7 DEF Opened
    <3> QED BY <1>7, <3>1, <3>2 DEF Opened, bus
  <2>4. CallsInv'
    BY <1>7 DEF Opened, bus
  <2> QED BY <2>1, <2>2, <2>3, <2>4 DEF BusInv
<1>8. ASSUME ConnectFails \/ Shutdown PROVE BusInv'
  <2>1. BusTypes'
    BY <1>8 DEF ConnectFails, Shutdown, bus, redis
  <2>2. WireInv'
    BY <1>8 DEF ConnectFails, Shutdown, bus, redis
  <2>3. BulkInv'
    <3>1. CASE ConnectFails
      BY <3>1 DEF ConnectFails, bus, redis
    <3>2. CASE Shutdown
      BY <3>2 DEF Shutdown, bus, redis
    <3> QED BY <1>8, <3>1, <3>2
  <2>4. CallsInv'
    BY <1>8 DEF ConnectFails, Shutdown, bus, redis
  <2> QED BY <2>1, <2>2, <2>3, <2>4 DEF BusInv
<1>9. ASSUME NEW ok \in BOOLEAN, ServerAnswers(ok) PROVE BusInv'
  <2>1. BusTypes'
    <3>1. PICK n \in DOMAIN cmds : wire' = Append(wire, Outcome(cmds[n], ok))
                                  /\ server' = IF ok THEN server \cup cmds[n].channels ELSE server
      BY <1>9 DEF ServerAnswers
    <3>2. cmds[n] \in Subscribe /\ cmds[n].channels \subseteq Channels /\ Outcome(cmds[n], ok) \in Reply
      BY QueueMembers
    <3>3. wire' \in Seq(Message \cup Reply)
      BY <3>1, <3>2, Appended
    <3> QED BY <1>9, <3>1, <3>2, <3>3 DEF ServerAnswers, bus
  <2>2. WireInv'
    <3>1. PICK n \in DOMAIN cmds : wire' = Append(wire, Outcome(cmds[n], ok))
                                  /\ server' = IF ok THEN server \cup cmds[n].channels ELSE server
      BY <1>9 DEF ServerAnswers
    <3>2. /\ Outcome(cmds[n], ok).by = cmds[n].by /\ Outcome(cmds[n], ok).channels = cmds[n].channels
          /\ Outcome(cmds[n], ok).ok = ok /\ Outcome(cmds[n], ok) \in Reply
      BY QueueMembers
    <3>3. \A i \in DOMAIN wire' : wire'[i] = Outcome(cmds[n], ok) \/ \E j \in DOMAIN wire : wire'[i] = wire[j]
      BY <3>1, <3>2, Appended
    <3> QED BY <1>9, <3>1, <3>2, <3>3 DEF ServerAnswers, bus
  <2>3. BulkInv'
    <3>1. PICK n \in DOMAIN cmds : wire' = Append(wire, Outcome(cmds[n], ok))
                                  /\ server' = IF ok THEN server \cup cmds[n].channels ELSE server
      BY <1>9 DEF ServerAnswers
    <3>2. /\ Outcome(cmds[n], ok).by = cmds[n].by /\ Outcome(cmds[n], ok).channels = cmds[n].channels
          /\ Outcome(cmds[n], ok).ok = ok /\ Outcome(cmds[n], ok) \in Reply
      BY QueueMembers
    <3>3. \A i \in DOMAIN wire' : wire'[i] = Outcome(cmds[n], ok) \/ \E j \in DOMAIN wire : wire'[i] = wire[j]
      BY <3>1, <3>2, Appended
    <3> QED BY <1>9, <3>1, <3>2, <3>3 DEF ServerAnswers, bus
  <2>4. CallsInv'
    BY <1>9 DEF ServerAnswers, Outcome, bus
  <2> QED BY <2>1, <2>2, <2>3, <2>4 DEF BusInv
<1>10. ASSUME NEW ch \in Channels, Publish(ch) PROVE BusInv'
  <2>1. BusTypes'
    <3>1. CASE ch \in server
      <4>1. [on |-> ch] \in Message \cup Reply
        BY QueueMembers
      <4>2. Append(wire, [on |-> ch]) \in Seq(Message \cup Reply)
        BY <4>1, Appended
      <4> QED BY <1>10, <3>1, <4>2 DEF Publish, bus
    <3>2. CASE ch \notin server
      BY <1>10, <3>2 DEF Publish, bus
    <3> QED BY <3>1, <3>2
  <2>2. WireInv'
    <3>1. CASE ch \in server
      <4>1. [on |-> ch] \in Message /\ status \in {"ready", "closing"} /\ wire' = Append(wire, [on |-> ch])
        BY <1>10, <3>1, QueueMembers DEF Publish
      <4>2. \A i \in DOMAIN wire' : wire'[i] = [on |-> ch] \/ \E j \in DOMAIN wire : wire'[i] = wire[j]
        BY <4>1, Appended
      <4> QED BY <1>10, <4>1, <4>2 DEF Publish, bus
    <3>2. CASE ch \notin server
      BY <1>10, <3>2 DEF Publish, bus
    <3> QED BY <3>1, <3>2
  <2>3. BulkInv'
    <3>1. CASE ch \in server
      <4>1. [on |-> ch] \in Message /\ wire' = Append(wire, [on |-> ch])
        BY <1>10, <3>1, QueueMembers DEF Publish
      <4>2. \A i \in DOMAIN wire' : wire'[i] = [on |-> ch] \/ \E j \in DOMAIN wire : wire'[i] = wire[j]
        BY <4>1, Appended
      <4> QED BY <1>10, <4>1, <4>2 DEF Publish, bus
    <3>2. CASE ch \notin server
      BY <1>10, <3>2 DEF Publish, bus
    <3> QED BY <3>1, <3>2
  <2>4. CallsInv'
    BY <1>10 DEF Publish, bus
  <2> QED BY <2>1, <2>2, <2>3, <2>4 DEF BusInv
<1>11. ASSUME Receive PROVE BusInv'
  <2>1. BusTypes'
    <3>1. wire' \in Seq(Message \cup Reply) /\ Head(wire) \in Message \cup Reply
      BY <1>11, WithoutHead DEF Receive
    <3>2. CASE IsReply(Head(wire)) /\ cmds' = SubSeq(cmds, 2, Len(cmds))
      <4>1. cmds' \in Seq(Subscribe) /\ Head(wire) \in Reply
        BY <3>1, <3>2, WithoutFirst
      <4> QED BY <1>11, <3>1, <3>2, <4>1, QueueMembers DEF Receive, bus
    <3>3. CASE ~IsReply(Head(wire)) /\ Arrives(Head(wire))
      BY <1>11, <3>1, <3>3 DEF Receive, Arrives
    <3> QED BY <1>11, <3>2, <3>3 DEF Receive
  <2>2. WireInv'
    BY <1>11 DEF Receive, Arrives, bus
  <2>3. BulkInv'
    <3>1. /\ wire # <<>> /\ wire' = Tail(wire) /\ Head(wire) = wire[1] /\ 1 \in DOMAIN wire
          /\ \A i \in DOMAIN wire' : \E j \in DOMAIN wire : wire'[i] = wire[j]
      BY <1>11, WithoutHead DEF Receive
    <3>2. /\ UNCHANGED <<subscriptions, status, startup>> /\ confirmed \subseteq confirmed'
          /\ startup \notin {"no", "connect"}
      BY <1>11 DEF Receive, Arrives, bus
    <3>3. \A i \in DOMAIN cmds' : \E j \in DOMAIN cmds : cmds'[i] = cmds[j]
      <4>1. CASE cmds' = SubSeq(cmds, 2, Len(cmds))
        BY <4>1, WithoutFirst
      <4>2. CASE cmds' = cmds
        BY <4>2
      <4> QED BY <1>11, <4>1, <4>2 DEF Receive, Arrives
    <3>4. \A r \in reactions' : r \in reactions \/ (IsReply(wire[1]) /\ r = wire[1])
      BY <1>11, <3>1 DEF Receive, Arrives
    <3> QED BY <3>1, <3>2, <3>3, <3>4
  <2>4. CallsInv'
    BY <1>11 DEF Receive, Arrives, bus
  <2> QED BY <2>1, <2>2, <2>3, <2>4 DEF BusInv
<1>12. ASSUME Lost PROVE BusInv'
  <2>0. /\ Failed(cmds) \subseteq Reply
        /\ \A r \in Failed(cmds) : ~r.ok /\ \E i \in DOMAIN cmds : r.by = cmds[i].by /\ r.channels = cmds[i].channels
    BY FailedReplies
  <2>1. BusTypes'
    <3>1. cmds' = cmds \/ cmds' = <<>>
      BY <1>12 DEF Lost
    <3>2. cmds' \in Seq(Subscribe)
      <4>1. CASE cmds' = cmds
        BY <4>1
      <4>2. CASE cmds' = <<>>
        BY <4>2
      <4> QED BY <3>1, <4>1, <4>2
    <3>3. reactions' \subseteq Reply
      BY <1>12, <2>0 DEF Lost
    <3> QED BY <1>12, <3>2, <3>3 DEF Lost, bus
  <2>2. WireInv'
    BY <1>12, <2>0 DEF Lost, bus
  <2>3. BulkInv'
    BY <1>12, <2>0 DEF Lost, bus
  <2>4. CallsInv'
    BY <1>12 DEF Lost, bus
  <2> QED BY <2>1, <2>2, <2>3, <2>4 DEF BusInv
<1>13. ASSUME Closed PROVE BusInv'
  <2>0. /\ Failed(cmds) \subseteq Reply
        /\ \A r \in Failed(cmds) : ~r.ok /\ \E i \in DOMAIN cmds : r.by = cmds[i].by /\ r.channels = cmds[i].channels
    BY FailedReplies
  <2>1. BusTypes'
    BY <1>13, <2>0 DEF Closed, bus
  <2>2. WireInv'
    BY <1>13, <2>0 DEF Closed, bus
  <2>3. BulkInv'
    BY <1>13, <2>0 DEF Closed, bus
  <2>4. CallsInv'
    BY <1>13 DEF Closed, bus
  <2> QED BY <2>1, <2>2, <2>3, <2>4 DEF BusInv
<1> QED BY <1>1, <1>2, <1>3, <1>4, <1>5, <1>6, <1>7, <1>8, <1>9, <1>10, <1>11, <1>12, <1>13 DEF BusNext

(* The inductive invariant holds throughout.                               *)
THEOREM BusInvariance == BusSpec => []BusInv
<1>1. BusInit => BusInv
  BY DEF BusInit, BusInv, BusTypes, WireInv, BulkInv, CallsInv, ResolvedMissesNothing,
         RejectedLeavesNoTrace
<1>2. BusInv /\ [BusNext]_busVars => BusInv'
  BY BusStep
<1> QED BY <1>1, <1>2, PTL DEF BusSpec

(* An on() that resolved is subscribed at the server while the connection  *)
(* is up and hears every message of its channel, for any number of calls,  *)
(* messages and reconnections (RedisEventBusAdaptor.on()).                 *)
THEOREM ResolvedListens == BusSpec => []ResolvedHears
<1>1. BusInv => ResolvedHears
  BY DEF BusInv, BusTypes, WireInv, BulkInv, CallsInv, ResolvedHears, ResolvedIsSubscribed
<1> QED BY <1>1, BusInvariance, PTL

(* An on() that rejected has taken its handler off, for any number of      *)
(* calls that shared its SUBSCRIBE (RedisEventBusAdaptor.on()).            *)
THEOREM RejectedIsGone == BusSpec => []RejectedLeavesNoTrace
<1>1. BusInv => RejectedLeavesNoTrace
  BY DEF BusInv, CallsInv
<1> QED BY <1>1, BusInvariance, PTL

-----------------------------------------------------------------------------
(* The types, with what is in flight *)

(* A call of on() awaits x for the channel.                                *)
Awaited(x, ch) == x.by = "on" /\ ch \in x.channels

(* A channel is in subscribing as long as one SUBSCRIBE of on() for it is  *)
(* without a reply, or has one whose reaction has not run; and one only.   *)
PendingInv ==
  /\ subscribing \subseteq Channels
  /\ \A ch \in Channels :
       /\ ch \in subscribing <=> \/ \E i \in DOMAIN cmds : Awaited(cmds[i], ch)
                                 \/ \E r \in reactions : Awaited(r, ch)
       /\ \A i, j \in DOMAIN cmds : Awaited(cmds[i], ch) /\ Awaited(cmds[j], ch) => i = j
       /\ \A r, s \in reactions : Awaited(r, ch) /\ Awaited(s, ch) => r = s
       /\ \A i \in DOMAIN cmds, r \in reactions : ~(Awaited(cmds[i], ch) /\ Awaited(r, ch))

(* The first i on the wire hold so many replies, and the last of them is   *)
(* for the command of that number.                                         *)
Replies(s, i) == {j \in 1..i : IsReply(s[j])}

OrderInv ==
  \A i \in DOMAIN wire : IsReply(wire[i]) =>
    \E n \in DOMAIN cmds :
      /\ n = Cardinality(Replies(wire, i))
      /\ wire[i].channels = cmds[n].channels /\ wire[i].by = cmds[n].by

(* A handler is that of a call that waits or has resolved.                 *)
HandlersInv ==
  /\ \A c \in handlers : call[c] \in {"waiting", "resolved"}
  /\ missed \subseteq Calls \X {"waiting", "resolved"}
  /\ published \in 0..MaxMessages
  /\ losses \in 0..MaxLosses

-----------------------------------------------------------------------------
(* What is on its way *)

(* A queue with a new member, place by place.                              *)
LEMMA AppendedAt ==
  ASSUME NEW S, NEW s \in Seq(S), NEW e \in S
  PROVE  /\ DOMAIN s = 1..Len(s) /\ Len(s) \in Nat
         /\ DOMAIN Append(s, e) = DOMAIN s \cup {Len(s) + 1} /\ Len(s) + 1 \notin DOMAIN s
         /\ Append(s, e)[Len(s) + 1] = e
         /\ \A i \in DOMAIN s : Append(s, e)[i] = s[i]
OBVIOUS

(* A queue without its oldest member, place by place.                      *)
LEMMA DroppedAt ==
  ASSUME NEW S, NEW s \in Seq(S)
  PROVE  /\ \A i \in DOMAIN SubSeq(s, 2, Len(s)) : i + 1 \in DOMAIN s /\ SubSeq(s, 2, Len(s))[i] = s[i + 1]
         /\ \A i \in DOMAIN s : i # 1 => i - 1 \in DOMAIN SubSeq(s, 2, Len(s)) /\ i \in Nat
OBVIOUS

LEMMA TailAt ==
  ASSUME NEW S, NEW s \in Seq(S), s # <<>>
  PROVE  /\ 1 \in DOMAIN s /\ Head(s) = s[1] /\ Head(s) \in S /\ DOMAIN s = 1..Len(s) /\ Len(s) \in Nat
         /\ \A i \in DOMAIN Tail(s) : i \in Nat /\ i >= 1 /\ i + 1 \in DOMAIN s /\ Tail(s)[i] = s[i + 1]
OBVIOUS

(* The same numbers plus one are as many.                                  *)
LEMMA Shifted ==
  ASSUME NEW S \in SUBSET Nat, IsFiniteSet(S)
  PROVE  /\ IsFiniteSet({k + 1 : k \in S})
         /\ Cardinality({k + 1 : k \in S}) = Cardinality(S)
<1> DEFINE T == {k + 1 : k \in S}
           f == [k \in S |-> k + 1]
<1>1. f \in [S -> T]
  OBVIOUS
<1>2. \A a, b \in S : f[a] = f[b] => a = b
  OBVIOUS
<1>3. \A t \in T : \E s \in S : f[s] = t
  OBVIOUS
<1>4. f \in Bijection(S, T)
  BY <1>1, <1>2, <1>3 DEF Bijection, Injection, Surjection, IsInjective
<1>5. ExistsBijection(S, T)
  BY <1>4 DEF ExistsBijection
<1>6. QED
  BY <1>5, FS_Bijection

(* The number of replies up to a place.                                    *)
LEMMA RepliesFinite ==
  ASSUME NEW s, NEW i \in Nat
  PROVE  /\ Replies(s, i) \subseteq 1..i
         /\ IsFiniteSet(Replies(s, i)) /\ Cardinality(Replies(s, i)) \in Nat
<1>1. Replies(s, i) \in SUBSET (1..i)
  BY DEF Replies
<1>2. IsFiniteSet(1..i)
  BY FS_Interval
<1>3. IsFiniteSet(Replies(s, i))
  BY <1>1, <1>2, FS_Subset
<1>4. QED
  BY <1>1, <1>3, FS_CardinalityType

(* Without its oldest member a queue has as many replies, or one less.     *)
LEMMA RepliesOfTail ==
  ASSUME NEW S, NEW s \in Seq(S), s # <<>>, NEW i \in DOMAIN Tail(s)
  PROVE  Cardinality(Replies(s, i + 1)) =
           Cardinality(Replies(Tail(s), i)) + (IF IsReply(Head(s)) THEN 1 ELSE 0)
<1> DEFINE R == Replies(Tail(s), i)
           T == {k + 1 : k \in R}
<1>1. /\ i \in Nat /\ i >= 1 /\ Head(s) = s[1]
      /\ DOMAIN Tail(s) = 1..Len(Tail(s)) /\ Len(Tail(s)) \in Nat
      /\ \A j \in DOMAIN Tail(s) : Tail(s)[j] = s[j + 1]
  BY TailAt
<1>2. \A j \in 1..i : Tail(s)[j] = s[j + 1]
  BY <1>1
<1>3. R \subseteq 1..i /\ IsFiniteSet(R) /\ Cardinality(R) \in Nat
  BY <1>1, RepliesFinite
<1>4. R \in SUBSET Nat
  BY <1>3
<1> HIDE DEF R
<1>5. IsFiniteSet(T) /\ Cardinality(T) = Cardinality(R)
  BY <1>3, <1>4, Shifted
<1>6. 1 \notin T
  BY <1>3
<1>7. Replies(s, i + 1) = IF IsReply(Head(s)) THEN T \cup {1} ELSE T
  <2>1. ASSUME NEW k \in Nat, k # 1
        PROVE  k \in Replies(s, i + 1) <=> k \in T
    <3>1. k \in Replies(s, i + 1) <=> k \in 1..(i + 1) /\ IsReply(s[k])
      BY DEF Replies
    <3>2. CASE k \in 1..(i + 1)
      <4>1. k - 1 \in 1..i /\ k = (k - 1) + 1
        BY <1>1, <2>1, <3>2
      <4>2. Tail(s)[k - 1] = s[k]
        BY <1>2, <4>1
      <4>3. k - 1 \in R <=> IsReply(s[k])
        BY <4>1, <4>2 DEF R, Replies
      <4>4. k - 1 \in R <=> k \in T
        BY <4>1, <1>3
      <4>5. QED
        BY <3>1, <3>2, <4>3, <4>4
    <3>3. CASE k \notin 1..(i + 1)
      <4>1. k \notin T
        BY <1>1, <1>3, <3>3
      <4>2. QED
        BY <3>1, <3>3, <4>1
    <3>4. QED
      BY <3>2, <3>3
  <2>2. 1 \in Replies(s, i + 1) <=> IsReply(Head(s))
    BY <1>1 DEF Replies
  <2>3. Replies(s, i + 1) \subseteq Nat /\ T \subseteq Nat
    BY <1>1, <1>3, RepliesFinite
  <2> HIDE DEF T
  <2>4. CASE IsReply(Head(s))
    <3>1. \A k : k \in Replies(s, i + 1) <=> k \in T \cup {1}
      BY <2>1, <2>2, <2>3, <2>4
    <3>2. QED
      BY <2>4, <3>1
  <2>5. CASE ~IsReply(Head(s))
    <3>1. \A k : k \in Replies(s, i + 1) <=> k \in T
      BY <1>6, <2>1, <2>2, <2>3, <2>5
    <3>2. QED
      BY <2>5, <3>1
  <2>6. QED
    BY <2>4, <2>5
<1> HIDE DEF T
<1>8. Cardinality(T \cup {1}) = Cardinality(T) + 1
  BY <1>5, <1>6, FS_AddElement
<1>9. QED
  BY <1>3, <1>5, <1>7, <1>8 DEF R

(* A new member leaves the numbers of the others; a reply comes next.      *)
LEMMA RepliesOfAppended ==
  ASSUME NEW S, NEW s \in Seq(S), NEW e \in S
  PROVE  /\ \A i \in DOMAIN s : Replies(Append(s, e), i) = Replies(s, i)
         /\ IsReply(e) => Cardinality(Replies(Append(s, e), Len(s) + 1)) =
                            Cardinality({i \in DOMAIN s : IsReply(s[i])}) + 1
<1>1. /\ DOMAIN s = 1..Len(s) /\ Len(s) \in Nat
      /\ Append(s, e)[Len(s) + 1] = e
      /\ \A i \in DOMAIN s : Append(s, e)[i] = s[i]
  BY AppendedAt
<1>2. \A i \in DOMAIN s : Replies(Append(s, e), i) = Replies(s, i)
  BY <1>1 DEF Replies
<1>3. ASSUME IsReply(e)
      PROVE  Cardinality(Replies(Append(s, e), Len(s) + 1)) =
               Cardinality({i \in DOMAIN s : IsReply(s[i])}) + 1
  <2>1. Replies(Append(s, e), Len(s) + 1) = Replies(s, Len(s)) \cup {Len(s) + 1}
    BY <1>1, <1>3 DEF Replies
  <2>2. Replies(s, Len(s)) = {i \in DOMAIN s : IsReply(s[i])}
    BY <1>1 DEF Replies
  <2>3. IsFiniteSet(Replies(s, Len(s))) /\ Len(s) + 1 \notin Replies(s, Len(s))
    BY <1>1, RepliesFinite
  <2>4. QED
    BY <2>1, <2>2, <2>3, FS_AddElement
<1>4. QED
  BY <1>2, <1>3

(* A command more, for a channel that nobody awaits.                       *)
LEMMA OneMoreCommand ==
  ASSUME BusTypes, PendingInv, NEW x \in Subscribe,
         \A ch \in Channels : Awaited(x, ch) => ch \notin subscribing,
         cmds' = Append(cmds, x), reactions' = reactions,
         subscribing' = subscribing \cup {ch \in Channels : Awaited(x, ch)}
  PROVE  PendingInv'
<1>1. /\ DOMAIN cmds' = DOMAIN cmds \cup {Len(cmds) + 1} /\ Len(cmds) + 1 \notin DOMAIN cmds
      /\ cmds'[Len(cmds) + 1] = x
      /\ \A i \in DOMAIN cmds : cmds'[i] = cmds[i]
  BY AppendedAt DEF BusTypes
<1>2. QED
  BY <1>1 DEF PendingInv

(* A reaction less, whose channels nobody awaits any more.                 *)
LEMMA OneReactionLess ==
  ASSUME BusTypes, PendingInv, NEW r \in reactions,
         cmds' = cmds, reactions' = reactions \ {r},
         subscribing' = subscribing \ {ch \in Channels : Awaited(r, ch)}
  PROVE  PendingInv'
<1>1. ASSUME NEW ch \in Channels
      PROVE  ch \in subscribing' <=> \/ \E i \in DOMAIN cmds : Awaited(cmds[i], ch)
                                     \/ \E s \in reactions' : Awaited(s, ch)
  BY DEF PendingInv
<1>2. QED
  BY <1>1 DEF PendingInv

(* The commands fail, or their replies have come: their reactions are next.*)
LEMMA CommandsFail ==
  ASSUME BusTypes, PendingInv, subscribing' = subscribing, cmds' = <<>>,
         reactions' = reactions \cup Failed(cmds)
  PROVE  PendingInv'
<1>0. \A i \in DOMAIN cmds : /\ cmds[i] \in Subscribe
                              /\ Outcome(cmds[i], FALSE).by = cmds[i].by
                              /\ Outcome(cmds[i], FALSE).channels = cmds[i].channels
  <2>1. ASSUME NEW i \in DOMAIN cmds
        PROVE  /\ cmds[i] \in Subscribe
               /\ Outcome(cmds[i], FALSE).by = cmds[i].by
               /\ Outcome(cmds[i], FALSE).channels = cmds[i].channels
    <3>1. cmds[i] \in Subscribe
      BY DEF BusTypes
    <3>2. QED
      BY <3>1 DEF Outcome
  <2>2. QED
    BY <2>1
<1>1. \A r \in Failed(cmds) : \E i \in DOMAIN cmds :
        r = Outcome(cmds[i], FALSE) /\ \A ch \in Channels : Awaited(r, ch) <=> Awaited(cmds[i], ch)
  <2>1. ASSUME NEW r \in Failed(cmds)
        PROVE  \E i \in DOMAIN cmds : r = Outcome(cmds[i], FALSE)
    BY DEF Failed, ToSet
  <2>2. QED
    BY <1>0, <2>1 DEF Awaited
<1>2. \A i \in DOMAIN cmds : \E r \in Failed(cmds) :
        \A ch \in Channels : Awaited(r, ch) <=> Awaited(cmds[i], ch)
  <2>1. \A i \in DOMAIN cmds : Outcome(cmds[i], FALSE) \in Failed(cmds)
    BY DEF Failed, ToSet
  <2>2. QED
    BY <1>0, <2>1 DEF Awaited
<1>3. DOMAIN cmds' = {}
  OBVIOUS
<1>4. ASSUME NEW ch \in Channels
      PROVE  /\ ch \in subscribing <=> \E r \in reactions' : Awaited(r, ch)
             /\ \A r, s \in reactions' : Awaited(r, ch) /\ Awaited(s, ch) => r = s
  <2>1. ch \in subscribing <=> \E r \in reactions' : Awaited(r, ch)
    BY <1>1, <1>2 DEF PendingInv
  <2>2. ASSUME NEW r \in reactions', NEW s \in reactions', Awaited(r, ch), Awaited(s, ch)
        PROVE  r = s
    <3>1. CASE r \in reactions /\ s \in reactions
      BY <2>2, <3>1 DEF PendingInv
    <3>2. CASE r \in reactions /\ s \in Failed(cmds)
      BY <1>1, <2>2, <3>2 DEF PendingInv
    <3>3. CASE r \in Failed(cmds) /\ s \in reactions
      BY <1>1, <2>2, <3>3 DEF PendingInv
    <3>4. CASE r \in Failed(cmds) /\ s \in Failed(cmds)
      <4>1. PICK i \in DOMAIN cmds : r = Outcome(cmds[i], FALSE) /\ Awaited(cmds[i], ch)
        BY <1>1, <2>2, <3>4
      <4>2. PICK j \in DOMAIN cmds : s = Outcome(cmds[j], FALSE) /\ Awaited(cmds[j], ch)
        BY <1>1, <2>2, <3>4
      <4>3. i = j
        BY <4>1, <4>2 DEF PendingInv
      <4>4. QED
        BY <4>1, <4>2, <4>3
    <3>5. QED
      BY <2>2, <3>1, <3>2, <3>3, <3>4
  <2>3. QED
    BY <2>1, <2>2
<1>5. QED
  BY <1>3, <1>4 DEF PendingInv

LEMMA ReplyComes ==
  ASSUME BusTypes, PendingInv, NEW r \in Reply, 1 \in DOMAIN cmds,
         r.channels = cmds[1].channels, r.by = cmds[1].by,
         subscribing' = subscribing, cmds' = SubSeq(cmds, 2, Len(cmds)),
         reactions' = reactions \cup {r}
  PROVE  PendingInv'
<1>1. /\ \A i \in DOMAIN cmds' : i + 1 \in DOMAIN cmds /\ cmds'[i] = cmds[i + 1]
      /\ \A i \in DOMAIN cmds : i # 1 => i - 1 \in DOMAIN cmds' /\ i \in Nat
      /\ \A i \in DOMAIN cmds' : i \in Nat /\ i >= 1
  BY DroppedAt DEF BusTypes
<1>2. \A ch \in Channels : Awaited(r, ch) <=> Awaited(cmds[1], ch)
  BY DEF Awaited
<1>3. ASSUME NEW ch \in Channels
      PROVE  /\ ch \in subscribing <=> \/ \E i \in DOMAIN cmds' : Awaited(cmds'[i], ch)
                                       \/ \E s \in reactions' : Awaited(s, ch)
             /\ \A i, j \in DOMAIN cmds' : Awaited(cmds'[i], ch) /\ Awaited(cmds'[j], ch) => i = j
             /\ \A q, s \in reactions' : Awaited(q, ch) /\ Awaited(s, ch) => q = s
             /\ \A i \in DOMAIN cmds', s \in reactions' : ~(Awaited(cmds'[i], ch) /\ Awaited(s, ch))
  <2>1. (\E i \in DOMAIN cmds : Awaited(cmds[i], ch)) <=>
          Awaited(cmds[1], ch) \/ \E i \in DOMAIN cmds' : Awaited(cmds'[i], ch)
    <3>1. ASSUME NEW i \in DOMAIN cmds, Awaited(cmds[i], ch), i # 1
          PROVE  \E j \in DOMAIN cmds' : Awaited(cmds'[j], ch)
      <4>1. i - 1 \in DOMAIN cmds' /\ (i - 1) + 1 = i
        BY <1>1, <3>1
      <4>2. cmds'[i - 1] = cmds[i]
        BY <1>1, <4>1
      <4>3. QED
        BY <3>1, <4>1, <4>2
    <3>2. QED
      BY <1>1, <3>1
  <2>2. ch \in subscribing <=> \/ \E i \in DOMAIN cmds' : Awaited(cmds'[i], ch)
                               \/ \E s \in reactions' : Awaited(s, ch)
    BY <1>2, <2>1 DEF PendingInv
  <2>3. \A i, j \in DOMAIN cmds' : Awaited(cmds'[i], ch) /\ Awaited(cmds'[j], ch) => i = j
    <3>1. ASSUME NEW i \in DOMAIN cmds', NEW j \in DOMAIN cmds',
                 Awaited(cmds'[i], ch), Awaited(cmds'[j], ch)
          PROVE  i = j
      <4>1. i + 1 = j + 1
        BY <1>1, <3>1 DEF PendingInv
      <4>2. QED
        BY <1>1, <4>1
    <3>2. QED
      BY <3>1
  <2>4. \A q, s \in reactions' : Awaited(q, ch) /\ Awaited(s, ch) => q = s
    BY <1>2 DEF PendingInv
  <2>5. \A i \in DOMAIN cmds' : ~(Awaited(cmds'[i], ch) /\ Awaited(r, ch))
    <3>1. ASSUME NEW i \in DOMAIN cmds', Awaited(cmds'[i], ch), Awaited(r, ch)
          PROVE  FALSE
      <4>1. i + 1 = 1
        BY <1>1, <1>2, <3>1 DEF PendingInv
      <4>2. QED
        BY <1>1, <4>1
    <3>2. QED
      BY <3>1
  <2>6. \A i \in DOMAIN cmds', s \in reactions : ~(Awaited(cmds'[i], ch) /\ Awaited(s, ch))
    BY <1>1 DEF PendingInv
  <2>7. QED
    BY <2>2, <2>3, <2>4, <2>5, <2>6
<1>4. QED
  BY <1>3 DEF PendingInv

(* What stays on its way keeps its order.                                  *)
LEMMA OrderStays ==
  ASSUME BusTypes, OrderInv, wire' = wire,
         DOMAIN cmds \subseteq DOMAIN cmds', \A i \in DOMAIN cmds : cmds'[i] = cmds[i]
  PROVE  OrderInv'
<1>1. ASSUME NEW i \in DOMAIN wire', IsReply(wire'[i])
      PROVE  \E n \in DOMAIN cmds' :
               /\ n = Cardinality(Replies(wire', i))
               /\ wire'[i].channels = cmds'[n].channels /\ wire'[i].by = cmds'[n].by
  <2>1. PICK n \in DOMAIN cmds :
          /\ n = Cardinality(Replies(wire, i))
          /\ wire[i].channels = cmds[n].channels /\ wire[i].by = cmds[n].by
    BY <1>1 DEF OrderInv
  <2>2. QED
    BY <2>1
<1>2. QED
  BY <1>1 DEF OrderInv

(* A reply or a message more.                                              *)
LEMMA OrderOfAppended ==
  ASSUME BusTypes, OrderInv, NEW e \in Message \cup Reply, wire' = Append(wire, e), cmds' = cmds,
         IsReply(e) => \E n \in DOMAIN cmds :
           n = Answered + 1 /\ e.channels = cmds[n].channels /\ e.by = cmds[n].by
  PROVE  OrderInv'
<1>1. /\ DOMAIN wire' = DOMAIN wire \cup {Len(wire) + 1}
      /\ wire'[Len(wire) + 1] = e
      /\ \A i \in DOMAIN wire : wire'[i] = wire[i]
  BY AppendedAt DEF BusTypes
<1>2. /\ \A i \in DOMAIN wire : Replies(wire', i) = Replies(wire, i)
      /\ IsReply(e) => Cardinality(Replies(wire', Len(wire) + 1)) = Answered + 1
  <2>1. wire \in Seq(Message \cup Reply)
    BY DEF BusTypes
  <2>2. /\ \A i \in DOMAIN wire : Replies(Append(wire, e), i) = Replies(wire, i)
        /\ IsReply(e) => Cardinality(Replies(Append(wire, e), Len(wire) + 1)) =
                           Cardinality({i \in DOMAIN wire : IsReply(wire[i])}) + 1
    BY <2>1, RepliesOfAppended
  <2>3. QED
    BY <2>2 DEF Answered
<1>3. ASSUME NEW i \in DOMAIN wire', IsReply(wire'[i])
      PROVE  \E n \in DOMAIN cmds' :
               /\ n = Cardinality(Replies(wire', i))
               /\ wire'[i].channels = cmds'[n].channels /\ wire'[i].by = cmds'[n].by
  <2>1. CASE i = Len(wire) + 1
    BY <1>1, <1>2, <1>3, <2>1
  <2>2. CASE i \in DOMAIN wire
    BY <1>1, <1>2, <1>3, <2>2 DEF OrderInv
  <2>3. QED
    BY <1>1, <2>1, <2>2
<1>4. QED
  BY <1>3 DEF OrderInv

(* The first reply is for the first command.                               *)
LEMMA HeadIsFirst ==
  ASSUME BusTypes, OrderInv, wire # <<>>, IsReply(Head(wire))
  PROVE  /\ 1 \in DOMAIN cmds /\ Head(wire) \in Reply
         /\ Head(wire).channels = cmds[1].channels /\ Head(wire).by = cmds[1].by
<1>1. 1 \in DOMAIN wire /\ Head(wire) = wire[1] /\ Head(wire) \in Message \cup Reply
  BY TailAt DEF BusTypes
<1>2. Replies(wire, 1) = {1}
  BY <1>1 DEF Replies
<1>3. Cardinality(Replies(wire, 1)) = 1
  BY <1>2, FS_Singleton
<1>4. QED
  BY <1>1, <1>3 DEF OrderInv, IsReply

(* What comes next from the wire leaves the rest in order.                 *)
LEMMA OrderOfTail ==
  ASSUME BusTypes, OrderInv, wire # <<>>, wire' = Tail(wire),
         cmds' = IF IsReply(Head(wire)) THEN SubSeq(cmds, 2, Len(cmds)) ELSE cmds
  PROVE  OrderInv'
<1>1. \A i \in DOMAIN wire' : i \in Nat /\ i >= 1 /\ i + 1 \in DOMAIN wire /\ wire'[i] = wire[i + 1]
  BY TailAt DEF BusTypes
<1>2. ASSUME NEW i \in DOMAIN wire', IsReply(wire'[i])
      PROVE  \E n \in DOMAIN cmds' :
               /\ n = Cardinality(Replies(wire', i))
               /\ wire'[i].channels = cmds'[n].channels /\ wire'[i].by = cmds'[n].by
  <2>1. PICK n \in DOMAIN cmds :
          /\ n = Cardinality(Replies(wire, i + 1))
          /\ wire[i + 1].channels = cmds[n].channels /\ wire[i + 1].by = cmds[n].by
    BY <1>1, <1>2 DEF OrderInv
  <2>2. n = Cardinality(Replies(wire', i)) + (IF IsReply(Head(wire)) THEN 1 ELSE 0)
    BY <2>1, RepliesOfTail DEF BusTypes
  <2>3. /\ Cardinality(Replies(wire', i)) \in Nat /\ Cardinality(Replies(wire', i)) >= 1
    <3>1. i \in Replies(wire', i) /\ i \in Nat
      BY <1>1, <1>2 DEF Replies
    <3>2. IsFiniteSet(Replies(wire', i)) /\ Cardinality(Replies(wire', i)) \in Nat
      BY <3>1, RepliesFinite
    <3>3. Cardinality(Replies(wire', i)) # 0
      BY <3>1, <3>2, FS_EmptySet
    <3>4. QED
      BY <3>2, <3>3
  <2>4. CASE IsReply(Head(wire))
    <3>1. n # 1 /\ n - 1 = Cardinality(Replies(wire', i))
      BY <2>2, <2>3, <2>4
    <3>2. n - 1 \in DOMAIN cmds' /\ n \in Nat
      BY <2>4, <3>1, DroppedAt DEF BusTypes
    <3>3. cmds'[n - 1] = cmds[(n - 1) + 1] /\ (n - 1) + 1 = n
      <4>1. \A j \in DOMAIN cmds' : cmds'[j] = cmds[j + 1]
        BY <2>4, DroppedAt DEF BusTypes
      <4>2. QED
        BY <3>2, <4>1
    <3>4. QED
      BY <1>1, <2>1, <3>1, <3>2, <3>3
  <2>5. CASE ~IsReply(Head(wire))
    <3>1. n = Cardinality(Replies(wire', i)) /\ cmds' = cmds
      BY <2>2, <2>3, <2>5
    <3>2. QED
      BY <1>1, <2>1, <3>1
  <2>6. QED
    BY <2>4, <2>5
<1>3. QED
  BY <1>2 DEF OrderInv

(* What is in flight stays told apart, whatever happens.                   *)
FlightInv == PendingInv /\ OrderInv /\ HandlersInv

LEMMA FlightStep ==
  ASSUME BusInv, FlightInv, [BusNext]_busVars
  PROVE  FlightInv'
<1>0. BusTypes /\ PendingInv /\ OrderInv /\ HandlersInv /\ WireInv
  BY DEF BusInv, FlightInv
<1>1. ASSUME UNCHANGED <<subscribing, cmds, reactions, wire>>
      PROVE  PendingInv' /\ OrderInv'
  <2>1. PendingInv'
    BY <1>0, <1>1 DEF PendingInv
  <2>2. OrderInv'
    BY <1>0, <1>1, OrderStays
  <2>3. QED
    BY <2>1, <2>2
<1>2. ASSUME UNCHANGED <<handlers, call, missed, published, losses>>
      PROVE  HandlersInv'
  BY <1>0, <1>2 DEF HandlersInv
<1>3. CASE UNCHANGED busVars
  BY <1>1, <1>2, <1>3 DEF busVars, bus, redis, FlightInv
<1>4. ASSUME NEW c \in Calls, On(c)
      PROVE  FlightInv'
  <2>1. HandlersInv'
    BY <1>0, <1>4 DEF HandlersInv, On, OnFrame, Resolves, Waits, BusTypes
  <2>2. UNCHANGED <<wire, reactions>> /\ channel[c] \in Channels
    BY <1>0, <1>4 DEF On, OnFrame, BusTypes
  <2>3. CASE UNCHANGED <<subscribing, cmds>>
    BY <1>1, <2>1, <2>2, <2>3 DEF FlightInv
  <2>4. CASE /\ channel[c] \in subscribing /\ subscribing' = subscribing \cup {channel[c]}
             /\ cmds' = cmds \o <<>>
    <3>1. UNCHANGED <<subscribing, cmds>>
      BY <1>0, <2>4 DEF BusTypes
    <3>2. QED
      BY <1>1, <2>1, <2>2, <3>1 DEF FlightInv
  <2>5. CASE /\ channel[c] \notin subscribing /\ subscribing' = subscribing \cup {channel[c]}
             /\ cmds' = cmds \o SubscribeTo(channel[c])
    <3>1. PICK x \in Subscribe : x = [channels |-> {channel[c]}, by |-> "on"]
      BY <2>2 DEF Subscribe
    <3>2. x.by = "on" /\ x.channels = {channel[c]}
      BY <3>1
    <3>3. cmds' = Append(cmds, x)
      BY <1>0, <2>5, <3>1 DEF BusTypes, SubscribeTo
    <3>4. {ch \in Channels : Awaited(x, ch)} = {channel[c]}
      BY <2>2, <3>2 DEF Awaited
    <3>5. PendingInv'
      BY <1>0, <2>2, <2>5, <3>3, <3>4, OneMoreCommand
    <3>6. DOMAIN cmds \subseteq DOMAIN cmds' /\ \A i \in DOMAIN cmds : cmds'[i] = cmds[i]
      BY <1>0, <3>3, AppendedAt DEF BusTypes
    <3>7. OrderInv'
      BY <1>0, <2>2, <3>6, OrderStays
    <3>8. QED
      BY <2>1, <3>5, <3>7 DEF FlightInv
  <2>6. QED
    BY <1>4, <2>3, <2>4, <2>5 DEF On, Resolves, Waits
<1>5. ASSUME NEW c \in Calls, Off(c)
      PROVE  FlightInv'
  <2>1. HandlersInv'
    BY <1>0, <1>5 DEF HandlersInv, Off, BusTypes
  <2>2. QED
    BY <1>1, <1>5, <2>1 DEF Off, redis, FlightInv
<1>6. ASSUME NEW r \in reactions, React(r)
      PROVE  FlightInv'
  <2>1. /\ r.by = "on" /\ UNCHANGED <<cmds, wire>> /\ reactions' = reactions \ {r}
        /\ subscribing' = subscribing \ r.channels /\ r.channels \subseteq Channels
    BY <1>0, <1>6, QueueMembers DEF React, Settle, BusTypes
  <2>2. {ch \in Channels : Awaited(r, ch)} = r.channels
    BY <2>1 DEF Awaited
  <2>3. PendingInv'
    BY <1>0, <2>1, <2>2, OneReactionLess
  <2>4. OrderInv'
    BY <1>0, <2>1, OrderStays
  <2>5. HandlersInv'
    BY <1>0, <1>6 DEF HandlersInv, React, Settle, WaitingOn, BusTypes
  <2>6. QED
    BY <2>3, <2>4, <2>5 DEF FlightInv
<1>7. ASSUME NEW r \in reactions, BulkSettles(r)
      PROVE  FlightInv'
  <2>1. /\ r.by = "startup" /\ UNCHANGED <<cmds, wire, subscribing>> /\ reactions' = reactions \ {r}
    BY <1>7 DEF BulkSettles, bus
  <2>2. {ch \in Channels : Awaited(r, ch)} = {}
    BY <2>1 DEF Awaited
  <2>3. PendingInv'
    BY <1>0, <2>1, <2>2, OneReactionLess
  <2>4. OrderInv'
    BY <1>0, <2>1, OrderStays
  <2>5. HandlersInv'
    BY <1>2, <1>7 DEF BulkSettles, bus
  <2>6. QED
    BY <2>3, <2>4, <2>5 DEF FlightInv
<1>8. CASE Startup \/ ConnectFails \/ Shutdown
  BY <1>1, <1>2, <1>8 DEF Startup, ConnectFails, Shutdown, bus, redis, FlightInv
<1>9. CASE Opened
  <2>1. HandlersInv'
    BY <1>2, <1>9 DEF Opened, bus
  <2>2. UNCHANGED <<wire, reactions, subscribing>>
    BY <1>9 DEF Opened, bus
  <2>3. CASE UNCHANGED cmds
    BY <1>1, <2>1, <2>2, <2>3 DEF FlightInv
  <2>4. CASE cmds' = Append(cmds, [channels |-> subscriptions, by |-> "startup"])
    <3>1. PICK x \in Subscribe : x = [channels |-> subscriptions, by |-> "startup"]
      BY <1>0 DEF Subscribe, BusTypes
    <3>2. x.by = "startup" /\ cmds' = Append(cmds, x)
      BY <2>4, <3>1
    <3>3. {ch \in Channels : Awaited(x, ch)} = {} /\ \A ch \in Channels : ~Awaited(x, ch)
      BY <3>2 DEF Awaited
    <3>4. PendingInv'
      BY <1>0, <2>2, <3>2, <3>3, OneMoreCommand
    <3>5. DOMAIN cmds \subseteq DOMAIN cmds' /\ \A i \in DOMAIN cmds : cmds'[i] = cmds[i]
      BY <1>0, <3>2, AppendedAt DEF BusTypes
    <3>6. OrderInv'
      BY <1>0, <2>2, <3>5, OrderStays
    <3>7. QED
      BY <2>1, <3>4, <3>6 DEF FlightInv
  <2>5. QED
    BY <1>9, <2>3, <2>4 DEF Opened
<1>10. ASSUME NEW ok \in BOOLEAN, ServerAnswers(ok)
       PROVE  FlightInv'
  <2>1. HandlersInv'
    BY <1>2, <1>10 DEF ServerAnswers, bus
  <2>2. UNCHANGED <<subscribing, cmds, reactions>>
    BY <1>10 DEF ServerAnswers, bus
  <2>3. PendingInv'
    BY <1>0, <2>2 DEF PendingInv
  <2>4. PICK n \in DOMAIN cmds : n = Answered + 1 /\ wire' = Append(wire, Outcome(cmds[n], ok))
    BY <1>10 DEF ServerAnswers
  <2>5. PICK e \in Message \cup Reply :
          /\ wire' = Append(wire, e) /\ e.channels = cmds[n].channels /\ e.by = cmds[n].by
    <3>1. cmds[n] \in Subscribe
      BY <1>0 DEF BusTypes
    <3>2. QED
      BY <2>4, <3>1, QueueMembers
  <2>6. OrderInv'
    BY <1>0, <2>2, <2>4, <2>5, OrderOfAppended
  <2>7. QED
    BY <2>1, <2>3, <2>6 DEF FlightInv
<1>11. ASSUME NEW ch \in Channels, Publish(ch)
       PROVE  FlightInv'
  <2>1. HandlersInv'
    BY <1>0, <1>11, BusAssumption DEF HandlersInv, Publish, bus
  <2>2. UNCHANGED <<subscribing, cmds, reactions>>
    BY <1>11 DEF Publish, bus
  <2>3. CASE UNCHANGED wire
    BY <1>1, <2>1, <2>2, <2>3 DEF FlightInv
  <2>4. CASE wire' = Append(wire, [on |-> ch])
    <3>1. PICK e \in Message : wire' = Append(wire, e)
      BY <2>4, QueueMembers
    <3>2. ~IsReply(e) /\ e \in Message \cup Reply
      BY DEF IsReply
    <3>3. OrderInv'
      BY <1>0, <2>2, <3>1, <3>2, OrderOfAppended
    <3>4. PendingInv'
      BY <1>0, <2>2 DEF PendingInv
    <3>5. QED
      BY <2>1, <3>3, <3>4 DEF FlightInv
  <2>5. QED
    BY <1>11, <2>3, <2>4 DEF Publish
<1>12. CASE Receive
  <2>1. wire # <<>> /\ wire' = Tail(wire)
    BY <1>12 DEF Receive
  <2>2. CASE /\ IsReply(Head(wire)) /\ cmds' = SubSeq(cmds, 2, Len(cmds))
             /\ reactions' = reactions \cup {Head(wire)} /\ UNCHANGED <<bus, missed>>
    <3>1. PICK r \in Reply :
            /\ r = Head(wire) /\ 1 \in DOMAIN cmds
            /\ r.channels = cmds[1].channels /\ r.by = cmds[1].by
      BY <1>0, <2>1, <2>2, HeadIsFirst
    <3>2. PendingInv'
      <4>1. subscribing' = subscribing /\ reactions' = reactions \cup {r}
        BY <2>2, <3>1 DEF bus
      <4>2. QED
        BY <1>0, <2>2, <3>1, <4>1, ReplyComes
    <3>3. OrderInv'
      BY <1>0, <2>1, <2>2, OrderOfTail
    <3>4. HandlersInv'
      BY <1>2, <1>12, <2>2 DEF Receive, bus
    <3>5. QED
      BY <3>2, <3>3, <3>4 DEF FlightInv
  <2>3. CASE ~IsReply(Head(wire)) /\ Arrives(Head(wire))
    <3>1. UNCHANGED <<subscribing, cmds, reactions>>
      BY <2>3 DEF Arrives
    <3>2. PendingInv'
      BY <1>0, <3>1 DEF PendingInv
    <3>3. OrderInv'
      BY <1>0, <2>1, <2>3, <3>1, OrderOfTail
    <3>4. HandlersInv'
      BY <1>0, <1>12, <2>3 DEF HandlersInv, Receive, Arrives, BusTypes
    <3>5. QED
      BY <3>2, <3>3, <3>4 DEF FlightInv
  <2>4. QED
    BY <1>12, <2>2, <2>3 DEF Receive
<1>13. CASE Lost \/ Closed
  <2>1. HandlersInv'
    BY <1>0, <1>13, BusAssumption DEF HandlersInv, Lost, Closed, bus
  <2>2. wire' = <<>> /\ UNCHANGED subscribing
    BY <1>13 DEF Lost, Closed, bus
  <2>3. OrderInv'
    BY <2>2 DEF OrderInv
  <2>4. CASE UNCHANGED <<cmds, reactions>>
    BY <1>0, <2>1, <2>2, <2>3, <2>4 DEF PendingInv, FlightInv
  <2>5. CASE cmds' = <<>> /\ reactions' = reactions \cup Failed(cmds)
    <3>1. PendingInv'
      BY <1>0, <2>2, <2>5, CommandsFail
    <3>2. QED
      BY <2>1, <2>3, <3>1 DEF FlightInv
  <2>6. QED
    BY <1>13, <2>4, <2>5 DEF Lost, Closed
<1>14. QED
  BY <1>3, <1>4, <1>5, <1>6, <1>7, <1>8, <1>9, <1>10, <1>11, <1>12, <1>13 DEF BusNext

(* The types, and that subscribing has exactly the channels with a         *)
(* SUBSCRIBE of on() that has not settled: neither an entry without a      *)
(* command, whose callers would wait for ever, nor a command without an    *)
(* entry, which a second caller would repeat, for any number of calls      *)
(* (RedisEventBusAdaptor.subscribing).                                     *)
THEOREM BusTypeCorrect == BusSpec => []BusTypeOK
<1>1. BusInit => FlightInv
  <2>1. ASSUME BusInit
        PROVE  PendingInv /\ OrderInv /\ HandlersInv
    <3>1. PendingInv
      BY <2>1 DEF BusInit, PendingInv
    <3>2. OrderInv
      BY <2>1 DEF BusInit, OrderInv
    <3>3. HandlersInv
      BY <2>1, BusAssumption DEF BusInit, HandlersInv
    <3>4. QED
      BY <3>1, <3>2, <3>3
  <2>2. QED
    BY <2>1 DEF FlightInv
<1>2. BusInv /\ FlightInv /\ [BusNext]_busVars => FlightInv'
  BY FlightStep
<1>3. BusInv /\ FlightInv => BusTypeOK
  <2>1. ASSUME BusTypes, PendingInv, HandlersInv
        PROVE  BusTypeOK
    <3>1. \A ch \in Channels : ch \in subscribing <=>
            \E x \in ToSet(cmds) \cup reactions : x.by = "on" /\ ch \in x.channels
      BY <2>1 DEF PendingInv, Awaited, ToSet
    <3>2. \A x \in ToSet(cmds) \cup reactions : x.channels \subseteq Channels
      <4>1. \A i \in DOMAIN cmds : cmds[i] \in Subscribe
        BY <2>1 DEF BusTypes
      <4>2. ToSet(cmds) \subseteq Subscribe
        BY <4>1 DEF ToSet
      <4>3. QED
        BY <2>1, <4>2, QueueMembers DEF BusTypes, Subscribe
    <3>3. subscribing = UNION {x.channels : x \in {y \in ToSet(cmds) \cup reactions : y.by = "on"}}
      <4>1. subscribing \subseteq Channels
        BY <2>1 DEF PendingInv
      <4>2. QED
        BY <3>1, <3>2, <4>1
    <3>4. QED
      BY <2>1, <3>3 DEF BusTypeOK, BusTypes, HandlersInv
  <2>2. QED
    BY <2>1 DEF BusInv, FlightInv
<1>4. QED
  BY <1>1, <1>2, <1>3, BusInvariance, PTL DEF BusSpec

=============================================================================
