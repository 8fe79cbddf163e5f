--------------------------- MODULE ApiBridgeProofs ---------------------------
(***************************************************************************)
(* Proofs about the bridge of the API, for any robots, sessions, queue size *)
(* and bounds.  Four invariants, each from the types: what a session counts *)
(* is what is registered for it; messages go in order from the inbox to a   *)
(* queue to the user; what the client counts was sent on the connection it  *)
(* has; what is registered is subscribed, or about to be.                   *)
(***************************************************************************)
EXTENDS ApiBridge, Integers, TLAPS

Serving == {"subscribing", "advertising"}

ClientTypes ==
    /\ link \in {"up", "dead", "closed", "ended"} /\ losses \in 0 .. MaxLosses
    /\ bridgeSubs \in SUBSET (Robots \X Suffixes) /\ bridgeAds \in SUBSET Robots
    /\ listener \in ListenerStates /\ todo \in SUBSET Robots
    /\ subscribed \in SUBSET Robots /\ advertised \in SUBSET Robots

SessionTypes ==
    /\ queues \in [Robots -> SUBSET Sessions] /\ asked \in [Sessions -> SUBSET Robots]
    /\ session \in [Sessions -> [pc : SessionStates, robot : Robots \union {None}]]
    /\ \A s \in Sessions : session[s].pc \in Serving => session[s].robot \in Robots

\* Every message in a buffer was published.
MessageTypes ==
    /\ published \in Seq(Robots) /\ Len(published) <= MaxMessages
    /\ inbox \in Seq(0 .. MaxMessages)
    /\ \A i \in 1 .. Len(inbox) : inbox[i] <= Len(published)
    /\ queue \in [Sessions -> Seq(1 .. MaxMessages)]
    /\ seen \in [Sessions -> 0 .. MaxMessages]
    /\ \A s \in Sessions : /\ Len(queue[s]) <= QueueSize /\ seen[s] <= Len(published)
                           /\ \A i \in 1 .. Len(queue[s]) : queue[s][i] <= Len(published)

TypeInv == ClientTypes /\ SessionTypes /\ MessageTypes

\* A queue stays registered only for a robot that its session asked for.
QueueInv == QueuesMatchSessions /\ \A s \in Sessions : Following(s) \subseteq asked[s]

Increasing(q) == \A i, j \in 1 .. Len(q) : i < j => q[i] < q[j]

\* Message n is newer than all that was queued or shown.
Ahead(n) ==
    \A s \in Sessions : seen[s] < n /\ \A i \in 1 .. Len(queue[s]) : queue[s][i] < n

InboxInv ==
    /\ \A i, j \in 1 .. Len(inbox) : i < j /\ inbox[j] # StatusFrame => inbox[i] < inbox[j]
    /\ \A i \in 1 .. Len(inbox) : inbox[i] # StatusFrame => Ahead(inbox[i])

Deliverable(s) ==
    /\ Increasing(queue[s])
    /\ \A i \in 1 .. Len(queue[s]) :
          seen[s] < queue[s][i] /\ published[queue[s][i]] \in asked[s]

FeedInv == InboxInv /\ \A s \in Sessions : Deliverable(s)

\* What a suspended task has sent so far was sent on the connection that is up.
SentOnThisLink(s) ==
    /\ At(s, "subscribing") => <<session[s].robot, "response">> \in bridgeSubs
    /\ At(s, "advertising") => session[s].robot \in bridgeAds

TruthInv ==
    link = "up" =>
        /\ advertised \subseteq bridgeAds
        /\ listener # "readvertise" => \A r \in subscribed : {r} \X Suffixes \subseteq bridgeSubs
        /\ \A s \in Sessions : SentOnThisLink(s)

\* A robot with a queue is subscribed, or is one of those to subscribe again; a loss
\* meanwhile could forget it.
Covered(r) == queues[r] # {} => r \in subscribed \/ (listener = "resubscribe" /\ r \in todo)

CoverInv ==
    /\ listener = "backoff" => link = "closed"
    /\ listener \in {"readvertise", "resubscribe"} => link \in {"up", "ended"}
    /\ link = "ended" \/ \A r \in Robots : Covered(r)

--------------------------------------------------------------------------
(* Types. *)

LEMMA GotoTypes ==
  ASSUME SessionTypes, NEW s \in Sessions, NEW pc \in SessionStates,
         NEW r \in Robots \union {None}, pc \in Serving => r \in Robots, Goto(s, pc, r)
  PROVE  /\ session' \in [Sessions -> [pc : SessionStates, robot : Robots \union {None}]]
         /\ \A x \in Sessions : session'[x].pc \in Serving => session'[x].robot \in Robots
         /\ session'[s] = [pc |-> pc, robot |-> r]
         /\ \A x \in Sessions \ {s} : session'[x] = session[x]
  BY DEF SessionTypes, Goto

LEMMA RegisterTypes ==
  ASSUME SessionTypes, NEW s \in Sessions, NEW r \in Robots, RegisterQueue(s, r)
  PROVE  /\ queues' \in [Robots -> SUBSET Sessions] /\ asked' \in [Sessions -> SUBSET Robots]
         /\ queues'[r] = queues[r] \union {s} /\ asked'[s] = asked[s] \union {r}
         /\ \A x \in Robots \ {r} : queues'[x] = queues[x]
         /\ \A x \in Sessions \ {s} : asked'[x] = asked[x]
  BY DEF SessionTypes, RegisterQueue

\* A command ends in the suspended advertise or back at the receive.
LEMMA SendCommandEnds ==
  ASSUME TypeInv, NEW s \in Sessions, NEW r \in Robots, SendCommand(s, r)
  PROVE  /\ \/ Goto(s, "advertising", r) /\ r \notin advertised /\ Open /\ AdvertiseTopic(r)
            \/ Goto(s, "idle", None) /\ bridgeAds' = bridgeAds
         /\ bridgeAds' \in SUBSET Robots /\ bridgeAds \subseteq bridgeAds'
         /\ session' \in [Sessions -> [pc : SessionStates, robot : Robots \union {None}]]
         /\ \A x \in Sessions : session'[x].pc \in Serving => session'[x].robot \in Robots
<1>1. CASE Goto(s, "advertising", r) /\ r \notin advertised /\ Open /\ AdvertiseTopic(r)
  <2>1. "advertising" \in SessionStates BY DEF SessionStates
  <2>2. bridgeAds' \in SUBSET Robots /\ bridgeAds \subseteq bridgeAds'
    BY <1>1 DEF TypeInv, ClientTypes, AdvertiseTopic
  <2>3. QED BY <1>1, <2>1, <2>2, GotoTypes DEF TypeInv
<1>2. CASE Goto(s, "idle", None) /\ bridgeAds' = bridgeAds
  <2>1. "idle" \in SessionStates /\ "idle" \notin Serving BY DEF SessionStates, Serving
  <2>2. QED BY <1>2, <2>1, GotoTypes DEF TypeInv, ClientTypes
<1>3. QED BY <1>1, <1>2 DEF SendCommand

\* Appending and taking the first.
LEMMA AppendAt ==
  ASSUME NEW S, NEW q \in Seq(S), NEW x \in S
  PROVE  /\ Append(q, x) \in Seq(S) /\ Len(Append(q, x)) = Len(q) + 1 /\ Len(q) \in Nat
         /\ Append(q, x)[Len(q) + 1] = x
         /\ \A i \in 1 .. Len(q) : Append(q, x)[i] = q[i] /\ q[i] \in S
         /\ \A i \in 1 .. Len(Append(q, x)) : i \in 1 .. Len(q) \/ i = Len(q) + 1
  OBVIOUS

LEMMA ElementAt ==
  ASSUME NEW S, NEW q \in Seq(S)
  PROVE  /\ Len(q) \in Nat
         /\ \A i \in 1 .. Len(q) : q[i] \in S
  OBVIOUS

LEMMA TailAt ==
  ASSUME NEW S, NEW q \in Seq(S), q # <<>>
  PROVE  /\ Tail(q) \in Seq(S) /\ Head(q) = q[1] /\ 1 \in 1 .. Len(q) /\ Len(q) \in Nat
         /\ Head(q) \in S /\ Len(Tail(q)) = Len(q) - 1
         /\ \A i \in 1 .. Len(Tail(q)) : i + 1 \in 1 .. Len(q) /\ Tail(q)[i] = q[i + 1]
  OBVIOUS

LEMMA Suspended == "subscribing" \in Serving /\ "advertising" \in Serving
  BY DEF Serving

LEMMA RouteAt ==
  ASSUME TypeInv, NEW n \in 1 .. Len(published), RouteMessage(n)
  PROVE  /\ queue' \in [Sessions -> Seq(1 .. MaxMessages)]
         /\ \A s \in Sessions :
               \/ queue'[s] = queue[s]
               \/ /\ s \in queues[published[n]] /\ Len(queue[s]) < QueueSize
                  /\ queue'[s] = Append(queue[s], n)
<1>1. n \in 1 .. MaxMessages /\ queue \in [Sessions -> Seq(1 .. MaxMessages)]
  <2>1. Len(published) \in Nat /\ Len(published) <= MaxMessages
    BY DEF TypeInv, MessageTypes
  <2> QED BY <2>1, BridgeAssumption DEF TypeInv, MessageTypes
<1>2. \A s \in Sessions : Append(queue[s], n) \in Seq(1 .. MaxMessages)
  BY <1>1, AppendAt
<1> QED BY <1>1, <1>2 DEF RouteMessage

LEMMA TypeInit == Init => TypeInv
  BY BridgeAssumption DEF Init, TypeInv, ClientTypes, SessionTypes, MessageTypes,
     ListenerStates, SessionStates, Serving

\* After a robot the listener advertises another, subscribes again or reads.
LEMMA ContinuesWhere ==
  ASSUME ClientTypes, NEW left \in SUBSET Robots, ContinueFrom(left)
  PROVE  /\ todo' \in SUBSET Robots /\ subscribed' \in SUBSET Robots
         /\ \/ listener' = "readvertise" /\ subscribed' = subscribed
            \/ listener' = "resubscribe" /\ todo' = subscribed /\ subscribed' = {}
            \/ listener' = "reading" /\ subscribed = {} /\ subscribed' = {}
         /\ listener' \in ListenerStates
  BY DEF ClientTypes, ContinueFrom, ListenerStates

LEMMA ClientStep == TypeInv /\ [Next]_vars => ClientTypes'
<1> SUFFICES ASSUME TypeInv, [Next]_vars PROVE ClientTypes'
  OBVIOUS
<1> USE DEF TypeInv
<1>1. ASSUME NEW s \in Sessions, Session(s) PROVE ClientTypes'
  <2>1. CASE \/ Authenticate(s) \/ SendFeedback(s) \/ Disconnect(s) \/ DisconnectAborted(s)
    BY <2>1 DEF Authenticate, SendFeedback, Disconnect, DisconnectAborted, ClientTypes,
       linkVars, clientVars
  <2>2. CASE FinishSubscribing(s)
    <3>1. session[s].robot \in Robots
      BY <2>2, Suspended DEF FinishSubscribing, At, SessionTypes
    <3>2. bridgeAds' \in SUBSET Robots
      BY <2>2, <3>1, SendCommandEnds DEF FinishSubscribing, ClientTypes
    <3>3. bridgeSubs' \in SUBSET (Robots \X Suffixes) /\ subscribed' \in SUBSET Robots
      BY <2>2, <3>1 DEF FinishSubscribing, SubscribeTopics, ClientTypes, Suffixes
    <3> QED BY <2>2, <3>2, <3>3 DEF FinishSubscribing, ClientTypes
  <2>3. CASE FinishAdvertising(s)
    <3>1. session[s].robot \in Robots
      BY <2>3, Suspended DEF FinishAdvertising, At, SessionTypes
    <3> QED BY <2>3, <3>1 DEF FinishAdvertising, ClientTypes, linkVars
  <2>4. ASSUME NEW r \in Robots, Command(s, r) PROVE ClientTypes'
    BY <2>4, SendCommandEnds DEF Command, ClientTypes, clientVars
  <2>5. ASSUME NEW r \in Robots, CommandNew(s, r) PROVE ClientTypes'
    BY <2>5, SendCommandEnds DEF CommandNew, ClientTypes
  <2>6. ASSUME NEW r \in Robots, CommandFirst(s, r) PROVE ClientTypes'
    BY <2>6 DEF CommandFirst, SubscribeTopics, ClientTypes, clientVars, Suffixes
  <2> QED BY <1>1, <2>1, <2>2, <2>3, <2>4, <2>5, <2>6 DEF Session
<1>2. CASE Listen
  <2> USE <1>2 DEF ClientTypes, linkVars, ListenerStates
  <2>1. CASE Receive \/ ConnectionLost \/ Spin
    BY <2>1 DEF Receive, ConnectionLost, Spin
  <2>2. CASE Reconnect
    BY <2>2, ContinuesWhere DEF Reconnect
  <2>3. CASE Readvertise
    BY <2>3, ContinuesWhere DEF Readvertise, GiveUp, AdvertiseTopic
  <2>4. CASE Resubscribe
    BY <2>4 DEF Resubscribe, GiveUp, SubscribeTopics
  <2> QED BY <2>1, <2>2, <2>3, <2>4 DEF Listen
<1>3. CASE Environment
  <2> USE DEF ClientTypes, linkVars, clientVars
  <2>1. ASSUME NEW state \in {"dead", "ended"}, Drop(state) PROVE ClientTypes'
    <3>1. losses \in 0 .. MaxLosses /\ losses < MaxLosses
      BY <2>1 DEF Drop
    <3>2. losses + 1 \in 0 .. MaxLosses
      BY <3>1, BridgeAssumption
    <3> QED BY <2>1, <3>2 DEF Drop
  <2>2. CASE Lose \/ CloseNormally
    BY <2>1, <2>2 DEF Lose, CloseNormally
  <2>3. CASE Notice
    BY <2>3 DEF Notice
  <2>4. CASE ReportStatus \/ \E r \in Robots, suffix \in Suffixes : Publish(r, suffix)
    BY <2>4 DEF ReportStatus, Publish
  <2> QED BY <1>3, <2>2, <2>3, <2>4 DEF Environment
<1>4. CASE UNCHANGED vars
  BY <1>4 DEF vars, linkVars, clientVars, ClientTypes
<1> QED BY <1>1, <1>2, <1>3, <1>4 DEF Next

LEMMA SessionStep == TypeInv /\ [Next]_vars => SessionTypes'
<1> SUFFICES ASSUME TypeInv, [Next]_vars PROVE SessionTypes'
  OBVIOUS
<1>0. SessionTypes
  BY DEF TypeInv
<1>1. ASSUME NEW s \in Sessions, Session(s) PROVE SessionTypes'
  <2>1. CASE Authenticate(s)
    <3>1. PICK pc \in {"idle", "closed"} : Goto(s, pc, None)
      BY <2>1 DEF Authenticate
    <3>2. pc \in SessionStates /\ pc \notin Serving
      BY DEF SessionStates, Serving
    <3> QED BY <1>0, <2>1, <3>1, <3>2, GotoTypes DEF Authenticate, SessionTypes, clientVars
  <2>2. CASE SendFeedback(s)
    BY <1>0, <2>2 DEF SendFeedback, SessionTypes, clientVars
  <2>3. CASE Disconnect(s) \/ DisconnectAborted(s)
    <3>1. PICK pc \in {"closed", "aborted"} : Goto(s, pc, None)
      BY <2>3 DEF Disconnect, DisconnectAborted
    <3>2. pc \in SessionStates /\ pc \notin Serving
      BY DEF SessionStates, Serving
    <3>3. queues' \in [Robots -> SUBSET Sessions] /\ asked' \in [Sessions -> SUBSET Robots]
      BY <1>0, <2>3 DEF Disconnect, DisconnectAborted, UnregisterAll, Unregister, SessionTypes
    <3> QED BY <1>0, <3>1, <3>2, <3>3, GotoTypes DEF SessionTypes
  <2>4. CASE FinishSubscribing(s)
    <3>1. session[s].robot \in Robots
      BY <1>0, <2>4, Suspended DEF FinishSubscribing, At, SessionTypes
    <3>2. CASE RegisterQueue(s, session[s].robot) /\ SendCommand(s, session[s].robot)
      BY <1>0, <3>1, <3>2, RegisterTypes, SendCommandEnds DEF SessionTypes
    <3>3. CASE Goto(s, "idle", None) /\ UNCHANGED <<queues, asked>>
      <4>1. "idle" \in SessionStates /\ "idle" \notin Serving
        BY DEF SessionStates, Serving
      <4> QED BY <1>0, <3>3, <4>1, GotoTypes DEF SessionTypes
    <3> QED BY <2>4, <3>2, <3>3 DEF FinishSubscribing
  <2>5. CASE FinishAdvertising(s)
    <3>1. "idle" \in SessionStates /\ "idle" \notin Serving
      BY DEF SessionStates, Serving
    <3> QED BY <1>0, <2>5, <3>1, GotoTypes DEF FinishAdvertising, SessionTypes
  <2>6. ASSUME NEW r \in Robots, Command(s, r) PROVE SessionTypes'
    BY <1>0, <2>6, SendCommandEnds DEF Command, SessionTypes, clientVars
  <2>7. ASSUME NEW r \in Robots, CommandNew(s, r) PROVE SessionTypes'
    BY <1>0, <2>7, SendCommandEnds, RegisterTypes DEF CommandNew, SessionTypes
  <2>8. ASSUME NEW r \in Robots, CommandFirst(s, r) PROVE SessionTypes'
    <3>1. "subscribing" \in SessionStates
      BY DEF SessionStates
    <3> QED BY <1>0, <2>8, <3>1, GotoTypes DEF CommandFirst, SessionTypes, clientVars
  <2> QED BY <1>1, <2>1, <2>2, <2>3, <2>4, <2>5, <2>6, <2>7, <2>8 DEF Session
<1>2. CASE Listen
  BY <1>0, <1>2 DEF Listen, Receive, ConnectionLost, Spin, Reconnect, Readvertise,
     Resubscribe, SessionTypes, sessionVars
<1>3. CASE Environment
  BY <1>0, <1>3 DEF Environment, Publish, ReportStatus, Lose, Notice, CloseNormally, Drop,
     SessionTypes, sessionVars, clientVars
<1>4. CASE UNCHANGED vars
  BY <1>0, <1>4 DEF vars, sessionVars, clientVars, SessionTypes
<1> QED BY <1>1, <1>2, <1>3, <1>4 DEF Next

\* The messages are touched by five steps only.
NoMessage == UNCHANGED <<published, inbox, queue, seen>>

LEMMA MessagesAreTouched ==
  ASSUME [Next]_vars
  PROVE  \/ NoMessage
         \/ Receive \/ Reconnect \/ ReportStatus
         \/ \E r \in Robots, suffix \in Suffixes : Publish(r, suffix)
         \/ \E s \in Sessions : SendFeedback(s) \/ Disconnect(s)
<1>1. ASSUME NEW s \in Sessions, Session(s) PROVE NoMessage \/ SendFeedback(s) \/ Disconnect(s)
  BY <1>1 DEF Session, Authenticate, FinishSubscribing, FinishAdvertising, DisconnectAborted,
     Command, CommandNew, CommandFirst, NoMessage
<1>2. CASE Listen
  BY <1>2 DEF Listen, ConnectionLost, Spin, Readvertise, Resubscribe, NoMessage, sessionVars
<1>3. CASE Environment
  BY <1>3 DEF Environment, Lose, Notice, CloseNormally, Drop, NoMessage, sessionVars
<1>4. CASE UNCHANGED vars
  BY <1>4 DEF vars, sessionVars, NoMessage
<1> QED BY <1>1, <1>2, <1>3, <1>4 DEF Next

LEMMA MessageStep == TypeInv /\ [Next]_vars => MessageTypes'
<1> SUFFICES ASSUME TypeInv, [Next]_vars PROVE MessageTypes'
  OBVIOUS
<1>0. MessageTypes /\ MaxMessages \in Nat /\ Len(published) \in Nat
  BY BridgeAssumption DEF TypeInv, MessageTypes
<1>1. CASE NoMessage
  BY <1>0, <1>1 DEF NoMessage, MessageTypes
<1>2. CASE Receive
  <2>1. /\ Tail(inbox) \in Seq(0 .. MaxMessages) /\ Head(inbox) \in 0 .. Len(published)
        /\ \A i \in 1 .. Len(Tail(inbox)) : Tail(inbox)[i] <= Len(published)
    <3>1. inbox # <<>> /\ inbox \in Seq(0 .. MaxMessages)
      BY <1>0, <1>2 DEF Receive, MessageTypes
    <3>2. \A i \in 1 .. Len(inbox) : inbox[i] <= Len(published)
      BY <1>0 DEF MessageTypes
    <3> QED BY <1>0, <3>1, <3>2, TailAt
  <2>2. inbox' = Tail(inbox) /\ UNCHANGED <<published, seen>>
    BY <1>2 DEF Receive
  <2>3. CASE UNCHANGED queue
    BY <1>0, <2>1, <2>2, <2>3 DEF MessageTypes
  <2>4. CASE Head(inbox) # StatusFrame /\ RouteMessage(Head(inbox))
    <3>1. Head(inbox) \in 1 .. Len(published)
      BY <1>0, <2>1, <2>4 DEF StatusFrame
    <3>2. ASSUME NEW s \in Sessions
          PROVE  /\ Len(queue'[s]) <= QueueSize
                 /\ \A i \in 1 .. Len(queue'[s]) : queue'[s][i] <= Len(published)
      <4>1. CASE queue'[s] = queue[s]
        BY <1>0, <4>1 DEF MessageTypes
      <4>2. CASE Len(queue[s]) < QueueSize /\ queue'[s] = Append(queue[s], Head(inbox))
        <5>1. queue[s] \in Seq(1 .. MaxMessages) /\ Head(inbox) \in 1 .. MaxMessages
          BY <1>0, <3>1 DEF MessageTypes
        <5>2. \A i \in 1 .. Len(queue[s]) : queue[s][i] <= Len(published)
          BY <1>0 DEF MessageTypes
        <5> QED BY <1>0, <3>1, <4>2, <5>1, <5>2, AppendAt, BridgeAssumption
      <4> QED BY <2>4, <3>1, <4>1, <4>2, RouteAt
    <3>3. queue' \in [Sessions -> Seq(1 .. MaxMessages)]
      BY <2>4, <3>1, RouteAt
    <3> QED BY <1>0, <2>1, <2>2, <3>2, <3>3 DEF MessageTypes
  <2> QED BY <1>2, <2>3, <2>4 DEF Receive
<1>3. CASE Reconnect
  BY <1>0, <1>3 DEF Reconnect, MessageTypes, sessionVars
<1>4. CASE ReportStatus
  <2>1. StatusFrame \in 0 .. MaxMessages /\ StatusFrame <= Len(published)
    BY <1>0 DEF StatusFrame
  <2>2. /\ inbox' \in Seq(0 .. MaxMessages)
        /\ \A i \in 1 .. Len(inbox') : inbox'[i] <= Len(published)
    <3>1. inbox \in Seq(0 .. MaxMessages) /\ inbox' = Append(inbox, StatusFrame)
      BY <1>0, <1>4 DEF MessageTypes, ReportStatus
    <3>2. \A i \in 1 .. Len(inbox) : inbox[i] <= Len(published)
      BY <1>0 DEF MessageTypes
    <3> QED BY <2>1, <3>1, <3>2, AppendAt
  <2> QED BY <1>0, <1>4, <2>2 DEF ReportStatus, MessageTypes, sessionVars
<1>5. ASSUME NEW r \in Robots, NEW suffix \in Suffixes, Publish(r, suffix) PROVE MessageTypes'
  <2>1. /\ published' \in Seq(Robots) /\ Len(published') = Len(published) + 1
        /\ Len(published') <= MaxMessages
    BY <1>0, <1>5, AppendAt DEF Publish, MessageTypes
  <2>2. /\ inbox' \in Seq(0 .. MaxMessages)
        /\ \A i \in 1 .. Len(inbox') : inbox'[i] <= Len(published')
    <3>1. inbox \in Seq(0 .. MaxMessages) /\ inbox' \in {inbox, Append(inbox, Len(published) + 1)}
      BY <1>0, <1>5 DEF MessageTypes, Publish
    <3>2. \A i \in 1 .. Len(inbox) : inbox[i] \in 0 .. MaxMessages /\ inbox[i] <= Len(published)
      BY <1>0 DEF MessageTypes
    <3>3. Len(published) + 1 \in 0 .. MaxMessages
      BY <1>0, <2>1
    <3>4. CASE inbox' = inbox
      BY <1>0, <2>1, <3>1, <3>2, <3>4
    <3>5. CASE inbox' = Append(inbox, Len(published) + 1)
      <4>1. inbox' \in Seq(0 .. MaxMessages)
        BY <3>1, <3>3, <3>5, AppendAt
      <4>2. ASSUME NEW i \in 1 .. Len(inbox') PROVE inbox'[i] <= Len(published')
        <5>1. inbox'[i] = Len(published) + 1 \/ (i \in 1 .. Len(inbox) /\ inbox'[i] = inbox[i])
          BY <3>1, <3>3, <3>5, AppendAt
        <5> QED BY <1>0, <2>1, <3>2, <5>1
      <4> QED BY <4>1, <4>2
    <3> QED BY <3>1, <3>4, <3>5
  <2>3. ASSUME NEW s \in Sessions
        PROVE  /\ seen[s] <= Len(published')
               /\ \A i \in 1 .. Len(queue[s]) : queue[s][i] <= Len(published')
    <3>1. queue[s] \in Seq(1 .. MaxMessages) /\ seen[s] \in 0 .. MaxMessages
      BY <1>0 DEF MessageTypes
    <3>2. \A i \in 1 .. Len(queue[s]) : queue[s][i] \in 1 .. MaxMessages
      BY <3>1, ElementAt
    <3> QED BY <1>0, <2>1, <3>1, <3>2 DEF MessageTypes
  <2> QED BY <1>0, <1>5, <2>1, <2>2, <2>3 DEF Publish, MessageTypes, sessionVars
<1>6. ASSUME NEW s \in Sessions, SendFeedback(s) PROVE MessageTypes'
  <2>1. queue[s] \in Seq(1 .. MaxMessages) /\ queue[s] # <<>>
    BY <1>0, <1>6 DEF SendFeedback, MessageTypes
  <2>2. /\ Tail(queue[s]) \in Seq(1 .. MaxMessages) /\ Len(Tail(queue[s])) <= QueueSize
        /\ Head(queue[s]) \in 0 .. MaxMessages /\ Head(queue[s]) <= Len(published)
        /\ \A i \in 1 .. Len(Tail(queue[s])) : Tail(queue[s])[i] <= Len(published)
    <3>1. /\ Len(queue[s]) <= QueueSize
          /\ \A i \in 1 .. Len(queue[s]) : queue[s][i] <= Len(published)
      BY <1>0 DEF MessageTypes
    <3>2. /\ Tail(queue[s]) \in Seq(1 .. MaxMessages) /\ Head(queue[s]) \in 1 .. MaxMessages
          /\ Len(Tail(queue[s])) = Len(queue[s]) - 1 /\ Len(queue[s]) \in Nat
          /\ Head(queue[s]) = queue[s][1] /\ 1 \in 1 .. Len(queue[s])
      BY <2>1, TailAt
    <3>3. \A i \in 1 .. Len(Tail(queue[s])) :
             i + 1 \in 1 .. Len(queue[s]) /\ Tail(queue[s])[i] = queue[s][i + 1]
      BY <2>1, TailAt
    <3>4. \A i \in 1 .. Len(Tail(queue[s])) : Tail(queue[s])[i] <= Len(published)
      BY <3>1, <3>3
    <3> QED BY <1>0, <3>1, <3>2, <3>4, BridgeAssumption
  <2>3. /\ queue' = [queue EXCEPT ![s] = Tail(queue[s])]
        /\ seen' = [seen EXCEPT ![s] = Head(queue[s])]
        /\ UNCHANGED <<inbox, published>>
    BY <1>6 DEF SendFeedback
  <2> QED BY <1>0, <2>2, <2>3 DEF MessageTypes
<1>7. ASSUME NEW s \in Sessions, Disconnect(s) PROVE MessageTypes'
  <2>1. <<>> \in Seq(1 .. MaxMessages) /\ Len(<<>>) <= QueueSize /\ Len(<<>>) = 0
    BY BridgeAssumption
  <2>2. queue' = [queue EXCEPT ![s] = <<>>] /\ UNCHANGED <<inbox, published, seen>>
    BY <1>7 DEF Disconnect
  <2> QED BY <1>0, <2>1, <2>2 DEF MessageTypes
<1> QED BY <1>1, <1>2, <1>3, <1>4, <1>5, <1>6, <1>7, MessagesAreTouched

\* What everything holds, whatever the robots do and however often the connection goes.
THEOREM BridgeTypes == Spec => []TypeInv
<1>1. TypeInv /\ [Next]_vars => TypeInv'
  BY ClientStep, SessionStep, MessageStep DEF TypeInv
<1> QED BY TypeInit, <1>1, PTL DEF Spec

\* The type invariant; a queue never holds more than its size.
THEOREM BridgeTypeOK == Spec => []TypeOK
<1>1. TypeInv => TypeOK
  BY DEF TypeInv, ClientTypes, SessionTypes, MessageTypes, TypeOK
<1> QED BY BridgeTypes, <1>1, PTL

--------------------------------------------------------------------------
(* What a session counts. *)

LEMMA QueueInit == Init => QueueInv
  BY DEF Init, QueueInv, QueuesMatchSessions, Following, At

LEMMA QueueStep == TypeInv /\ QueueInv /\ [Next]_vars => QueueInv'
<1> SUFFICES ASSUME TypeInv, QueueInv, [Next]_vars,
                    NEW x \in Sessions
             PROVE  /\ ~ At(x, "aborted")' => (asked[x] = Following(x))'
                    /\ (Following(x) \subseteq asked[x])'
  BY DEF QueueInv, QueuesMatchSessions
<1>0. /\ ~ At(x, "aborted") => asked[x] = Following(x)
      /\ Following(x) \subseteq asked[x]
      /\ SessionTypes
  BY DEF QueueInv, QueuesMatchSessions, TypeInv
<1> DEFINE Matched == /\ ~ At(x, "aborted")' => (asked[x] = Following(x))'
                      /\ (Following(x) \subseteq asked[x])'
\* A session that registers, or another one, matches; a queue that stays does too.
<1>a. ASSUME asked'[x] = asked[x], \A r \in Robots : x \in queues'[r] <=> x \in queues[r],
             session'[x].pc # "aborted" => session[x].pc # "aborted"
      PROVE  Matched
  BY <1>0, <1>a DEF Following, At
<1>b. ASSUME NEW s \in Sessions, NEW r \in Robots, RegisterQueue(s, r),
             session[x].pc # "aborted" \/ (x # s /\ session'[x] = session[x])
      PROVE  Matched
  <2>1. CASE x = s
    <3>1. asked[s] = Following(s) /\ asked'[s] = asked[s] \union {r}
      BY <1>0, <1>b, <2>1, RegisterTypes DEF At
    <3>2. \A q \in Robots : s \in queues'[q] <=> s \in queues[q] \/ q = r
      BY <1>0, <1>b, RegisterTypes
    <3> QED BY <1>0, <2>1, <3>1, <3>2 DEF Following
  <2>2. CASE x # s
    <3>1. asked'[x] = asked[x]
      BY <1>0, <1>b, <2>2, RegisterTypes
    <3>2. \A q \in Robots : x \in queues'[q] <=> x \in queues[q]
      BY <1>0, <1>b, <2>2, RegisterTypes
    <3> QED BY <1>0, <1>a, <1>b, <3>1, <3>2 DEF At, Following
  <2> QED BY <2>1, <2>2
<1>1. ASSUME NEW s \in Sessions, Session(s) PROVE Matched
  <2>1. CASE Authenticate(s) \/ SendFeedback(s)
    BY <1>0, <1>a, <2>1 DEF Authenticate, SendFeedback, Goto, At, clientVars, SessionTypes
  <2>2. CASE Disconnect(s)
    <3>1. CASE x = s
      BY <1>0, <2>2, <3>1 DEF Disconnect, UnregisterAll, Unregister, Following, SessionTypes
    <3>2. CASE x # s
      <4>1. /\ asked'[x] = asked[x] /\ session'[x] = session[x]
            /\ \A r \in Robots : x \in queues'[r] <=> x \in queues[r]
        BY <1>0, <2>2, <3>2 DEF Disconnect, UnregisterAll, Unregister, Goto, SessionTypes
      <4> QED BY <1>a, <4>1
    <3> QED BY <3>1, <3>2
  <2>3. CASE DisconnectAborted(s)
    <3>1. CASE x = s
      <4>1. session'[x].pc = "aborted" /\ asked' = asked
        BY <1>0, <2>3, <3>1 DEF DisconnectAborted, Goto, SessionTypes
      <4>2. \A r \in Robots : x \in queues'[r] => x \in queues[r]
        BY <1>0, <2>3, <3>1 DEF DisconnectAborted, Unregister, SessionTypes
      <4> QED BY <1>0, <4>1, <4>2 DEF Following, At
    <3>2. CASE x # s
      <4>1. /\ asked'[x] = asked[x] /\ session'[x] = session[x]
            /\ \A r \in Robots : x \in queues'[r] <=> x \in queues[r]
        BY <1>0, <2>3, <3>2 DEF DisconnectAborted, Unregister, Goto, SessionTypes
      <4> QED BY <1>a, <4>1
    <3> QED BY <3>1, <3>2
  <2>4. CASE FinishSubscribing(s)
    <3>1. session[s].robot \in Robots /\ session[s].pc = "subscribing"
      BY <1>0, <2>4, Suspended DEF FinishSubscribing, At, SessionTypes
    <3>2. session'[x] = session[x] \/ (x = s /\ session[x].pc # "aborted")
      BY <1>0, <2>4, <3>1 DEF FinishSubscribing, SendCommand, Goto, SessionTypes
    <3>3. CASE RegisterQueue(s, session[s].robot)
      BY <1>b, <3>1, <3>2, <3>3
    <3>4. CASE UNCHANGED <<queues, asked>>
      BY <1>a, <3>2, <3>4
    <3> QED BY <2>4, <3>3, <3>4 DEF FinishSubscribing
  <2>5. CASE FinishAdvertising(s)
    BY <1>0, <1>a, <2>5 DEF FinishAdvertising, Goto, At, SessionTypes
  <2>6. ASSUME NEW r \in Robots, Command(s, r) \/ CommandFirst(s, r) PROVE Matched
    BY <1>0, <1>a, <2>6 DEF Command, CommandFirst, SendCommand, Goto, At, clientVars, SessionTypes
  <2>7. ASSUME NEW r \in Robots, CommandNew(s, r) PROVE Matched
    <3>1. session[s].pc = "idle" /\ RegisterQueue(s, r) /\ SendCommand(s, r)
      BY <2>7 DEF CommandNew, At
    <3>2. session'[x] = session[x] \/ (x = s /\ session[x].pc # "aborted")
      BY <1>0, <3>1 DEF SendCommand, Goto, SessionTypes
    <3> QED BY <1>b, <3>1, <3>2
  <2> QED BY <1>1, <2>1, <2>2, <2>3, <2>4, <2>5, <2>6, <2>7 DEF Session
<1>2. CASE Listen
  BY <1>a, <1>2 DEF Listen, Receive, ConnectionLost, Spin, Reconnect, Readvertise,
     Resubscribe, sessionVars
<1>3. CASE Environment
  BY <1>a, <1>3 DEF Environment, Publish, ReportStatus, Lose, Notice, CloseNormally, Drop,
     sessionVars, clientVars
<1>4. CASE UNCHANGED vars
  BY <1>a, <1>4 DEF vars, sessionVars, clientVars
<1> QED BY <1>1, <1>2, <1>3, <1>4 DEF Next

\* A session that ended leaves no queue behind, and one that lives is registered for the
\* robots it counts, unless a clean-up was cut short: whoever comes and goes meanwhile.
THEOREM QueuesFollowSessions == Spec => []QueuesMatchSessions
<1>1. TypeInv /\ QueueInv /\ [Next]_vars => QueueInv'
  BY QueueStep
<1>2. QueueInv => QueuesMatchSessions
  BY DEF QueueInv
<1> QED BY QueueInit, BridgeTypes, <1>1, <1>2, PTL DEF Spec

--------------------------------------------------------------------------
(* Messages in order. *)

LEMMA Numbers ==
  ASSUME TypeInv
  PROVE  /\ MaxMessages \in Nat /\ Len(published) \in Nat /\ Len(inbox) \in Nat
         /\ \A i \in 1 .. Len(inbox) : inbox[i] \in 0 .. MaxMessages /\ inbox[i] <= Len(published)
         /\ \A s \in Sessions : /\ seen[s] \in Nat /\ seen[s] <= Len(published)
                                /\ Len(queue[s]) \in Nat /\ queue[s] \in Seq(1 .. MaxMessages)
                                /\ \A i \in 1 .. Len(queue[s]) :
                                      queue[s][i] \in 1 .. MaxMessages /\ queue[s][i] <= Len(published)
<1>1. MaxMessages \in Nat /\ Len(published) \in Nat
  BY BridgeAssumption DEF TypeInv, MessageTypes
<1>2. inbox \in Seq(0 .. MaxMessages) /\ \A i \in 1 .. Len(inbox) : inbox[i] <= Len(published)
  BY DEF TypeInv, MessageTypes
<1>3. ASSUME NEW s \in Sessions
      PROVE  /\ seen[s] \in Nat /\ seen[s] <= Len(published) /\ queue[s] \in Seq(1 .. MaxMessages)
             /\ \A i \in 1 .. Len(queue[s]) : queue[s][i] <= Len(published)
  BY <1>1 DEF TypeInv, MessageTypes
<1>4. Len(inbox) \in Nat /\ \A i \in 1 .. Len(inbox) : inbox[i] \in 0 .. MaxMessages
  BY <1>2, ElementAt
<1>5. ASSUME NEW s \in Sessions
      PROVE  Len(queue[s]) \in Nat /\ \A i \in 1 .. Len(queue[s]) : queue[s][i] \in 1 .. MaxMessages
  BY <1>3, ElementAt
<1> QED BY <1>1, <1>2, <1>3, <1>4, <1>5

LEMMA FeedInit == Init => FeedInv
  BY DEF Init, FeedInv, InboxInv, Deliverable, Increasing

\* A step that touches no message may change what is asked for, but not under a queue.
LEMMA AskedAtRest ==
  ASSUME [Next]_vars, NoMessage, NEW s \in Sessions, TypeInv
  PROVE  asked[s] \subseteq asked'[s] \/ queue[s] = <<>>
<1>0. SessionTypes
  BY DEF TypeInv
<1>1. ASSUME NEW x \in Sessions, Session(x) PROVE asked[s] \subseteq asked'[s] \/ queue[s] = <<>>
  <2>1. ASSUME NEW r \in Robots, RegisterQueue(x, r) PROVE asked[s] \subseteq asked'[s]
    BY <1>0, <2>1, RegisterTypes
  <2>2. CASE Disconnect(x)
    <3>1. x = s => queue'[s] = <<>> \/ queue' = queue
      BY <2>2 DEF Disconnect, NoMessage
    <3>2. x # s => asked'[s] = asked[s]
      BY <1>0, <2>2 DEF Disconnect, SessionTypes
    <3>3. queue' = queue /\ (x = s => queue' = [queue EXCEPT ![s] = <<>>])
      BY <2>2 DEF Disconnect, NoMessage
    <3>4. x = s => queue[s] = <<>>
      BY <3>3 DEF TypeInv, MessageTypes
    <3> QED BY <3>2, <3>4
  <2>3. CASE FinishSubscribing(x)
    <3>1. session[x].robot \in Robots
      BY <1>0, <2>3, Suspended DEF FinishSubscribing, At, SessionTypes
    <3> QED BY <2>1, <2>3, <3>1 DEF FinishSubscribing
  <2>4. ASSUME NEW r \in Robots, CommandNew(x, r) PROVE asked[s] \subseteq asked'[s]
    BY <2>1, <2>4 DEF CommandNew
  <2>5. ASSUME NEW r \in Robots, Command(x, r) \/ CommandFirst(x, r) PROVE asked[s] \subseteq asked'[s]
    BY <2>5 DEF Command, CommandFirst
  <2>6. CASE \/ Authenticate(x) \/ FinishAdvertising(x) \/ SendFeedback(x) \/ DisconnectAborted(x)
    BY <2>6 DEF Authenticate, FinishAdvertising, SendFeedback, DisconnectAborted
  <2> QED BY <1>1, <2>2, <2>3, <2>4, <2>5, <2>6 DEF Session
<1>2. CASE Listen
  BY <1>2 DEF Listen, Receive, ConnectionLost, Spin, Reconnect, Readvertise,
     Resubscribe, sessionVars
<1>3. CASE Environment
  BY <1>3 DEF Environment, Publish, ReportStatus, Lose, Notice, CloseNormally, Drop, sessionVars
<1>4. CASE UNCHANGED vars
  BY <1>4 DEF vars, sessionVars
<1> QED BY <1>1, <1>2, <1>3, <1>4 DEF Next

LEMMA FeedStep == TypeInv /\ QueueInv /\ FeedInv /\ [Next]_vars => FeedInv'
<1> SUFFICES ASSUME TypeInv, QueueInv, FeedInv, [Next]_vars PROVE FeedInv'
  OBVIOUS
<1>0. /\ \A i, j \in 1 .. Len(inbox) : i < j /\ inbox[j] # StatusFrame => inbox[i] < inbox[j]
      /\ \A i \in 1 .. Len(inbox) : inbox[i] # StatusFrame => Ahead(inbox[i])
      /\ \A s \in Sessions : Deliverable(s)
  BY DEF FeedInv, InboxInv
<1>1. CASE NoMessage
  <2>1. InboxInv'
    BY <1>0, <1>1 DEF NoMessage, InboxInv, Ahead
  <2>2. ASSUME NEW s \in Sessions PROVE Deliverable(s)'
    <3>1. asked[s] \subseteq asked'[s] \/ queue[s] = <<>>
      BY <1>1, AskedAtRest
    <3>2. CASE queue[s] = <<>>
      BY <1>1, <3>2 DEF NoMessage, Deliverable, Increasing
    <3>3. CASE asked[s] \subseteq asked'[s]
      BY <1>0, <1>1, <3>3 DEF NoMessage, Deliverable, Increasing
    <3> QED BY <3>1, <3>2, <3>3
  <2> QED BY <2>1, <2>2 DEF FeedInv
<1>2. CASE Receive
  <2> DEFINE n == Head(inbox)
  <2>1. /\ inbox # <<>> /\ inbox \in Seq(0 .. MaxMessages) /\ inbox' = Tail(inbox)
        /\ UNCHANGED <<published, seen, asked>>
    BY <1>2 DEF Receive, TypeInv, MessageTypes
  <2>2. /\ n = inbox[1] /\ 1 \in 1 .. Len(inbox) /\ n \in 0 .. MaxMessages /\ Len(inbox') \in Nat
        /\ \A i \in 1 .. Len(inbox') : i + 1 \in 1 .. Len(inbox) /\ inbox'[i] = inbox[i + 1]
    <3>1. Tail(inbox) \in Seq(0 .. MaxMessages)
      BY <2>1, TailAt
    <3> QED BY <2>1, <3>1, TailAt, ElementAt
  <2>3. \A i \in 1 .. Len(inbox') : inbox'[i] # StatusFrame => n < inbox'[i]
    BY <1>0, <2>2
  <2>4. \A i, j \in 1 .. Len(inbox') : i < j /\ inbox'[j] # StatusFrame => inbox'[i] < inbox'[j]
    BY <1>0, <2>2
  <2>5. \A i \in 1 .. Len(inbox') : inbox'[i] # StatusFrame => Ahead(inbox'[i])
    BY <1>0, <2>2
  <2>6. CASE UNCHANGED queue
    <3>1. \A i \in 1 .. Len(inbox') : inbox'[i] # StatusFrame => Ahead(inbox[i])'
      BY <2>1, <2>5, <2>6 DEF Ahead
    <3>2. \A s \in Sessions : Deliverable(s)'
      BY <1>0, <2>1, <2>6 DEF Deliverable, Increasing
    <3> QED BY <2>4, <3>1, <3>2 DEF FeedInv, InboxInv
  <2>7. CASE n # StatusFrame /\ RouteMessage(n)
    <3>1. n \in 1 .. Len(published) /\ n \in 1 .. MaxMessages /\ n \in Nat /\ Ahead(n)
      <4>1. n <= Len(published) /\ Ahead(n)
        BY <1>0, <2>2, <2>7, Numbers
      <4> QED BY <2>2, <2>7, <4>1, Numbers DEF StatusFrame
    <3>2. ASSUME NEW s \in Sessions
          PROVE  /\ Deliverable(s)'
                 /\ \A i \in 1 .. Len(queue'[s]) : queue'[s][i] <= n
      <4>1. /\ seen[s] < n /\ seen[s] \in Nat
            /\ \A i \in 1 .. Len(queue[s]) : queue[s][i] \in 1 .. MaxMessages /\ queue[s][i] < n
        BY <3>1, Numbers DEF Ahead
      <4>2. CASE queue'[s] = queue[s]
        <5>1. Deliverable(s)'
          BY <1>0, <2>1, <4>2 DEF Deliverable, Increasing
        <5>2. \A i \in 1 .. Len(queue'[s]) : queue'[s][i] <= n
          BY <2>2, <4>1, <4>2
        <5> QED BY <5>1, <5>2
      <4>3. CASE s \in queues[published[n]] /\ queue'[s] = Append(queue[s], n)
        <5>1. published[n] \in asked[s]
          <6>1. published[n] \in Robots
            BY <3>1, ElementAt DEF TypeInv, MessageTypes
          <6> QED BY <4>3, <6>1 DEF QueueInv, Following
        <5>2. /\ Len(queue[s]) \in Nat /\ queue'[s][Len(queue[s]) + 1] = n
              /\ \A i \in 1 .. Len(queue[s]) : queue'[s][i] = queue[s][i]
              /\ \A i \in 1 .. Len(queue'[s]) : i \in 1 .. Len(queue[s]) \/ i = Len(queue[s]) + 1
          BY <3>1, <4>3, Numbers, AppendAt
        <5>3. Increasing(queue'[s])
          BY <1>0, <4>1, <5>2 DEF Deliverable, Increasing
        <5>4. \A i \in 1 .. Len(queue'[s]) :
                 seen[s] < queue'[s][i] /\ published[queue'[s][i]] \in asked[s]
          BY <1>0, <4>1, <5>1, <5>2 DEF Deliverable
        <5>5. \A i \in 1 .. Len(queue'[s]) : queue'[s][i] <= n
          BY <3>1, <4>1, <5>2
        <5>6. Deliverable(s)'
          BY <2>1, <5>3, <5>4 DEF Deliverable, Increasing
        <5> QED BY <5>5, <5>6
      <4> QED BY <2>7, <3>1, <4>2, <4>3, RouteAt
    <3>3. ASSUME NEW i \in 1 .. Len(inbox'), inbox'[i] # StatusFrame PROVE Ahead(inbox[i])'
      <4>1. n < inbox'[i] /\ inbox'[i] \in Int
        BY <2>2, <2>3, <3>3, Numbers
      <4>2. ASSUME NEW s \in Sessions
            PROVE  /\ seen'[s] < inbox'[i]
                   /\ \A j \in 1 .. Len(queue'[s]) : queue'[s][j] < inbox'[i]
        <5>1. seen'[s] < inbox'[i]
          BY <2>1, <2>5, <3>3 DEF Ahead
        <5>2. ASSUME NEW j \in 1 .. Len(queue'[s]) PROVE queue'[s][j] < inbox'[i]
          <6>1. queue'[s][j] \in Int
            <7>1. queue'[s] \in Seq(1 .. MaxMessages)
              BY <3>1, <2>7, RouteAt
            <7> QED BY <7>1, ElementAt, Numbers
          <6> QED BY <3>1, <3>2, <4>1, <6>1
        <5> QED BY <5>1, <5>2
      <4> QED BY <4>2 DEF Ahead
    <3> QED BY <2>4, <3>2, <3>3 DEF FeedInv, InboxInv
  <2> QED BY <1>2, <2>6, <2>7 DEF Receive
<1>3. CASE Reconnect
  <2>1. inbox' = <<>> /\ UNCHANGED <<published, seen, asked, queue>>
    BY <1>3 DEF Reconnect, sessionVars
  <2> QED BY <1>0, <2>1 DEF FeedInv, InboxInv, Deliverable, Increasing
<1>4. CASE ReportStatus
  <2>1. inbox' = Append(inbox, StatusFrame) /\ UNCHANGED <<published, seen, asked, queue>>
    BY <1>4 DEF ReportStatus, sessionVars
  <2>2. /\ Len(inbox) \in Nat /\ inbox'[Len(inbox) + 1] = StatusFrame
        /\ \A i \in 1 .. Len(inbox) : inbox'[i] = inbox[i]
        /\ \A i \in 1 .. Len(inbox') : i \in 1 .. Len(inbox) \/ i = Len(inbox) + 1
    <3>1. inbox \in Seq(0 .. MaxMessages) /\ StatusFrame \in 0 .. MaxMessages
      BY Numbers DEF TypeInv, MessageTypes, StatusFrame
    <3> QED BY <2>1, <3>1, AppendAt
  <2>3. InboxInv'
    <3>1. \A i, j \in 1 .. Len(inbox') : i < j /\ inbox'[j] # StatusFrame => inbox'[i] < inbox'[j]
      BY <1>0, <2>2
    <3>2. \A i \in 1 .. Len(inbox') : inbox'[i] # StatusFrame => Ahead(inbox'[i])
      BY <1>0, <2>2
    <3>3. \A i \in 1 .. Len(inbox') : inbox'[i] # StatusFrame => Ahead(inbox[i])'
      BY <2>1, <3>2 DEF Ahead
    <3> QED BY <3>1, <3>3 DEF InboxInv
  <2> QED BY <1>0, <2>1, <2>3 DEF FeedInv, Deliverable, Increasing
<1>5. ASSUME NEW r \in Robots, NEW suffix \in Suffixes, Publish(r, suffix) PROVE FeedInv'
  <2> DEFINE n == Len(published) + 1
  <2>1. /\ inbox' = inbox \/ inbox' = Append(inbox, n)
        /\ published' = Append(published, r) /\ UNCHANGED <<seen, asked, queue>>
    BY <1>5 DEF Publish, sessionVars
  <2>2. ASSUME NEW s \in Sessions PROVE Deliverable(s)'
    <3>1. \A i \in 1 .. Len(queue[s]) : published'[queue[s][i]] = published[queue[s][i]]
      <4>1. \A i \in 1 .. Len(queue[s]) : queue[s][i] \in 1 .. Len(published)
        BY Numbers
      <4>2. \A m \in 1 .. Len(published) : published'[m] = published[m]
        BY <2>1, AppendAt DEF TypeInv, MessageTypes
      <4> QED BY <4>1, <4>2
    <3> QED BY <1>0, <2>1, <3>1 DEF Deliverable, Increasing
  <2>3. Ahead(n)
    <3>1. ASSUME NEW s \in Sessions
          PROVE  seen[s] < n /\ \A i \in 1 .. Len(queue[s]) : queue[s][i] < n
      BY Numbers
    <3> QED BY <3>1 DEF Ahead
  <2>4. InboxInv'
    <3>1. CASE inbox' = inbox
      BY <1>0, <2>1, <3>1 DEF InboxInv, Ahead
    <3>2. CASE inbox' = Append(inbox, n)
      <4>1. /\ Len(inbox) \in Nat /\ inbox'[Len(inbox) + 1] = n
            /\ \A i \in 1 .. Len(inbox) : inbox'[i] = inbox[i] /\ inbox[i] < n
            /\ \A i \in 1 .. Len(inbox') : i \in 1 .. Len(inbox) \/ i = Len(inbox) + 1
        <5>1. inbox \in Seq(0 .. MaxMessages) /\ n \in 0 .. MaxMessages
          BY <1>5, Numbers DEF TypeInv, MessageTypes, Publish
        <5>2. \A i \in 1 .. Len(inbox) : inbox[i] < n
          BY Numbers
        <5> QED BY <3>2, <5>1, <5>2, AppendAt
      <4>2. \A i, j \in 1 .. Len(inbox') : i < j /\ inbox'[j] # StatusFrame => inbox'[i] < inbox'[j]
        BY <1>0, <4>1
      <4>3. \A i \in 1 .. Len(inbox') : inbox'[i] # StatusFrame => Ahead(inbox'[i])
        BY <1>0, <2>3, <4>1
      <4>4. \A i \in 1 .. Len(inbox') : inbox'[i] # StatusFrame => Ahead(inbox[i])'
        BY <2>1, <4>3 DEF Ahead
      <4> QED BY <4>2, <4>4 DEF InboxInv
    <3> QED BY <2>1, <3>1, <3>2
  <2> QED BY <2>2, <2>4 DEF FeedInv
<1>6. ASSUME NEW s \in Sessions, SendFeedback(s) PROVE FeedInv'
  <2>1. /\ queue[s] # <<>> /\ queue' = [queue EXCEPT ![s] = Tail(queue[s])]
        /\ seen' = [seen EXCEPT ![s] = Head(queue[s])]
        /\ UNCHANGED <<inbox, published, asked>>
    BY <1>6 DEF SendFeedback
  <2>2. /\ queue'[s] = Tail(queue[s]) /\ seen'[s] = queue[s][1] /\ 1 \in 1 .. Len(queue[s])
        /\ Len(queue'[s]) \in Nat
        /\ \A i \in 1 .. Len(queue'[s]) : i + 1 \in 1 .. Len(queue[s]) /\ queue'[s][i] = queue[s][i + 1]
    <3>1. queue[s] \in Seq(1 .. MaxMessages) /\ queue'[s] = Tail(queue[s]) /\ seen'[s] = Head(queue[s])
      BY <2>1 DEF TypeInv, MessageTypes
    <3>2. Tail(queue[s]) \in Seq(1 .. MaxMessages)
      BY <2>1, <3>1, TailAt
    <3>3. Len(Tail(queue[s])) \in Nat
      BY <3>2, ElementAt
    <3>4. /\ Head(queue[s]) = queue[s][1] /\ 1 \in 1 .. Len(queue[s])
          /\ \A i \in 1 .. Len(Tail(queue[s])) :
                i + 1 \in 1 .. Len(queue[s]) /\ Tail(queue[s])[i] = queue[s][i + 1]
      BY <2>1, <3>1, TailAt
    <3> QED BY <3>1, <3>3, <3>4
  <2>3. \A x \in Sessions \ {s} : queue'[x] = queue[x] /\ seen'[x] = seen[x]
    BY <2>1 DEF TypeInv, MessageTypes
  <2>4. Deliverable(s)'
    <3>1. \A i, j \in 1 .. Len(queue[s]) : i < j => queue[s][i] < queue[s][j]
      BY <1>0 DEF Deliverable, Increasing
    <3>2. \A i \in 1 .. Len(queue[s]) : published[queue[s][i]] \in asked[s]
      BY <1>0 DEF Deliverable
    <3>3. \A i, j \in 1 .. Len(queue'[s]) : i < j => queue'[s][i] < queue'[s][j]
      BY <2>2, <3>1
    <3>4. \A i \in 1 .. Len(queue'[s]) : seen'[s] < queue'[s][i] /\ published[queue'[s][i]] \in asked[s]
      BY <2>2, <3>1, <3>2
    <3> QED BY <2>1, <3>3, <3>4 DEF Deliverable, Increasing
  <2>5. \A x \in Sessions \ {s} : Deliverable(x)'
    BY <1>0, <2>1, <2>3 DEF Deliverable, Increasing
  <2>6. ASSUME NEW i \in 1 .. Len(inbox), inbox[i] # StatusFrame PROVE Ahead(inbox[i])'
    <3>1. Ahead(inbox[i])
      BY <1>0, <2>6
    <3>2. seen'[s] < inbox[i] /\ \A j \in 1 .. Len(queue'[s]) : queue'[s][j] < inbox[i]
      BY <2>2, <3>1 DEF Ahead
    <3> QED BY <2>1, <2>3, <3>1, <3>2 DEF Ahead
  <2>7. InboxInv'
    BY <1>0, <2>1, <2>6 DEF InboxInv
  <2> QED BY <2>4, <2>5, <2>7 DEF FeedInv
<1>7. ASSUME NEW s \in Sessions, Disconnect(s) PROVE FeedInv'
  <2>1. /\ queue' = [queue EXCEPT ![s] = <<>>] /\ asked' = [asked EXCEPT ![s] = {}]
        /\ UNCHANGED <<inbox, published, seen>>
    BY <1>7 DEF Disconnect
  <2>2. /\ queue'[s] = <<>>
        /\ \A x \in Sessions \ {s} : queue'[x] = queue[x] /\ asked'[x] = asked[x]
    BY <2>1 DEF TypeInv, MessageTypes, SessionTypes
  <2>3. \A x \in Sessions : Deliverable(x)'
    <3>1. Deliverable(s)'
      BY <2>2 DEF Deliverable, Increasing
    <3>2. \A x \in Sessions \ {s} : Deliverable(x)'
      BY <1>0, <2>1, <2>2 DEF Deliverable, Increasing
    <3> QED BY <3>1, <3>2
  <2>4. ASSUME NEW i \in 1 .. Len(inbox), inbox[i] # StatusFrame PROVE Ahead(inbox[i])'
    <3>1. Ahead(inbox[i])
      BY <1>0, <2>4
    <3>2. \A x \in Sessions : Len(queue'[x]) = 0 \/ queue'[x] = queue[x]
      BY <2>2
    <3> QED BY <2>1, <3>1, <3>2 DEF Ahead
  <2>5. InboxInv'
    BY <1>0, <2>1, <2>4 DEF InboxInv
  <2> QED BY <2>3, <2>5 DEF FeedInv
<1> QED BY <1>1, <1>2, <1>3, <1>4, <1>5, <1>6, <1>7, MessagesAreTouched

LEMMA FeedHolds == Spec => [](TypeInv /\ QueueInv /\ FeedInv)
<1>1. TypeInv /\ QueueInv /\ [Next]_vars => QueueInv'
  BY QueueStep
<1>2. TypeInv /\ QueueInv /\ FeedInv /\ [Next]_vars => FeedInv'
  BY FeedStep
<1> QED BY FeedInit, QueueInit, BridgeTypes, <1>1, <1>2, PTL DEF Spec

\* Each step is one of the feed or leaves it alone: a registration is Ask, a publication
\* Publish, the end of a session Leave, and what is sent to the user is the next of See.
LEMMA FeedSimulation ==
  ASSUME TypeInv, FeedInv, [Next]_vars
  PROVE  [Feed!Next]_(Feed!feed)
<1>0. SessionTypes /\ MessageTypes
  BY DEF TypeInv
<1> DEFINE Still == UNCHANGED <<published, asked, seen>>
<1>a. Still => [Feed!Next]_(Feed!feed)
  BY DEF Feed!feed
<1>b. ASSUME NEW s \in Sessions, NEW r \in Robots, RegisterQueue(s, r), UNCHANGED <<published, seen>>
      PROVE  [Feed!Next]_(Feed!feed)
  BY <1>b DEF RegisterQueue, Feed!Next, Feed!Ask
<1>1. ASSUME NEW s \in Sessions, Session(s) PROVE [Feed!Next]_(Feed!feed)
  <2>1. CASE Authenticate(s) \/ DisconnectAborted(s) \/ FinishAdvertising(s)
    BY <1>a, <2>1 DEF Authenticate, DisconnectAborted, FinishAdvertising
  <2>2. CASE SendFeedback(s)
    <3>1. /\ queue[s] # <<>> /\ seen' = [seen EXCEPT ![s] = Head(queue[s])]
          /\ UNCHANGED <<asked, published>>
      BY <2>2 DEF SendFeedback
    <3>2. Head(queue[s]) = queue[s][1] /\ 1 \in 1 .. Len(queue[s])
      BY <1>0, <3>1, TailAt DEF MessageTypes
    <3>3. seen[s] < Head(queue[s]) /\ published[Head(queue[s])] \in asked[s]
      BY <3>2 DEF FeedInv, Deliverable
    <3>4. Head(queue[s]) \in seen[s] + 1 .. Len(published)
      BY <3>2, <3>3, Numbers
    <3>5. Feed!See(s)
      BY <3>1, <3>3, <3>4 DEF Feed!See
    <3> QED BY <3>5 DEF Feed!Next
  <2>3. CASE Disconnect(s)
    BY <2>3 DEF Disconnect, Feed!Next, Feed!Leave
  <2>4. CASE FinishSubscribing(s)
    <3>1. session[s].robot \in Robots
      BY <1>0, <2>4, Suspended DEF FinishSubscribing, At, SessionTypes
    <3> QED BY <1>a, <1>b, <2>4, <3>1 DEF FinishSubscribing
  <2>5. ASSUME NEW r \in Robots, Command(s, r) \/ CommandFirst(s, r)
        PROVE  [Feed!Next]_(Feed!feed)
    BY <1>a, <2>5 DEF Command, CommandFirst
  <2>6. ASSUME NEW r \in Robots, CommandNew(s, r) PROVE [Feed!Next]_(Feed!feed)
    BY <1>b, <2>6 DEF CommandNew
  <2> QED BY <1>1, <2>1, <2>2, <2>3, <2>4, <2>5, <2>6 DEF Session
<1>2. CASE Listen
  <2>1. Still
    BY <1>2 DEF Listen, Receive, ConnectionLost, Spin, Reconnect, Readvertise,
       Resubscribe, sessionVars
  <2> QED BY <1>a, <2>1
<1>3. CASE Environment
  <2>1. ASSUME NEW r \in Robots, NEW suffix \in Suffixes, Publish(r, suffix)
        PROVE  [Feed!Next]_(Feed!feed)
    BY <2>1 DEF Publish, sessionVars, Feed!Next, Feed!Publish
  <2>2. CASE ReportStatus \/ Lose \/ Notice \/ CloseNormally
    <3>1. Still
      BY <2>2 DEF ReportStatus, Lose, Notice, CloseNormally, Drop, sessionVars
    <3> QED BY <1>a, <3>1
  <2> QED BY <1>3, <2>1, <2>2 DEF Environment
<1>4. CASE UNCHANGED vars
  BY <1>a, <1>4 DEF vars, sessionVars
<1> QED BY <1>1, <1>2, <1>3, <1>4 DEF Next

\* However often the connection is lost and sessions come and go, no user sees a message
\* twice, out of order, or of a robot the user did not ask for: the bridge implements
\* RobotFeed.
THEOREM BridgeImplementsFeed == Spec => ImplementsFeed
<1>1. Init => Feed!Init
  BY DEF Init, Feed!Init
<1>2. TypeInv /\ QueueInv /\ FeedInv /\ [Next]_vars => [Feed!Next]_(Feed!feed)
  BY FeedSimulation
<1> QED BY FeedHolds, <1>1, <1>2, PTL DEF Spec, ImplementsFeed, Feed!Spec

--------------------------------------------------------------------------
(* What the client counts as sent. *)

LEMMA TruthInit == Init => TruthInv
  BY DEF Init, TruthInv, SentOnThisLink, At

LEMMA SendsAreKept ==
  ASSUME NEW r, link = "up"
  PROVE  /\ AdvertiseTopic(r) => bridgeAds' = bridgeAds \union {r}
         /\ \A topics : SubscribeTopics(topics) => bridgeSubs' = bridgeSubs \union topics
  BY DEF AdvertiseTopic, SubscribeTopics

LEMMA TruthStep == TypeInv /\ TruthInv /\ [Next]_vars => TruthInv'
<1> SUFFICES ASSUME TypeInv, TruthInv, [Next]_vars, link' = "up"
             PROVE  /\ (advertised \subseteq bridgeAds)'
                    /\ (listener # "readvertise" =>
                           \A r \in subscribed : {r} \X Suffixes \subseteq bridgeSubs)'
                    /\ \A s \in Sessions : SentOnThisLink(s)'
  BY DEF TruthInv
<1> DEFINE Truth == /\ (advertised \subseteq bridgeAds)'
                    /\ (listener # "readvertise" =>
                           \A r \in subscribed : {r} \X Suffixes \subseteq bridgeSubs)'
                    /\ \A s \in Sessions : SentOnThisLink(s)'
<1>0. ClientTypes /\ SessionTypes
  BY DEF TypeInv
<1>u. ASSUME link = "up"
      PROVE  /\ advertised \subseteq bridgeAds
             /\ listener # "readvertise" => \A r \in subscribed : {r} \X Suffixes \subseteq bridgeSubs
             /\ \A s \in Sessions : SentOnThisLink(s)
  BY <1>u DEF TruthInv
\* rosbridge forgets nothing while the connection is up.
<1>k. ASSUME bridgeSubs \subseteq bridgeSubs', bridgeAds \subseteq bridgeAds', NEW s \in Sessions,
             session'[s] = session[s], SentOnThisLink(s)
      PROVE  SentOnThisLink(s)'
  BY <1>k DEF SentOnThisLink, At
<1>1. ASSUME NEW s \in Sessions, Session(s) PROVE Truth
  <2>0. link = "up"
    BY <1>1 DEF Session, Authenticate, FinishSubscribing, FinishAdvertising, SendFeedback,
       Disconnect, DisconnectAborted, Command, CommandNew, CommandFirst, linkVars
  <2>u. /\ advertised \subseteq bridgeAds
        /\ listener # "readvertise" => \A r \in subscribed : {r} \X Suffixes \subseteq bridgeSubs
        /\ \A x \in Sessions : SentOnThisLink(x)
    BY <1>u, <2>0
  <2>s. ASSUME NEW r \in Robots, SendCommand(s, r)
        PROVE  /\ bridgeAds \subseteq bridgeAds'
               /\ session'[s].pc = "advertising" => session'[s].robot \in bridgeAds'
               /\ session'[s].pc # "subscribing"
               /\ \A x \in Sessions \ {s} : session'[x] = session[x]
    BY <1>0, <2>0, <2>s, SendCommandEnds, SendsAreKept DEF Goto, SessionTypes
  <2>1. CASE Authenticate(s) \/ Disconnect(s) \/ DisconnectAborted(s) \/ FinishAdvertising(s)
    <3>1. /\ session'[s].pc \notin Serving
          /\ \A x \in Sessions \ {s} : session'[x] = session[x]
      BY <1>0, <2>1 DEF Authenticate, Disconnect, DisconnectAborted, FinishAdvertising, Goto,
         SessionTypes, Serving
    <3>2. UNCHANGED <<bridgeSubs, bridgeAds, listener, subscribed>>
      BY <2>1 DEF Authenticate, Disconnect, DisconnectAborted, FinishAdvertising, linkVars, clientVars
    <3>3. advertised' \subseteq bridgeAds
      <4>1. CASE FinishAdvertising(s)
        <5>1. session[s].robot \in bridgeAds
          BY <2>u, <4>1 DEF FinishAdvertising, SentOnThisLink
        <5>2. advertised' = advertised \union {session[s].robot} \/ advertised' = advertised
          BY <4>1 DEF FinishAdvertising
        <5> QED BY <2>u, <5>1, <5>2
      <4>2. CASE UNCHANGED advertised
        BY <2>u, <4>2
      <4>3. FinishAdvertising(s) \/ UNCHANGED advertised
        BY <2>1 DEF Authenticate, Disconnect, DisconnectAborted, clientVars
      <4> QED BY <4>1, <4>2, <4>3
    <3>4. \A x \in Sessions : SentOnThisLink(x)'
      <4>1. SentOnThisLink(s)'
        BY <3>1, Suspended DEF SentOnThisLink, At
      <4> QED BY <1>k, <2>u, <3>1, <3>2, <4>1
    <3> QED BY <2>u, <3>2, <3>3, <3>4
  <2>2. CASE SendFeedback(s)
    BY <2>u, <2>2 DEF SendFeedback, linkVars, clientVars, SentOnThisLink, At
  <2>3. CASE FinishSubscribing(s)
    <3> DEFINE r == session[s].robot
    <3>1. r \in Robots /\ <<r, "response">> \in bridgeSubs
      BY <1>0, <2>3, <2>u, Suspended DEF FinishSubscribing, At, SessionTypes, SentOnThisLink
    <3>2. /\ SubscribeTopics({<<r, "status">>}) /\ subscribed' = subscribed \union {r}
          /\ SendCommand(s, r) /\ UNCHANGED <<listener, advertised>>
      BY <2>0, <2>3 DEF FinishSubscribing, Open
    <3>3. bridgeSubs' = bridgeSubs \union {<<r, "status">>}
      BY <2>0, <3>2, SendsAreKept
    <3>4. {r} \X Suffixes \subseteq bridgeSubs'
      BY <3>1, <3>3 DEF Suffixes
    <3>5. listener' # "readvertise" => \A q \in subscribed' : {q} \X Suffixes \subseteq bridgeSubs'
      BY <2>u, <3>2, <3>3, <3>4
    <3>6. \A x \in Sessions : SentOnThisLink(x)'
      <4>1. SentOnThisLink(s)'
        BY <2>s, <3>1, <3>2 DEF SentOnThisLink, At
      <4> QED BY <1>k, <2>s, <2>u, <3>1, <3>2, <3>3, <4>1
    <3>7. advertised' \subseteq bridgeAds'
      BY <2>s, <2>u, <3>1, <3>2
    <3> QED BY <3>5, <3>6, <3>7
  <2>4. ASSUME NEW r \in Robots, Command(s, r) \/ CommandNew(s, r) PROVE Truth
    <3>1. SendCommand(s, r) /\ UNCHANGED <<bridgeSubs, listener, subscribed, advertised>>
      BY <2>4 DEF Command, CommandNew, clientVars
    <3>2. \A x \in Sessions : SentOnThisLink(x)'
      <4>1. SentOnThisLink(s)'
        BY <2>s, <3>1 DEF SentOnThisLink, At
      <4> QED BY <1>k, <2>s, <2>u, <3>1, <4>1
    <3> QED BY <2>s, <2>u, <3>1, <3>2
  <2>5. ASSUME NEW r \in Robots, CommandFirst(s, r) PROVE Truth
    <3>1. /\ bridgeSubs' = bridgeSubs \union {<<r, "response">>}
          /\ UNCHANGED <<bridgeAds, listener, subscribed, advertised>>
      BY <2>0, <2>5, SendsAreKept DEF CommandFirst, clientVars
    <3>2. /\ session'[s] = [pc |-> "subscribing", robot |-> r]
          /\ \A x \in Sessions \ {s} : session'[x] = session[x]
      BY <1>0, <2>5 DEF CommandFirst, Goto, SessionTypes
    <3>3. \A x \in Sessions : SentOnThisLink(x)'
      <4>1. SentOnThisLink(s)'
        BY <3>1, <3>2 DEF SentOnThisLink, At
      <4> QED BY <1>k, <2>u, <3>1, <3>2, <4>1
    <3> QED BY <2>u, <3>1, <3>3
  <2> QED BY <1>1, <2>1, <2>2, <2>3, <2>4, <2>5 DEF Session
<1>2. CASE Listen
  <2>1. CASE Reconnect
    <3>1. /\ advertised' = {} /\ session' = session /\ NobodyMidSend
          /\ listener' = "readvertise" \/ subscribed' = {}
      BY <1>0, <2>1, ContinuesWhere DEF Reconnect, sessionVars, ClientTypes
    <3>2. \A s \in Sessions : SentOnThisLink(s)'
      BY <3>1 DEF NobodyMidSend, SentOnThisLink, At
    <3> QED BY <3>1, <3>2
  <2>2. CASE Receive \/ ConnectionLost \/ Spin
    <3>1. /\ UNCHANGED <<link, bridgeSubs, bridgeAds, session, advertised, subscribed>>
          /\ listener = "reading"
      BY <2>2 DEF Receive, ConnectionLost, Spin, linkVars, sessionVars
    <3> QED BY <1>u, <3>1 DEF SentOnThisLink, At
  <2>3. CASE Readvertise
    <3>0. link = "up" /\ listener = "readvertise" /\ session' = session /\ bridgeSubs' = bridgeSubs
      BY <2>3 DEF Readvertise, GiveUp, sessionVars
    <3>1. PICK r \in todo : /\ AdvertiseTopic(r) /\ advertised' = advertised \union {r}
                            /\ ContinueFrom(todo \ (advertised \union {r}))
      BY <2>3, <3>0 DEF Readvertise, GiveUp, Open
    <3>2. bridgeAds \subseteq bridgeAds' /\ advertised' \subseteq bridgeAds'
      BY <1>u, <3>0, <3>1, SendsAreKept
    <3>3. listener' = "readvertise" \/ subscribed' = {}
      BY <1>0, <3>1, ContinuesWhere DEF ClientTypes
    <3> QED BY <1>k, <1>u, <3>0, <3>2, <3>3
  <2>4. CASE Resubscribe
    <3>0. link = "up" /\ listener = "resubscribe" /\ session' = session
      BY <2>4 DEF Resubscribe, sessionVars
    <3>1. PICK r \in todo : /\ SubscribeTopics({r} \X Suffixes)
                            /\ subscribed' = subscribed \union {r}
                            /\ UNCHANGED <<bridgeAds, advertised>>
      BY <2>4, <3>0 DEF Resubscribe, GiveUp, Open
    <3>2. bridgeSubs' = bridgeSubs \union ({r} \X Suffixes)
      BY <3>0, <3>1, SendsAreKept
    <3> QED BY <1>k, <1>u, <3>0, <3>1, <3>2
  <2> QED BY <1>2, <2>1, <2>2, <2>3, <2>4 DEF Listen
<1>3. CASE Environment
  <2>1. UNCHANGED <<link, bridgeSubs, bridgeAds, session, advertised, subscribed, listener>>
    BY <1>3 DEF Environment, Publish, ReportStatus, Lose, Notice, CloseNormally, Drop,
       linkVars, clientVars, sessionVars
  <2> QED BY <1>u, <2>1 DEF SentOnThisLink, At
<1>4. CASE UNCHANGED vars
  BY <1>u, <1>4 DEF vars, linkVars, clientVars, sessionVars, SentOnThisLink, At
<1> QED BY <1>1, <1>2, <1>3, <1>4 DEF Next

\* What the client counts as subscribed and advertised is so on the connection it has,
\* for every loss at every moment: tasks of sessions may subscribe while the listener
\* does it again.
THEOREM ClientTellsTheTruth == Spec => []SubscribedIsTruthful
<1>1. TypeInv /\ TruthInv /\ [Next]_vars => TruthInv'
  BY TruthStep
<1>2. TruthInv => SubscribedIsTruthful
  BY DEF TruthInv, SubscribedIsTruthful
<1> QED BY TruthInit, BridgeTypes, <1>1, <1>2, PTL DEF Spec

--------------------------------------------------------------------------
(* What is registered is served. *)

LEMMA CoverInit == Init => CoverInv
  BY DEF Init, CoverInv, Covered

\* Without a loss while it subscribes again, the listener gives up only when rosbridge
\* has closed the connection for good.
LEMMA CoverStep ==
  ASSUME "reconnect_loss" \notin Faults, TypeInv, CoverInv, [Next]_vars
  PROVE  CoverInv'
<1>0. /\ ClientTypes /\ SessionTypes
      /\ listener = "backoff" => link = "closed"
      /\ listener \in {"readvertise", "resubscribe"} => link \in {"up", "ended"}
      /\ link = "ended" \/ \A r \in Robots : Covered(r)
  BY DEF TypeInv, CoverInv
<1>1. ASSUME NEW s \in Sessions, Session(s) PROVE CoverInv'
  <2>0. UNCHANGED <<link, listener, todo>>
    BY <1>1 DEF Session, Authenticate, FinishSubscribing, FinishAdvertising, SendFeedback,
       Disconnect, DisconnectAborted, Command, CommandNew, CommandFirst, linkVars, clientVars
  <2>a. ASSUME NEW r \in Robots, RegisterQueue(s, r), r \in subscribed', subscribed \subseteq subscribed'
        PROVE  CoverInv'
    BY <1>0, <2>0, <2>a, RegisterTypes DEF CoverInv, Covered
  <2>b. ASSUME subscribed' = subscribed, \A r \in Robots : queues'[r] \subseteq queues[r]
        PROVE  CoverInv'
    BY <1>0, <2>0, <2>b DEF CoverInv, Covered
  <2>1. CASE Authenticate(s) \/ SendFeedback(s) \/ FinishAdvertising(s)
    BY <2>b, <2>1 DEF Authenticate, SendFeedback, FinishAdvertising, clientVars
  <2>2. CASE Disconnect(s) \/ DisconnectAborted(s)
    <3>1. subscribed' = subscribed /\ \A r \in Robots : queues'[r] \subseteq queues[r]
      BY <1>0, <2>2 DEF Disconnect, DisconnectAborted, UnregisterAll, Unregister
    <3> QED BY <2>b, <3>1
  <2>3. CASE FinishSubscribing(s)
    <3>1. session[s].robot \in Robots
      BY <1>0, <2>3, Suspended DEF FinishSubscribing, At, SessionTypes
    <3>2. CASE /\ subscribed' = subscribed \union {session[s].robot}
               /\ RegisterQueue(s, session[s].robot)
      BY <2>a, <3>1, <3>2
    <3>3. CASE UNCHANGED <<subscribed, queues>>
      BY <2>b, <3>3
    <3> QED BY <2>3, <3>2, <3>3 DEF FinishSubscribing
  <2>4. ASSUME NEW r \in Robots, Command(s, r) \/ CommandFirst(s, r) PROVE CoverInv'
    BY <2>b, <2>4 DEF Command, CommandFirst, clientVars
  <2>5. ASSUME NEW r \in Robots, CommandNew(s, r) PROVE CoverInv'
    BY <2>a, <2>5 DEF CommandNew
  <2> QED BY <1>1, <2>1, <2>2, <2>3, <2>4, <2>5 DEF Session
<1>2. CASE Listen
  <2>1. CASE Receive \/ Spin
    BY <1>0, <2>1 DEF Receive, Spin, linkVars, CoverInv, Covered
  <2>2. CASE ConnectionLost
    BY <1>0, <2>2 DEF ConnectionLost, linkVars, CoverInv, Covered
  <2>3. CASE Reconnect
    <3>1. link # "ended" /\ link' = "up" /\ queues' = queues
      BY <1>0, <2>3 DEF Reconnect
    <3>2. \A r \in Robots : Covered(r)'
      BY <1>0, <2>3, <3>1, ContinuesWhere DEF Reconnect, ClientTypes, Covered
    <3>3. listener' # "backoff"
      BY <1>0, <2>3, ContinuesWhere DEF Reconnect, ClientTypes
    <3> QED BY <3>1, <3>2, <3>3 DEF CoverInv
  <2>4. CASE Readvertise
    <3>1. UNCHANGED <<link, queues>> /\ listener = "readvertise" /\ link \in {"up", "ended"}
      BY <1>0, <2>4 DEF Readvertise
    <3>2. CASE GiveUp
      BY <1>0, <3>1, <3>2 DEF GiveUp, Open, CoverInv
    <3>3. CASE ~ GiveUp
      <4>1. PICK left \in SUBSET Robots : ContinueFrom(left)
        BY <1>0, <2>4, <3>3 DEF Readvertise, ClientTypes
      <4>2. listener' # "backoff" /\ ((\A r \in Robots : Covered(r)) => \A r \in Robots : Covered(r)')
        BY <1>0, <3>1, <4>1, ContinuesWhere DEF Covered
      <4> QED BY <1>0, <3>1, <4>2 DEF CoverInv
    <3> QED BY <3>2, <3>3
  <2>5. CASE Resubscribe
    <3>1. UNCHANGED <<link, queues>> /\ listener = "resubscribe" /\ link \in {"up", "ended"}
      BY <1>0, <2>5 DEF Resubscribe
    <3>2. CASE GiveUp
      BY <1>0, <3>1, <3>2 DEF GiveUp, Open, CoverInv
    <3>3. CASE ~ GiveUp
      <4>1. PICK r \in todo : /\ subscribed' = subscribed \union {r}
                              /\ todo' = todo \ (subscribed \union {r})
                              /\ listener' = IF todo' = {} THEN "reading" ELSE "resubscribe"
        BY <2>5, <3>3 DEF Resubscribe
      <4>2. listener' # "backoff" /\ ((\A q \in Robots : Covered(q)) => \A q \in Robots : Covered(q)')
        BY <3>1, <4>1 DEF Covered
      <4> QED BY <1>0, <3>1, <4>2 DEF CoverInv
    <3> QED BY <3>2, <3>3
  <2> QED BY <1>2, <2>1, <2>2, <2>3, <2>4, <2>5 DEF Listen
<1>3. CASE Environment
  <2>1. UNCHANGED <<listener, todo, subscribed, queues>>
    BY <1>3 DEF Environment, Publish, ReportStatus, Lose, Notice, CloseNormally, Drop, clientVars
  <2>2. CASE link' = link
    BY <1>0, <2>1, <2>2 DEF CoverInv, Covered
  <2>3. CASE Lose
    BY <1>0, <2>1, <2>3 DEF Lose, Drop, CoverInv, Covered
  <2>4. CASE Notice
    BY <1>0, <2>1, <2>4 DEF Notice, CoverInv, Covered
  <2>5. CASE CloseNormally
    BY <2>1, <2>5 DEF CloseNormally, Drop, CoverInv
  <2> QED BY <1>3, <2>2, <2>3, <2>4, <2>5 DEF Environment, Publish, ReportStatus, linkVars
<1>4. CASE UNCHANGED vars
  BY <1>0, <1>4 DEF vars, linkVars, clientVars, CoverInv, Covered
<1> QED BY <1>1, <1>2, <1>3, <1>4 DEF Next

\* A robot that somebody follows is subscribed whenever the listener reads, provided the
\* connection never goes while the listener is subscribing again.
THEOREM FollowedRobotsAreServed ==
  ASSUME "reconnect_loss" \notin Faults
  PROVE  Spec => []RegisteredIsServed
<1>1. TypeInv /\ CoverInv /\ [Next]_vars => CoverInv'
  BY CoverStep
<1>2. CoverInv => RegisteredIsServed
  BY DEF CoverInv, Covered, RegisteredIsServed
<1> QED BY CoverInit, BridgeTypes, <1>1, <1>2, PTL DEF Spec

--------------------------------------------------------------------------
(* What can silence the listener. *)

NoStatusFrame == listener # "dead" /\ \A i \in 1 .. Len(inbox) : inbox[i] # StatusFrame

LEMMA NoStatusFrameStep ==
  ASSUME "status_message" \notin Faults
  PROVE  TypeInv /\ NoStatusFrame /\ [Next]_vars => NoStatusFrame'
<1> SUFFICES ASSUME "status_message" \notin Faults, TypeInv, NoStatusFrame, [Next]_vars
             PROVE  NoStatusFrame'
  OBVIOUS
<1>1. inbox \in Seq(0 .. MaxMessages) /\ Len(published) \in Nat
  BY DEF TypeInv, MessageTypes
<1>2. CASE Receive
  <2>1. inbox # <<>> /\ inbox' = Tail(inbox) /\ Head(inbox) = inbox[1]
    BY <1>1, <1>2 DEF Receive
  <2>2. Head(inbox) # StatusFrame
    BY <1>1, <2>1 DEF NoStatusFrame
  <2>3. \A i \in 1 .. Len(inbox') : i + 1 \in 1 .. Len(inbox) /\ inbox'[i] = inbox[i + 1]
    BY <1>1, <2>1
  <2>4. listener' = listener
    BY <1>2, <2>2 DEF Receive
  <2> QED BY <2>3, <2>4 DEF NoStatusFrame
<1>3. CASE Listen /\ ~ Receive
  <2>1. inbox' = inbox \/ inbox' = <<>>
    BY <1>3 DEF Listen, ConnectionLost, Spin, Reconnect, Readvertise,
         Resubscribe
  <2>2. listener' = listener \/ listener' # "dead"
    BY <1>3 DEF Listen, ConnectionLost, Spin, Reconnect, Readvertise,
         Resubscribe, ContinueFrom, GiveUp
  <2> QED BY <2>1, <2>2 DEF NoStatusFrame
<1>4. ASSUME NEW r \in Robots, NEW suffix \in Suffixes, Publish(r, suffix)
      PROVE  NoStatusFrame'
  <2>1. listener' = listener /\ (inbox' = inbox \/ inbox' = Append(inbox, Len(published) + 1))
    BY <1>4 DEF Publish, clientVars
  <2>2. \A i \in 1 .. Len(inbox') :
          (i \in 1 .. Len(inbox) /\ inbox'[i] = inbox[i]) \/ inbox'[i] = Len(published) + 1
    BY <1>1, <2>1
  <2> QED BY <1>1, <2>1, <2>2 DEF NoStatusFrame, StatusFrame
<1>5. ASSUME NEW s \in Sessions, Session(s) PROVE UNCHANGED <<listener, inbox>>
  BY <1>5 DEF Session, Authenticate, FinishSubscribing, FinishAdvertising, SendFeedback,
         Disconnect, DisconnectAborted, Command, CommandNew, CommandFirst, Goto, clientVars
<1>6. CASE Lose \/ Notice \/ CloseNormally \/ UNCHANGED vars
  BY <1>6 DEF NoStatusFrame, Lose, Notice, CloseNormally, Drop, vars, clientVars
<1>7. ~ ReportStatus
  BY DEF ReportStatus
<1> QED BY <1>2, <1>3, <1>4, <1>5, <1>6, <1>7 DEF Next, Environment, NoStatusFrame

\* Nothing but a status frame of rosbridge ends the task that listens: neither a loss of
\* the connection at any moment, nor one while it is coming back, nor a session that ends.
THEOREM OnlyAStatusFrameEndsTheListener ==
  ASSUME "status_message" \notin Faults
  PROVE  Spec => [](listener # "dead")
<1>1. Init => NoStatusFrame
  BY DEF Init, NoStatusFrame
<1>2. TypeInv /\ NoStatusFrame /\ [Next]_vars => NoStatusFrame'
  BY NoStatusFrameStep
<1>3. NoStatusFrame => listener # "dead"
  BY DEF NoStatusFrame
<1> QED BY <1>1, <1>2, <1>3, BridgeTypes, PTL DEF Spec

\* Nothing but a connection closed in good order makes it spin, and the event loop with it.
THEOREM OnlyACleanCloseStallsTheLoop ==
  ASSUME "clean_close" \notin Faults
  PROVE  Spec => [](listener # "spinning")
<1> DEFINE NeverEnded == link # "ended" /\ listener # "spinning"
<1>1. Init => NeverEnded
  BY DEF Init
<1>2. NeverEnded /\ [Next]_vars => NeverEnded'
  <2> SUFFICES ASSUME NeverEnded, [Next]_vars PROVE NeverEnded'
    OBVIOUS
  <2>1. CASE Listen
    BY <2>1 DEF Listen, Receive, ConnectionLost, Spin, Reconnect, Readvertise,
         Resubscribe, ContinueFrom, GiveUp, linkVars
  <2>2. CASE Environment
    BY <2>2 DEF Environment, Publish, ReportStatus, Lose, Notice, CloseNormally, Drop,
         linkVars, clientVars
  <2>3. ASSUME NEW s \in Sessions, Session(s) PROVE UNCHANGED <<link, listener>>
    BY <2>3 DEF Session, Authenticate, FinishSubscribing, FinishAdvertising, SendFeedback,
         Disconnect, DisconnectAborted, Command, CommandNew, CommandFirst, Goto, linkVars, clientVars
  <2> QED BY <2>1, <2>2, <2>3 DEF Next, vars, linkVars, clientVars
<1> QED BY <1>1, <1>2, PTL DEF Spec
=============================================================================
