------------------------------ MODULE ApiBridge ------------------------------
(***************************************************************************)
(* The user <-> robot bridge of the API: the RosBridgeClient singleton with *)
(* its listener task and one connection to rosbridge, and the WebSocket     *)
(* sessions (UserToRobotCommunication) that share it.                       *)
(*                                                                         *)
(* Everything runs on one asyncio event loop, so a step is the code between *)
(* two awaits.  A send writes at once and may then be suspended until the   *)
(* transport drains: other tasks run between two sends of a task.           *)
(***************************************************************************)
EXTENDS Naturals, Sequences

CONSTANTS Robots,         \* robots users command
          Sessions,       \* WebSocket connections of users
          QueueSize,      \* maxsize of a session's queue (256)
          MaxMessages,    \* bound: messages the robots publish
          MaxLosses,      \* bound: times the connection to rosbridge is lost
          Faults,         \* which of FaultKinds may happen
          None

FaultKinds == {"reconnect_loss", "clean_close", "status_message", "db_error"}

ASSUME BridgeAssumption == /\ QueueSize \in Nat \ {0}
                           /\ MaxMessages \in Nat /\ MaxLosses \in Nat
                           /\ Faults \subseteq FaultKinds
                           /\ None \notin Robots

VARIABLES
    link,          \* the connection: up, dead (not noticed yet), closed, ended (close code 1000)
    losses,        \* times it was lost so far
    bridgeSubs,    \* rosbridge: <<robot, suffix>> this connection subscribed to
    bridgeAds,     \* rosbridge: robots whose command topic it advertised
    inbox,         \* frames received and not yet read by the listener
    listener,      \* where the listener task is
    todo,          \* its snapshot of robots still to advertise or subscribe again
    subscribed,    \* _subscribed_robots of the client
    advertised,    \* _advertised_robots
    queues,        \* _response_queues: robot -> sessions whose queue is registered
    session,       \* each session: where its receiving task is, and the robot it serves
    asked,         \* _subscribed_robots of each session
    queue,         \* its response_queue
    published,     \* the robot that published message n, in order
    seen           \* the last message sent to each user

clientVars == <<listener, todo, subscribed, advertised, queues>>
linkVars == <<link, losses, bridgeSubs, bridgeAds>>
sessionVars == <<session, asked, queue, seen>>
vars == <<linkVars, inbox, clientVars, sessionVars, published>>

Suffixes == {"response", "status"}
StatusFrame == 0           \* {"op": "status", "msg": "<text>"}, sent by rosbridge itself

ListenerStates == {"reading", "backoff", "readvertise", "resubscribe", "dead", "spinning"}
SessionStates == {"auth", "idle", "subscribing", "advertising", "closed", "aborted"}

TypeOK ==
    /\ link \in {"up", "dead", "closed", "ended"}
    /\ losses \in 0 .. MaxLosses
    /\ bridgeSubs \in SUBSET (Robots \X Suffixes)
    /\ bridgeAds \in SUBSET Robots
    /\ inbox \in Seq(0 .. MaxMessages)
    /\ listener \in ListenerStates
    /\ todo \in SUBSET Robots
    /\ subscribed \in SUBSET Robots
    /\ advertised \in SUBSET Robots
    /\ queues \in [Robots -> SUBSET Sessions]
    /\ session \in [Sessions -> [pc : SessionStates, robot : Robots \union {None}]]
    /\ asked \in [Sessions -> SUBSET Robots]
    /\ queue \in [Sessions -> Seq(1 .. MaxMessages)]
    /\ \A s \in Sessions : Len(queue[s]) <= QueueSize
    /\ published \in Seq(Robots)
    /\ seen \in [Sessions -> 0 .. MaxMessages]

\* connect(): the lifespan of the application connects before it serves.
Init ==
    /\ link = "up" /\ losses = 0 /\ bridgeSubs = {} /\ bridgeAds = {} /\ inbox = <<>>
    /\ listener = "reading" /\ todo = {} /\ subscribed = {} /\ advertised = {}
    /\ queues = [r \in Robots |-> {}]
    /\ session = [s \in Sessions |-> [pc |-> "auth", robot |-> None]]
    /\ asked = [s \in Sessions |-> {}]
    /\ queue = [s \in Sessions |-> <<>>]
    /\ published = <<>>
    /\ seen = [s \in Sessions |-> 0]

--------------------------------------------------------------------------
(* Sends: on a closed connection they raise; on a dead one they are lost. *)

Open == link \in {"up", "dead"}

SubscribeTopics(topics) ==
    bridgeSubs' = IF link = "up" THEN bridgeSubs \union topics ELSE bridgeSubs

AdvertiseTopic(r) ==
    bridgeAds' = IF link = "up" THEN bridgeAds \union {r} ELSE bridgeAds

\* Once the listener spins, the event loop runs nothing else.
Running == listener # "spinning"

--------------------------------------------------------------------------
(* The sessions. *)

At(s, pc) == session[s].pc = pc

Goto(s, pc, r) == session' = [session EXCEPT ![s] = [pc |-> pc, robot |-> r]]

\* _validate_user: the first message is a valid token, or the session ends (a bad
\* token, or ten seconds without one).
Authenticate(s) ==
    /\ Running
    /\ At(s, "auth")
    /\ \E pc \in {"idle", "closed"} : Goto(s, pc, None)
    /\ UNCHANGED <<linkVars, inbox, clientVars, asked, queue, published, seen>>

\* subscribe_robot and _ensure_robot_subscription after their last await.
RegisterQueue(s, r) ==
    /\ queues' = [queues EXCEPT ![r] = @ \union {s}]
    /\ asked' = [asked EXCEPT ![s] = @ \union {r}]

\* publish_command up to its next await: the advertise if it is the first, else the
\* publish itself.  A send that raises answers the user an error: the session goes on.
SendCommand(s, r) ==
    \/ /\ r \notin advertised /\ Open
       /\ AdvertiseTopic(r)
       /\ Goto(s, "advertising", r)
    \/ /\ r \in advertised \/ ~ Open
       /\ Goto(s, "idle", None)
       /\ UNCHANGED bridgeAds

\* A command for a robot this session follows already.
Command(s, r) ==
    /\ Running
    /\ At(s, "idle") /\ r \in asked[s]
    /\ SendCommand(s, r)
    /\ UNCHANGED <<link, losses, bridgeSubs, inbox, clientVars, asked, queue, published, seen>>

\* The first command of this session to r, and the client follows r: no await.
CommandNew(s, r) ==
    /\ Running
    /\ At(s, "idle") /\ r \notin asked[s] /\ r \in subscribed
    /\ RegisterQueue(s, r)
    /\ SendCommand(s, r)
    /\ UNCHANGED <<link, losses, bridgeSubs, inbox, listener, todo, subscribed, advertised,
                   queue, published, seen>>

\* ... and the client does not follow r yet: subscribe to its first topic.
CommandFirst(s, r) ==
    /\ Running
    /\ At(s, "idle") /\ r \notin asked[s] /\ r \notin subscribed
    /\ Open
    /\ SubscribeTopics({<<r, "response">>})
    /\ Goto(s, "subscribing", r)
    /\ UNCHANGED <<link, losses, bridgeAds, inbox, clientVars, asked, queue, published, seen>>

\* A variant that registers the queue whether or not the client subscribed.
RegisterAnyway(s) ==
    LET r == session[s].robot
    IN /\ Running
       /\ At(s, "subscribing")
       /\ RegisterQueue(s, r)
       /\ SendCommand(s, r)
       /\ UNCHANGED <<link, losses, bridgeSubs, inbox, listener, todo, subscribed,
                      advertised, queue, published, seen>>

\* The rest of _ensure_subscribed: the second topic, then the bookkeeping.  When the
\* connection closes meanwhile the suspended send returns or raises; if it raises,
\* nothing is recorded and the user is answered an error.
FinishSubscribing(s) ==
    LET r == session[s].robot
    IN /\ Running
       /\ At(s, "subscribing")
       /\ \/ /\ SubscribeTopics({<<r, "status">>})
             /\ subscribed' = subscribed \union {r}
             /\ RegisterQueue(s, r)
             /\ SendCommand(s, r)
          \/ /\ ~ Open
             /\ Goto(s, "idle", None)
             /\ UNCHANGED <<bridgeSubs, bridgeAds, subscribed, queues, asked>>
       /\ UNCHANGED <<link, losses, inbox, listener, todo, advertised, queue, published, seen>>

\* The rest of _ensure_advertised, which likewise may raise on a closed connection, and
\* the publish (sent, lost or raising: the same here).
FinishAdvertising(s) ==
    /\ Running
    /\ At(s, "advertising")
    /\ \/ advertised' = advertised \union {session[s].robot}
       \/ ~ Open /\ UNCHANGED advertised
    /\ Goto(s, "idle", None)
    /\ UNCHANGED <<linkVars, inbox, listener, todo, subscribed, queues, asked, queue,
                   published, seen>>

\* A variant that ends with the first connection to rosbridge.
FeedbackUntilLoss(s) ==
    /\ Running
    /\ session[s].pc \in {"idle", "subscribing", "advertising"}
    /\ queue[s] # <<>> /\ losses = 0
    /\ queue' = [queue EXCEPT ![s] = Tail(@)]
    /\ seen' = [seen EXCEPT ![s] = Head(queue[s])]
    /\ UNCHANGED <<linkVars, inbox, clientVars, session, asked, published>>

\* receive_robot_feedback: one response to the user.
SendFeedback(s) ==
    /\ Running
    /\ session[s].pc \in {"idle", "subscribing", "advertising"}
    /\ queue[s] # <<>>
    /\ queue' = [queue EXCEPT ![s] = Tail(@)]
    /\ seen' = [seen EXCEPT ![s] = Head(queue[s])]
    /\ UNCHANGED <<linkVars, inbox, clientVars, session, asked, published>>

\* unsubscribe_robot for some of the robots the session counts as its own.
Unregister(s, robots) ==
    queues' = [r \in Robots |-> IF r \in robots THEN queues[r] \ {s} ELSE queues[r]]

\* A variant whose clean-up forgets one queue.
LeaveOneQueue(s) == \E kept \in SUBSET asked[s] : Unregister(s, asked[s] \ kept)

UnregisterAll(s) == Unregister(s, asked[s])

\* The user leaves: the receiving task notices at its next receive, the feedback task
\* when it sends, and either ends the other and runs _cleanup.
NoticesLeaving(s) ==
    \/ At(s, "idle")
    \/ session[s].pc \in {"subscribing", "advertising"} /\ queue[s] # <<>>

Disconnect(s) ==
    /\ Running
    /\ NoticesLeaving(s)
    /\ UnregisterAll(s)
    /\ Goto(s, "closed", None)
    /\ asked' = [asked EXCEPT ![s] = {}]
    /\ queue' = [queue EXCEPT ![s] = <<>>]
    /\ UNCHANGED <<linkVars, inbox, listener, todo, subscribed, advertised, published, seen>>

\* The same when the database fails in the middle of _cleanup's loop: the queues of
\* the robots it had not reached stay registered, and nobody reads them again.
DisconnectAborted(s) ==
    /\ Running
    /\ "db_error" \in Faults
    /\ NoticesLeaving(s)
    /\ \E left \in SUBSET asked[s] \ {{}} : Unregister(s, asked[s] \ left)
    /\ Goto(s, "aborted", None)
    /\ UNCHANGED <<linkVars, inbox, listener, todo, subscribed, advertised, asked, queue,
                   published, seen>>

Session(s) == \/ Authenticate(s) \/ FinishSubscribing(s) \/ FinishAdvertising(s)
              \/ SendFeedback(s) \/ Disconnect(s) \/ DisconnectAborted(s)
              \/ \E r \in Robots : Command(s, r) \/ CommandNew(s, r) \/ CommandFirst(s, r)

--------------------------------------------------------------------------
(* The listener task. *)

\* A variant that finds the robots' sessions by any one topic.
RouteToAll(n) ==
    queue' = [s \in Sessions |->
                IF asked[s] # {} /\ Len(queue[s]) < QueueSize
                THEN Append(queue[s], n) ELSE queue[s]]

\* A variant whose queues have no limit.
RouteUnbounded(n) ==
    queue' = [s \in Sessions |->
                IF s \in queues[published[n]] THEN Append(queue[s], n) ELSE queue[s]]

\* _route_message: put_nowait into the queue of every session that follows the robot
\* of the topic; a full queue drops the message.
RouteMessage(n) ==
    queue' = [s \in Sessions |->
                IF s \in queues[published[n]] /\ Len(queue[s]) < QueueSize
                THEN Append(queue[s], n) ELSE queue[s]]

\* One frame.  A status frame of rosbridge has a string where a topic message has an
\* object: the AttributeError is not among those caught, and the task ends.
Receive ==
    /\ listener = "reading" /\ inbox # <<>>
    /\ inbox' = Tail(inbox)
    /\ \/ /\ Head(inbox) = StatusFrame
          /\ listener' = "dead"
          /\ UNCHANGED queue
       \/ /\ Head(inbox) # StatusFrame
          /\ RouteMessage(Head(inbox))
          /\ UNCHANGED listener
    /\ UNCHANGED <<linkVars, todo, subscribed, advertised, queues, session, asked,
                   published, seen>>

\* A variant whose listener ends with its connection.
EndWithConnection ==
    /\ listener = "reading" /\ inbox = <<>> /\ link = "closed"
    /\ listener' = "dead"
    /\ UNCHANGED <<linkVars, inbox, todo, subscribed, advertised, queues, sessionVars, published>>

\* ConnectionClosed, once the frames already received are read: wait before reconnecting.
ConnectionLost ==
    /\ listener = "reading" /\ inbox = <<>> /\ link = "closed"
    /\ listener' = "backoff"
    /\ UNCHANGED <<linkVars, inbox, todo, subscribed, advertised, queues, sessionVars, published>>

\* A normal close (1000, 1001) ends `async for` without an exception; `while True`
\* starts it again on the same closed connection, without ever suspending.
Spin ==
    /\ listener = "reading" /\ inbox = <<>> /\ link = "ended"
    /\ listener' = "spinning"
    /\ UNCHANGED <<linkVars, inbox, todo, subscribed, advertised, queues, sessionVars, published>>

\* A task suspended in a send is resumed when the connection goes, long before the
\* second or more that the listener sleeps.
NobodyMidSend == \A s \in Sessions : session[s].pc \notin {"subscribing", "advertising"}

\* A variant that forgets that the new connection has no subscriptions.
ReconnectOnly ==
    /\ listener = "backoff" /\ NobodyMidSend
    /\ link' = "up" /\ bridgeSubs' = {} /\ bridgeAds' = {} /\ inbox' = <<>>
    /\ listener' = "reading"
    /\ UNCHANGED <<losses, todo, subscribed, advertised, queues, sessionVars, published>>

\* _readvertise_and_resubscribe_all from the robots still to advertise to its next
\* await: the listener is suspended in a send, or none is left.  Then, without an await
\* in between, it takes and clears the subscribed ones and sends the first of those, or
\* reads at once when there are none.
ContinueFrom(left) ==
    \/ /\ left # {}
       /\ todo' = left
       /\ listener' = "readvertise"
       /\ UNCHANGED subscribed
    \/ /\ left = {}
       /\ todo' = subscribed /\ subscribed' = {}
       /\ listener' = IF subscribed = {} THEN "reading" ELSE "resubscribe"

\* connect() succeeds (a failed attempt only waits again): rosbridge knows nothing of
\* the new connection, and _readvertise_and_resubscribe_all begins.
Reconnect ==
    /\ listener = "backoff" /\ NobodyMidSend
    /\ link' = "up" /\ bridgeSubs' = {} /\ bridgeAds' = {} /\ inbox' = <<>>
    /\ advertised' = {}
    /\ ContinueFrom(advertised)
    /\ UNCHANGED <<losses, queues, sessionVars, published>>

\* The send raised: the exception is logged, the snapshot is gone, and the loop reads
\* from the connection that just closed.
GiveUp ==
    /\ ~ Open
    /\ todo' = {}
    /\ listener' = "reading"
    /\ UNCHANGED <<bridgeSubs, bridgeAds, subscribed, advertised>>

\* The advertise of one robot returns, or raises.  Robots a session advertised
\* meanwhile are passed over without an await.
Readvertise ==
    /\ listener = "readvertise"
    /\ \/ /\ Open
          /\ \E r \in todo : /\ AdvertiseTopic(r)
                             /\ advertised' = advertised \union {r}
                             /\ ContinueFrom(todo \ (advertised \union {r}))
          /\ UNCHANGED bridgeSubs
       \/ GiveUp
    /\ UNCHANGED <<link, losses, inbox, queues, sessionVars, published>>

\* Both topics of one robot are sent and it is counted as subscribed; after the last
\* one the listener reads.
Resubscribe ==
    /\ listener = "resubscribe"
    /\ \/ /\ Open
          /\ \E r \in todo : /\ SubscribeTopics({r} \X Suffixes)
                             /\ subscribed' = subscribed \union {r}
                             /\ todo' = todo \ (subscribed \union {r})
          /\ listener' = IF todo' = {} THEN "reading" ELSE "resubscribe"
          /\ UNCHANGED <<bridgeAds, advertised>>
       \/ GiveUp
    /\ UNCHANGED <<link, losses, inbox, queues, sessionVars, published>>

Listen == \/ Receive \/ ConnectionLost \/ Spin \/ Reconnect \/ Readvertise \/ Resubscribe

--------------------------------------------------------------------------
(* rosbridge and the network. *)

\* A robot publishes; rosbridge forwards it to a connection that subscribed.
Publish(r, suffix) ==
    /\ Len(published) < MaxMessages
    /\ published' = Append(published, r)
    /\ inbox' = IF link = "up" /\ <<r, suffix>> \in bridgeSubs
                THEN Append(inbox, Len(published) + 1) ELSE inbox
    /\ UNCHANGED <<linkVars, clientVars, sessionVars>>

\* rosbridge reports an error to its client.
ReportStatus ==
    /\ "status_message" \in Faults
    /\ link = "up" /\ Len(inbox) < MaxMessages
    /\ inbox' = Append(inbox, StatusFrame)
    /\ UNCHANGED <<linkVars, clientVars, sessionVars, published>>

\* A connection is gone, and with it what rosbridge kept for it.
Drop(state) ==
    /\ link = "up" /\ losses < MaxLosses
    /\ link' = state /\ losses' = losses + 1
    /\ bridgeSubs' = {} /\ bridgeAds' = {}
    /\ UNCHANGED <<inbox, clientVars, sessionVars, published>>

\* The connection breaks, to be noticed at once or by the keepalive; while the listener
\* is subscribing again only if that fault is considered.
Lose == (listener = "reading" \/ "reconnect_loss" \in Faults) /\ Drop("dead")

Notice ==
    /\ link = "dead"
    /\ link' = "closed"
    /\ UNCHANGED <<losses, bridgeSubs, bridgeAds, inbox, clientVars, sessionVars, published>>

\* rosbridge closes the connection in good order.
CloseNormally == "clean_close" \in Faults /\ Drop("ended")

Environment == \/ \E r \in Robots, suffix \in Suffixes : Publish(r, suffix)
               \/ ReportStatus \/ Lose \/ Notice \/ CloseNormally

Next == Listen \/ Environment \/ \E s \in Sessions : Session(s)

Spec == Init /\ [][Next]_vars

\* The event loop runs every task that can run; the keepalive notices a dead
\* connection; rosbridge is reachable again in the end.
Fairness ==
    /\ WF_vars(Listen)
    /\ WF_vars(Notice)
    /\ \A s \in Sessions : /\ WF_vars(FinishSubscribing(s)) /\ WF_vars(FinishAdvertising(s))
                          /\ WF_vars(SendFeedback(s))

FairSpec == Spec /\ Fairness

--------------------------------------------------------------------------
(* Properties. *)

\* The client's own sets describe the connection it has, not one it lost: with the
\* listener back to reading, a robot it counts as subscribed (so that no task will
\* subscribe to it again) is subscribed at rosbridge on both topics.
SubscribedIsTruthful ==
    link = "up" /\ listener = "reading" =>
        /\ \A r \in subscribed : {r} \X Suffixes \subseteq bridgeSubs
        /\ advertised \subseteq bridgeAds

Following(s) == {r \in Robots : s \in queues[r]}

\* A session that ended leaves no queue behind for the listener to fill, unless its
\* clean-up itself failed; while it lives it is registered for the robots it counts.
QueuesMatchSessions ==
    \A s \in Sessions : ~ At(s, "aborted") => asked[s] = Following(s)

\* While a queue is registered for a robot, the client follows that robot.
RegisteredIsServed ==
    link = "up" /\ listener = "reading" => \A r \in Robots : queues[r] # {} => r \in subscribed

Feed == INSTANCE RobotFeed WITH interest <- asked

\* The bridge as a whole implements RobotFeed: across reconnections, two buffers and
\* sessions joining and leaving, no user sees a message twice, out of order, or of a
\* robot the user did not ask for.
ImplementsFeed == Feed!Spec

\* The connection comes back: after any loss the listener ends up reading from a live
\* connection again.
ListenerRecovers == link # "up" ~> (link = "up" /\ listener = "reading")

\* What is queued for a user is sent or dies with the session, even while the
\* connection to rosbridge is down.
FeedbackFlows == \A s \in Sessions : queue[s] # <<>> ~> queue[s] = <<>>
=============================================================================
