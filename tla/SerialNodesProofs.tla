-------------------------- MODULE SerialNodesProofs --------------------------
(***************************************************************************)
(* What holds of the ROS nodes, whatever nodes run, how often they end and   *)
(* start, and however deep their queues are.  First what a step may do to    *)
(* each part of the state, then the invariants that follow.                 *)
(***************************************************************************)
EXTENDS SerialNodes, TLAPS

\* What the nodes are started with.
Setting == Kind \in [Nodes -> Kinds] /\ Depth \in Nat \ {0}

Serial == {n \in Nodes : Kind[n] \in SerialKinds}

LEMMA SerialKindsAre ==
    /\ SerialKinds = {"agent", "scraper", "listener"}
    /\ \A k \in SerialKinds : Subscription[k] \in Topics
  BY DEF SerialKinds, Subscription, Topics

--------------------------------------------------------------------------
(* What a step may do. *)

Grows(t, from, line) ==
    /\ topic' = [topic EXCEPT ![t] = Append(@, [from |-> from, line |-> line])]
    /\ \/ line = 0 /\ unread' = unread
       \/ unread # <<>> /\ line = Head(unread).line /\ unread' = Tail(unread)
    /\ \/ from = Outside /\ line = 0
       \/ from \in Nodes /\ t # "custom_command" /\ (t = "instruction" => Kind[from] = "agent")

TopicStep ==
    topic' = topic \/ \E t \in Topics, from \in Nodes \union {Outside}, line \in Nat :
                         Grows(t, from, line)

SubscriptionStep ==
    /\ next' \in [Nodes -> Nat \ {0}]
    /\ \A n \in Serial : next[n] <= next'[n] /\ next'[n] <= Len(Inbox(n)') + 1

Writes(n) ==
    /\ written' = Append(written, [by |-> n, at |-> next[n], msg |-> Inbox(n)[next[n]]])
    /\ next'[n] = next[n] + 1 /\ next[n] <= Len(Inbox(n)) /\ topic' = topic

WriteStep == written' = written \/ \E n \in Serial : Writes(n)

Hears == \E is \in {"text", "empty", "garbled"} :
            unread' = Append(unread, [line |-> said + 1, is |-> is]) /\ said' = said + 1

ReadStep == /\ \/ unread' = unread \/ unread' = <<>> \/ Hears
               \/ unread # <<>> /\ unread' = Tail(unread)
            /\ said' \in Nat /\ said <= said'
            /\ Hears => topic' = topic

--------------------------------------------------------------------------
(* The invariant. *)

Behind == \A n \in Serial : next[n] <= Len(Inbox(n)) + 1

\* Lines wait in the order in which they were sent.
Buffered ==
    /\ \A i \in 1 .. Len(unread) : unread[i].line <= said
    /\ \A i, j \in 1 .. Len(unread) : i < j => unread[i].line < unread[j].line

\* What was published was sent before all that waits.
PublishedFirst ==
    \A t \in Topics : \A i \in 1 .. Len(topic[t]) :
        /\ topic[t][i].line <= said
        /\ \A k \in 1 .. Len(unread) : topic[t][i].line < unread[k].line

\* What was written was in the node's inbox, before the place it has come to.
FromTheInbox ==
    \A i \in 1 .. Len(written) : \A n \in Nodes :
        written[i].by = n => /\ n \in Serial
                             /\ written[i].at < next[n] /\ written[i].at <= Len(Inbox(n))
                             /\ written[i].msg = Inbox(n)[written[i].at]

\* Who publishes where.
Senders ==
    /\ \A i \in 1 .. Len(topic["custom_command"]) :
          topic["custom_command"][i].from = Outside
    /\ \A i \in 1 .. Len(topic["instruction"]) :
          \/ topic["instruction"][i].from = Outside
          \/ topic["instruction"][i].from \in Nodes
             /\ Kind[topic["instruction"][i].from] = "agent"

SerialInv ==
    /\ Setting /\ TypeOK /\ Behind /\ Buffered /\ PublishedFirst /\ LinesInOrder
    /\ FromTheInbox /\ WritesInOrder /\ Senders

\* Messages and lines, for the provers.
LEMMA MessageType ==
    ASSUME TypeOK, NEW t \in Topics, NEW i \in 1 .. Len(topic[t])
    PROVE  topic[t][i] \in Messages /\ topic[t][i].line \in Nat
<1>1. topic[t] \in Seq(Messages)
  BY DEF TypeOK
<1>2. topic[t][i] \in Messages
  BY <1>1
<1>3. QED
  BY <1>2 DEF Messages

LEMMA InboxType ==
    ASSUME TypeOK, Setting, NEW n \in Serial
    PROVE  /\ Subscription[Kind[n]] \in Topics
           /\ Inbox(n) \in Seq(Messages) /\ Len(Inbox(n)) \in Nat
<1>1. Subscription[Kind[n]] \in Topics
  BY SerialKindsAre DEF Serial
<1>2. topic \in [Topics -> Seq(Messages)]
  BY DEF TypeOK
<1>3. topic[Subscription[Kind[n]]] \in Seq(Messages)
  BY <1>1, <1>2
<1>4. QED
  BY <1>1, <1>3 DEF Inbox

\* Publishing makes one topic longer; a subscription only goes on, and not past its end.
LEMMA PublishStep ==
    ASSUME TypeOK, Setting, Behind, NEW t \in Topics, NEW from \in Nodes \union {Outside},
           NEW line \in Nat, Publish(t, from, line)
    PROVE  topic' \in [Topics -> Seq(Messages)] /\ SubscriptionStep
<1>1. topic' = [topic EXCEPT ![t] = Append(@, [from |-> from, line |-> line])]
  BY DEF Publish
<1>2. topic \in [Topics -> Seq(Messages)] /\ Len(topic[t]) \in Nat
  BY DEF TypeOK
<1>3. [from |-> from, line |-> line] \in Messages
  BY DEF Messages
<1>4. topic' \in [Topics -> Seq(Messages)] /\ Len(topic'[t]) = Len(topic[t]) + 1
      /\ \A u \in Topics \ {t} : topic'[u] = topic[u]
  BY <1>1, <1>2, <1>3
<1>5. \A n \in Nodes :
        next'[n] = IF /\ Kind[n] \in SerialKinds /\ Subscription[Kind[n]] = t
                      /\ next[n] + Depth < Len(topic[t]) + 2
                   THEN (Len(topic[t]) + 2) - Depth ELSE next[n]
  BY DEF Publish
<1>6. \A n \in Nodes : next[n] \in Nat \ {0} /\ Depth \in Nat \ {0}
  BY DEF TypeOK, Setting
<1>7. next' \in [Nodes -> Nat \ {0}]
  <2>1. \A n \in Nodes : next'[n] \in Nat \ {0}
    BY <1>2, <1>5, <1>6
  <2>2. QED
    BY <2>1 DEF Publish
<1>8. ASSUME NEW n \in Serial
      PROVE  next[n] <= next'[n] /\ next'[n] <= Len(Inbox(n)') + 1
  <2>1. /\ n \in Nodes /\ Subscription[Kind[n]] \in Topics
        /\ next[n] <= Len(topic[Subscription[Kind[n]]]) + 1
        /\ Len(topic[Subscription[Kind[n]]]) \in Nat
        /\ Inbox(n)' = topic'[Subscription[Kind[n]]]
    BY InboxType DEF Serial, Behind, Inbox
  <2>2. CASE Subscription[Kind[n]] = t
    BY <1>2, <1>4, <1>5, <1>6, <2>1, <2>2
  <2>3. CASE Subscription[Kind[n]] # t
    BY <1>4, <1>5, <1>6, <2>1, <2>3
  <2>4. QED
    BY <2>2, <2>3
<1>9. QED
  BY <1>4, <1>7, <1>8 DEF SubscriptionStep

\* A publication does to its topic what the invariants below need.
LEMMA NodesAndOthersPublish ==
    ASSUME TypeOK, Setting, Behind, NEW t \in Topics, NEW from \in Nodes \union {Outside},
           NEW line \in Nat, Publish(t, from, line),
           \/ line = 0 /\ unread' = unread
           \/ unread # <<>> /\ line = Head(unread).line /\ unread' = Tail(unread),
           \/ from = Outside /\ line = 0
           \/ from \in Nodes /\ t # "custom_command" /\ (t = "instruction" => Kind[from] = "agent")
    PROVE  TopicStep /\ topic' \in [Topics -> Seq(Messages)] /\ SubscriptionStep
<1>1. Grows(t, from, line)
  BY DEF Publish, Grows
<1>2. QED
  BY <1>1, PublishStep DEF TopicStep

LEMMA LinesAreNumbers ==
    ASSUME TypeOK, unread # <<>>
    PROVE  /\ Head(unread) \in Lines /\ Head(unread).line \in Nat \ {0}
           /\ Tail(unread) \in Seq(Lines)
<1>1. unread \in Seq(Lines)
  BY DEF TypeOK
<1>2. Head(unread) \in Lines /\ Tail(unread) \in Seq(Lines)
  BY <1>1
<1>3. QED
  BY <1>2 DEF Lines

\* Everything a step may do, together: the rest follows from it.
StepEffects ==
    /\ topic' \in [Topics -> Seq(Messages)]
    /\ TopicStep /\ SubscriptionStep /\ WriteStep /\ ReadStep
    /\ topic' # topic => written' = written

\* A subscription that is made, or left alone.
LEMMA StartStep ==
    ASSUME TypeOK, Setting, Behind, NEW n \in Nodes, topic' = topic, Kind[n] \in SerialKinds,
           Subscribe(n)
    PROVE  SubscriptionStep
<1>1. n \in Serial /\ Len(Inbox(n)) \in Nat
  BY InboxType DEF Serial
<1>2. \A m \in Nodes : next[m] \in Nat \ {0}
  BY DEF TypeOK
<1>3. next' = [next EXCEPT ![n] = Len(Inbox(n)) + 1] /\ next \in [Nodes -> Nat \ {0}]
  BY DEF Subscribe, TypeOK
<1>4. \A m \in Serial : Inbox(m)' = Inbox(m) /\ Len(Inbox(m)) \in Nat /\ m \in Nodes
  BY InboxType DEF Inbox, Serial
<1>5. next' \in [Nodes -> Nat \ {0}]
  BY <1>1, <1>3
<1>6. ASSUME NEW m \in Serial
      PROVE  next[m] <= next'[m] /\ next'[m] <= Len(Inbox(m)') + 1
  BY <1>1, <1>2, <1>3, <1>4, <1>6 DEF Behind
<1>7. QED
  BY <1>5, <1>6 DEF SubscriptionStep

LEMMA RestStep ==
    ASSUME TypeOK, Setting, Behind, topic' = topic, next' = next
    PROVE  SubscriptionStep
<1>1. \A m \in Serial : Inbox(m)' = Inbox(m) /\ Len(Inbox(m)) \in Nat /\ m \in Nodes
  BY InboxType DEF Inbox, Serial
<1>2. QED
  BY <1>1 DEF SubscriptionStep, TypeOK, Behind

\* A message that is taken, and perhaps written.
LEMMA TakeStep ==
    ASSUME TypeOK, Setting, Behind, topic' = topic, NEW n \in Nodes, NEW kind \in SerialKinds,
           Take(n, kind), WriteLine(n) \/ UNCHANGED written
    PROVE  SubscriptionStep /\ WriteStep
<1>1. n \in Serial /\ Len(Inbox(n)) \in Nat /\ next[n] <= Len(Inbox(n))
  BY InboxType DEF Serial, Take
<1>2. next' = [next EXCEPT ![n] = next[n] + 1] /\ next \in [Nodes -> Nat \ {0}]
  BY DEF Take, TypeOK
<1>3. \A m \in Serial : Inbox(m)' = Inbox(m) /\ Len(Inbox(m)) \in Nat /\ m \in Nodes
  BY InboxType DEF Inbox, Serial
<1>4. next' \in [Nodes -> Nat \ {0}] /\ next'[n] = next[n] + 1
  BY <1>2
<1>5. ASSUME NEW m \in Serial
      PROVE  next[m] <= next'[m] /\ next'[m] <= Len(Inbox(m)') + 1
  BY <1>1, <1>2, <1>3, <1>5 DEF Behind
<1>6. WriteStep
  BY <1>1, <1>4 DEF WriteLine, WriteStep, Writes
<1>7. QED
  BY <1>4, <1>5, <1>6 DEF SubscriptionStep

LEMMA NextEffects ==
    ASSUME TypeOK, Setting, Behind, [Next]_vars
    PROVE  StepEffects
<1> USE DEF device
<1>1. /\ topic \in [Topics -> Seq(Messages)] /\ unread \in Seq(Lines) /\ said \in Nat
      /\ \A n \in Nodes : Kind[n] \in Kinds
  BY DEF TypeOK, Setting
<1>2. CASE UNCHANGED vars
  <2>1. topic' = topic /\ next' = next /\ written' = written /\ unread' = unread /\ said' = said
    BY <1>2 DEF vars
  <2>2. QED
    BY <1>1, <2>1, RestStep DEF StepEffects, TopicStep, WriteStep, ReadStep
<1>3. ASSUME NEW n \in Nodes, StartAgent(n) \/ StartScraper(n) \/ StartListener(n)
      PROVE  StepEffects
  <2>1. /\ topic' = topic /\ written' = written /\ said' = said
        /\ unread' = unread \/ unread' = <<>>
        /\ Subscribe(n) /\ Kind[n] \in SerialKinds
    BY <1>3, SerialKindsAre DEF StartAgent, StartScraper, StartListener, Start, Open
  <2>2. QED
    BY <1>1, <2>1, StartStep DEF StepEffects, TopicStep, WriteStep, ReadStep
<1>4. ASSUME NEW n \in Nodes,
             \/ StartPublisher(n) \/ StartCamera(n) \/ Stop(n)
             \/ read_serial(n) /\ port[n] = "stale"
      PROVE  StepEffects
  <2>1. topic' = topic /\ next' = next /\ written' = written /\ unread' = unread /\ said' = said
    BY <1>4 DEF StartPublisher, StartCamera, Stop, read_serial, ReadLine
  <2>2. QED
    BY <1>1, <2>1, RestStep DEF StepEffects, TopicStep, WriteStep, ReadStep
<1>5. ASSUME NEW n \in Nodes, listener_callback(n) \/ command_callback(n) \/ on_command(n)
      PROVE  StepEffects
  <2>1. PICK kind \in SerialKinds :
          /\ Take(n, kind) /\ (WriteLine(n) \/ UNCHANGED written)
          /\ topic' = topic /\ unread' = unread /\ said' = said
    BY <1>5, SerialKindsAre DEF listener_callback, command_callback, on_command
  <2>2. SubscriptionStep /\ WriteStep
    BY <2>1, TakeStep
  <2>3. QED
    BY <1>1, <2>1, <2>2 DEF StepEffects, TopicStep, ReadStep
<1>6. ASSUME NEW n \in Nodes, read_from_serial(n) \/ (read_serial(n) /\ port[n] # "stale")
      PROVE  StepEffects
  <2>1. /\ unread # <<>> /\ unread' = Tail(unread) /\ written' = written /\ said' = said
        /\ \/ topic' = topic /\ next' = next
           \/ /\ Kind[n] = "agent" /\ Publish("instruction", n, Head(unread).line)
           \/ /\ Kind[n] = "scraper" /\ Publish("custom_data", n, Head(unread).line)
    BY <1>6 DEF read_from_serial, read_serial, ReadLine, Publication
  <2>2. Head(unread).line \in Nat
    BY <2>1, LinesAreNumbers
  <2>3. CASE topic' = topic /\ next' = next
    BY <1>1, <2>1, <2>3, RestStep DEF StepEffects, TopicStep, WriteStep, ReadStep
  <2>4. ASSUME NEW t \in Topics, t # "custom_command", t = "instruction" => Kind[n] = "agent",
               Publish(t, n, Head(unread).line)
        PROVE  StepEffects
    <3>1. TopicStep /\ topic' \in [Topics -> Seq(Messages)] /\ SubscriptionStep
      BY <2>1, <2>2, <2>4, NodesAndOthersPublish
    <3>2. ~ Hears
      BY <1>1, <2>1 DEF Hears
    <3>3. QED
      BY <1>1, <2>1, <3>1, <3>2 DEF StepEffects, WriteStep, ReadStep
  <2>5. QED
    BY <2>1, <2>3, <2>4 DEF Topics
<1>7. ASSUME NEW from \in Nodes \union {Outside}, NEW t \in Topics, Publish(t, from, 0),
             UNCHANGED <<device, unread, written>>,
             from = Outside \/ t \notin {"custom_command", "instruction"}
      PROVE  StepEffects
  <2>1. TopicStep /\ topic' \in [Topics -> Seq(Messages)] /\ SubscriptionStep
    BY <1>7, NodesAndOthersPublish
  <2>2. ~ Hears
    BY <1>1, <1>7 DEF Hears
  <2>3. QED
    BY <1>1, <1>7, <2>1, <2>2 DEF StepEffects, WriteStep, ReadStep
<1>8. ASSUME NEW n \in Nodes, timer_callback(n) \/ publish_frame(n) PROVE StepEffects
  <2>1. PICK t \in {"custom_data", "image_raw"} :
          Publish(t, n, 0) /\ UNCHANGED <<device, unread, written>>
    BY <1>8 DEF timer_callback, publish_frame, Publication
  <2>2. QED
    BY <1>7, <2>1 DEF Topics
<1>9. ASSUME NEW t \in {"instruction", "custom_command"}, Command(t) PROVE StepEffects
  BY <1>7, <1>9 DEF Command, Topics
<1>10. ASSUME NEW is \in {"text", "empty", "garbled"}, Say(is) PROVE StepEffects
  <2>1. /\ topic' = topic /\ next' = next /\ written' = written /\ said' = said + 1
        /\ unread' = unread \/ Hears
    BY <1>10 DEF Say, Hears
  <2>2. QED
    BY <1>1, <2>1, RestStep DEF StepEffects, TopicStep, WriteStep, ReadStep
<1>11. CASE Unplug \/ Plug
  <2>1. /\ topic' = topic /\ next' = next /\ written' = written /\ said' = said
        /\ unread' = unread \/ unread' = <<>>
    BY <1>11 DEF Unplug, Plug
  <2>2. QED
    BY <1>1, <2>1, RestStep DEF StepEffects, TopicStep, WriteStep, ReadStep
<1>12. QED
  BY <1>2, <1>3, <1>4, <1>5, <1>6, <1>8, <1>9, <1>10, <1>11 DEF Next, Node

--------------------------------------------------------------------------
(* The invariant is kept. *)

LEMMA TypeIsKept ==
    ASSUME TypeOK, Setting, Behind, [Next]_vars
    PROVE  TypeOK' /\ Behind'
<1>1. StepEffects
  BY NextEffects
<1>2. /\ running \in SUBSET Nodes /\ port \in [Nodes -> {"none", "open", "stale"}]
      /\ plugged \in BOOLEAN
  BY DEF TypeOK
<1>3. running' \in SUBSET Nodes
  BY <1>2 DEF Next, Node, StartAgent, StartScraper, StartListener, StartPublisher, StartCamera,
              Start, Stop, End, listener_callback, command_callback, on_command, WriteLine,
              read_from_serial, read_serial, timer_callback, publish_frame, Command, Say,
              Unplug, Plug, vars
<1>4. port' \in [Nodes -> {"none", "open", "stale"}]
  BY <1>2 DEF Next, Node, StartAgent, StartScraper, StartListener, StartPublisher, StartCamera,
              Open, Stop, End, listener_callback, command_callback, on_command, WriteLine,
              read_from_serial, read_serial, timer_callback, publish_frame, Command, Say,
              Unplug, Plug, vars
<1>5. plugged' \in BOOLEAN
  BY <1>2 DEF Next, Node, StartAgent, StartScraper, StartListener, StartPublisher, StartCamera,
              Stop, listener_callback, command_callback, on_command,
              read_from_serial, read_serial, timer_callback, publish_frame, Command, Say,
              Unplug, Plug, vars, device
<1>6. unread' \in Seq(Lines) /\ said' \in Nat
  <2>1. unread \in Seq(Lines) /\ said \in Nat
    BY DEF TypeOK
  <2>2. unread # <<>> => Tail(unread) \in Seq(Lines)
    BY LinesAreNumbers
  <2>3. Hears => unread' \in Seq(Lines)
    BY <2>1 DEF Hears, Lines
  <2>4. <<>> \in Seq(Lines)
    OBVIOUS
  <2>5. /\ unread' = unread \/ unread' = <<>> \/ Hears \/ (unread # <<>> /\ unread' = Tail(unread))
        /\ said' \in Nat
    BY <1>1 DEF StepEffects, ReadStep
  <2>6. QED
    BY <2>1, <2>2, <2>3, <2>4, <2>5
<1>7. written' \in Seq(Writings)
  <2>1. written \in Seq(Writings)
    BY DEF TypeOK
  <2>2. ASSUME NEW n \in Serial, Writes(n)
        PROVE  written' \in Seq(Writings)
    <3>1. n \in Nodes /\ Inbox(n) \in Seq(Messages) /\ next[n] \in Nat \ {0}
          /\ next[n] <= Len(Inbox(n))
      BY <2>2, InboxType DEF Serial, TypeOK, Writes
    <3>2. Inbox(n)[next[n]] \in Messages
      BY <3>1
    <3>3. [by |-> n, at |-> next[n], msg |-> Inbox(n)[next[n]]] \in Writings
      BY <3>1, <3>2 DEF Writings
    <3>4. QED
      BY <2>1, <2>2, <3>3 DEF Writes
  <2>3. QED
    BY <1>1, <2>1, <2>2 DEF StepEffects, WriteStep
<1>8. TypeOK'
  BY <1>1, <1>3, <1>4, <1>5, <1>6, <1>7 DEF TypeOK, StepEffects, SubscriptionStep
<1>9. Behind'
  BY <1>1 DEF Behind, StepEffects, SubscriptionStep, Serial
<1>10. QED
  BY <1>8, <1>9

\* One more message on a topic.
LEMMA GrowsBy ==
    ASSUME TypeOK, NEW t \in Topics, NEW from \in Nodes \union {Outside}, NEW line \in Nat,
           Grows(t, from, line)
    PROVE  /\ Len(topic'[t]) = Len(topic[t]) + 1 /\ Len(topic[t]) \in Nat
           /\ \A i \in 1 .. Len(topic[t]) : topic'[t][i] = topic[t][i]
           /\ topic'[t][Len(topic[t]) + 1].from = from
           /\ topic'[t][Len(topic[t]) + 1].line = line
           /\ \A u \in Topics \ {t} : topic'[u] = topic[u]
<1>1. topic \in [Topics -> Seq(Messages)] /\ [from |-> from, line |-> line] \in Messages
  BY DEF TypeOK, Messages
<1>2. topic' = [topic EXCEPT ![t] = Append(@, [from |-> from, line |-> line])]
  BY DEF Grows
<1>3. topic[t] \in Seq(Messages) /\ topic'[t] = Append(topic[t], [from |-> from, line |-> line])
  BY <1>1, <1>2
<1>4. topic'[t][Len(topic[t]) + 1] = [from |-> from, line |-> line]
  BY <1>1, <1>3
<1>5. QED
  BY <1>1, <1>2, <1>3, <1>4

\* What is left of the buffer after a line was taken.
LEMMA TailOf ==
    ASSUME TypeOK, unread # <<>>
    PROVE  /\ Len(unread) \in Nat \ {0} /\ Len(Tail(unread)) = Len(unread) - 1
           /\ Head(unread) = unread[1]
           /\ \A i \in 1 .. Len(Tail(unread)) : Tail(unread)[i] = unread[i + 1]
<1>1. unread \in Seq(Lines)
  BY DEF TypeOK
<1>2. QED
  BY <1>1

LEMMA LinesWait ==
    ASSUME TypeOK
    PROVE  /\ said \in Nat /\ unread \in Seq(Lines) /\ Len(unread) \in Nat
           /\ \A i \in 1 .. Len(unread) : unread[i].line \in Nat \ {0}
<1>1. said \in Nat /\ unread \in Seq(Lines) /\ Len(unread) \in Nat
  BY DEF TypeOK
<1>2. \A i \in 1 .. Len(unread) : unread[i] \in Lines
  BY <1>1
<1>3. QED
  BY <1>1, <1>2 DEF Lines

\* A line that is sent waits behind the others.
LEMMA HearsOne ==
    ASSUME TypeOK, Hears
    PROVE  /\ said' = said + 1 /\ Len(unread') = Len(unread) + 1
           /\ unread'[Len(unread) + 1].line = said + 1
           /\ \A i \in 1 .. Len(unread) : unread'[i] = unread[i]
<1>1. PICK is : unread' = Append(unread, [line |-> said + 1, is |-> is]) /\ said' = said + 1
  BY DEF Hears
<1>2. QED
  BY <1>1, LinesWait

LEMMA BufferedIsKept ==
    ASSUME TypeOK, Buffered, ReadStep
    PROVE  Buffered'
<1>1. \A i \in 1 .. Len(unread) : unread[i].line \in Nat
  BY LinesWait
<1>2. said \in Nat /\ said' \in Nat /\ said <= said' /\ Len(unread) \in Nat
  BY LinesWait DEF ReadStep
<1>3. \A i \in 1 .. Len(unread) : unread[i].line <= said'
  BY <1>1, <1>2 DEF Buffered
<1>4. CASE unread' = unread \/ unread' = <<>>
  BY <1>3, <1>4 DEF Buffered
<1>5. CASE unread # <<>> /\ unread' = Tail(unread)
  <2>1. \A i \in 1 .. Len(unread') : i + 1 \in 1 .. Len(unread) /\ unread'[i] = unread[i + 1]
    BY <1>5, TailOf
  <2>2. \A i, j \in 1 .. Len(unread') : i < j => i + 1 < j + 1
    OBVIOUS
  <2>3. QED
    BY <1>3, <2>1, <2>2 DEF Buffered
<1>6. CASE Hears
  <2>1. /\ said' = said + 1 /\ Len(unread') = Len(unread) + 1
        /\ unread'[Len(unread) + 1].line = said + 1
        /\ \A i \in 1 .. Len(unread) : unread'[i] = unread[i]
    BY <1>6, HearsOne
  <2>2. \A i \in 1 .. Len(unread') : i \in 1 .. Len(unread) \/ i = Len(unread) + 1
    BY <1>2, <2>1
  <2>3. \A i \in 1 .. Len(unread) : unread[i].line < said + 1
    BY <1>1, <1>2 DEF Buffered
  <2>4. ASSUME NEW i \in 1 .. Len(unread') PROVE unread'[i].line <= said'
    BY <1>2, <1>3, <2>1, <2>2
  <2>5. ASSUME NEW i \in 1 .. Len(unread'), NEW j \in 1 .. Len(unread'), i < j
        PROVE  unread'[i].line < unread'[j].line
    <3>1. i \in 1 .. Len(unread)
      BY <1>2, <2>1, <2>5
    <3>2. CASE j \in 1 .. Len(unread)
      BY <2>1, <2>5, <3>1, <3>2 DEF Buffered
    <3>3. CASE j = Len(unread) + 1
      BY <2>1, <2>3, <3>1, <3>3
    <3>4. QED
      BY <2>2, <3>2, <3>3
  <2>6. QED
    BY <2>4, <2>5 DEF Buffered
<1>7. QED
  BY <1>4, <1>5, <1>6 DEF ReadStep

\* Of a number below all that waits this stays true.
LEMMA StaysBefore ==
    ASSUME TypeOK, ReadStep, NEW x \in Nat, x <= said,
           \A k \in 1 .. Len(unread) : x < unread[k].line
    PROVE  x <= said' /\ \A k \in 1 .. Len(unread') : x < unread'[k].line
<1>1. said \in Nat /\ said' \in Nat /\ said <= said' /\ Len(unread) \in Nat
  BY LinesWait DEF ReadStep
<1>2. x <= said'
  BY <1>1
<1>3. CASE unread' = unread \/ unread' = <<>>
  BY <1>2, <1>3
<1>4. CASE unread # <<>> /\ unread' = Tail(unread)
  <2>1. \A k \in 1 .. Len(unread') : k + 1 \in 1 .. Len(unread) /\ unread'[k] = unread[k + 1]
    BY <1>4, TailOf
  <2>2. QED
    BY <1>2, <2>1
<1>5. CASE Hears
  <2>1. /\ said' = said + 1 /\ Len(unread') = Len(unread) + 1
        /\ unread'[Len(unread) + 1].line = said + 1
        /\ \A i \in 1 .. Len(unread) : unread'[i] = unread[i]
    BY <1>5, HearsOne
  <2>2. \A k \in 1 .. Len(unread') : k \in 1 .. Len(unread) \/ k = Len(unread) + 1
    BY <1>1, <2>1
  <2>3. QED
    BY <1>1, <1>2, <2>1, <2>2
<1>6. QED
  BY <1>3, <1>4, <1>5 DEF ReadStep

LEMMA PublishedFirstIsKept ==
    ASSUME TypeOK, Buffered, PublishedFirst, StepEffects
    PROVE  PublishedFirst'
<1> DEFINE Before(x) == x <= said' /\ \A k \in 1 .. Len(unread') : x < unread'[k].line
<1>1. ASSUME NEW t \in Topics, NEW i \in 1 .. Len(topic[t]) PROVE Before(topic[t][i].line)
  <2>1. topic[t][i].line \in Nat
    BY MessageType
  <2>2. QED
    BY <2>1, StaysBefore DEF PublishedFirst, StepEffects
<1>2. CASE topic' = topic
  BY <1>1, <1>2 DEF PublishedFirst
<1>3. ASSUME NEW u \in Topics, NEW from \in Nodes \union {Outside}, NEW line \in Nat,
             Grows(u, from, line)
      PROVE  PublishedFirst'
  <2>1. Before(line)
    <3>1. CASE line = 0 /\ unread' = unread
      <4>1. said' \in Nat
        BY DEF StepEffects, ReadStep
      <4>2. \A k \in 1 .. Len(unread) : 0 < unread[k].line
        BY LinesWait
      <4>3. QED
        BY <3>1, <4>1, <4>2
    <3>2. CASE unread # <<>> /\ line = Head(unread).line /\ unread' = Tail(unread)
      <4>1. line = unread[1].line /\ 1 \in 1 .. Len(unread)
        BY <3>2, TailOf
      <4>2. \A k \in 1 .. Len(unread') :
              k + 1 \in 1 .. Len(unread) /\ unread'[k] = unread[k + 1] /\ 1 < k + 1
        BY <3>2, TailOf
      <4>3. line <= said /\ \A k \in 1 .. Len(unread') : line < unread'[k].line
        BY <4>1, <4>2 DEF Buffered
      <4>4. QED
        BY <4>3, LinesWait DEF StepEffects, ReadStep
    <3>3. QED
      BY <1>3, <3>1, <3>2 DEF Grows
  <2>2. /\ Len(topic'[u]) = Len(topic[u]) + 1 /\ Len(topic[u]) \in Nat
        /\ \A i \in 1 .. Len(topic[u]) : topic'[u][i] = topic[u][i]
        /\ topic'[u][Len(topic[u]) + 1].line = line
        /\ \A t \in Topics \ {u} : topic'[t] = topic[t]
    BY <1>3, GrowsBy
  <2>3. ASSUME NEW t \in Topics, NEW i \in 1 .. Len(topic'[t]) PROVE Before(topic'[t][i].line)
    <3>1. CASE t # u
      BY <1>1, <2>2, <2>3, <3>1
    <3>2. CASE t = u /\ i \in 1 .. Len(topic[u])
      BY <1>1, <2>2, <3>2
    <3>3. CASE t = u /\ i = Len(topic[u]) + 1
      BY <2>1, <2>2, <3>3
    <3>4. t = u => i \in 1 .. Len(topic[u]) \/ i = Len(topic[u]) + 1
      BY <2>2, <2>3
    <3>5. QED
      BY <3>1, <3>2, <3>3, <3>4
  <2>4. QED
    BY <2>3 DEF PublishedFirst
<1>4. QED
  BY <1>2, <1>3 DEF StepEffects, TopicStep

LEMMA LinesInOrderIsKept ==
    ASSUME TypeOK, PublishedFirst, LinesInOrder, TopicStep
    PROVE  LinesInOrder'
<1>1. CASE topic' = topic
  BY <1>1 DEF LinesInOrder
<1>2. ASSUME NEW u \in Topics, NEW from \in Nodes \union {Outside}, NEW line \in Nat,
             Grows(u, from, line)
      PROVE  LinesInOrder'
  <2> DEFINE n == Len(topic[u])
  <2>1. /\ Len(topic'[u]) = n + 1 /\ n \in Nat
        /\ \A i \in 1 .. n : topic'[u][i] = topic[u][i]
        /\ topic'[u][n + 1].line = line
        /\ \A t \in Topics \ {u} : topic'[t] = topic[t]
    BY <1>2, GrowsBy
  <2>2. ASSUME line # 0, NEW i \in 1 .. n PROVE topic[u][i].line < line
    <3>1. line = unread[1].line /\ 1 \in 1 .. Len(unread)
      BY <1>2, <2>2, TailOf DEF Grows
    <3>2. QED
      BY <2>2, <3>1 DEF PublishedFirst
  <2>3. ASSUME NEW t \in Topics, NEW i \in 1 .. Len(topic'[t]), NEW j \in 1 .. Len(topic'[t]),
               i < j, topic'[t][i].line # 0, topic'[t][j].line # 0
        PROVE  topic'[t][i].line < topic'[t][j].line
    <3>1. CASE t # u
      BY <2>1, <2>3, <3>1 DEF LinesInOrder
    <3>2. CASE t = u
      <4>1. i \in 1 .. n /\ (j \in 1 .. n \/ j = n + 1)
        BY <2>1, <2>3, <3>2
      <4>2. CASE j \in 1 .. n
        BY <2>1, <2>3, <3>2, <4>1, <4>2 DEF LinesInOrder
      <4>3. CASE j = n + 1
        BY <2>1, <2>2, <2>3, <3>2, <4>1, <4>3
      <4>4. QED
        BY <4>1, <4>2, <4>3
    <3>3. QED
      BY <3>1, <3>2
  <2>4. QED
    BY <2>3 DEF LinesInOrder
<1>3. QED
  BY <1>1, <1>2 DEF TopicStep

LEMMA SendersAreKept ==
    ASSUME TypeOK, Senders, TopicStep
    PROVE  Senders'
<1>1. CASE topic' = topic
  BY <1>1 DEF Senders
<1>2. ASSUME NEW u \in Topics, NEW from \in Nodes \union {Outside}, NEW line \in Nat,
             Grows(u, from, line)
      PROVE  Senders'
  <2> DEFINE n == Len(topic[u])
  <2>1. /\ Len(topic'[u]) = n + 1 /\ n \in Nat
        /\ \A i \in 1 .. n : topic'[u][i] = topic[u][i]
        /\ topic'[u][n + 1].from = from
        /\ \A t \in Topics \ {u} : topic'[t] = topic[t]
    BY <1>2, GrowsBy
  <2>2. \A i \in 1 .. Len(topic'[u]) : i \in 1 .. n \/ i = n + 1
    BY <2>1
  <2>3. "custom_command" \in Topics /\ "instruction" \in Topics
    BY DEF Topics
  <2>4. \/ from = Outside
        \/ from \in Nodes /\ u # "custom_command" /\ (u = "instruction" => Kind[from] = "agent")
    BY <1>2 DEF Grows
  <2>5. \A i \in 1 .. Len(topic'["custom_command"]) : topic'["custom_command"][i].from = Outside
    <3>1. CASE u = "custom_command"
      BY <2>1, <2>2, <2>4, <3>1 DEF Senders
    <3>2. CASE u # "custom_command"
      BY <2>1, <2>3, <3>2 DEF Senders
    <3>3. QED
      BY <3>1, <3>2
  <2>6. \A i \in 1 .. Len(topic'["instruction"]) :
           \/ topic'["instruction"][i].from = Outside
           \/ topic'["instruction"][i].from \in Nodes
              /\ Kind[topic'["instruction"][i].from] = "agent"
    <3>1. CASE u = "instruction"
      BY <2>1, <2>2, <2>4, <3>1 DEF Senders
    <3>2. CASE u # "instruction"
      BY <2>1, <2>3, <3>2 DEF Senders
    <3>3. QED
      BY <3>1, <3>2
  <2>7. QED
    BY <2>5, <2>6 DEF Senders
<1>3. QED
  BY <1>1, <1>2 DEF TopicStep

\* An inbox only grows.
LEMMA InboxGrows ==
    ASSUME TypeOK, Setting, TopicStep, NEW n \in Serial, NEW i \in 1 .. Len(Inbox(n))
    PROVE  i <= Len(Inbox(n)') /\ Inbox(n)'[i] = Inbox(n)[i]
<1>1. Subscription[Kind[n]] \in Topics /\ Len(Inbox(n)) \in Nat
  BY InboxType
<1>2. CASE topic' = topic
  BY <1>1, <1>2 DEF Inbox
<1>3. ASSUME NEW u \in Topics, NEW from \in Nodes \union {Outside}, NEW line \in Nat,
             Grows(u, from, line)
      PROVE  i <= Len(Inbox(n)') /\ Inbox(n)'[i] = Inbox(n)[i]
  <2>1. /\ Len(topic'[u]) = Len(topic[u]) + 1 /\ Len(topic[u]) \in Nat
        /\ \A k \in 1 .. Len(topic[u]) : topic'[u][k] = topic[u][k]
        /\ \A t \in Topics \ {u} : topic'[t] = topic[t]
    BY <1>3, GrowsBy
  <2>2. CASE Subscription[Kind[n]] = u
    BY <1>1, <2>1, <2>2 DEF Inbox
  <2>3. CASE Subscription[Kind[n]] # u
    BY <1>1, <2>1, <2>3 DEF Inbox
  <2>4. QED
    BY <2>2, <2>3
<1>4. QED
  BY <1>2, <1>3 DEF TopicStep

LEMMA WrittenGrows ==
    ASSUME TypeOK, NEW n \in Serial, Writes(n)
    PROVE  /\ Len(written) \in Nat /\ Len(written') = Len(written) + 1
           /\ \A i \in 1 .. Len(written) : written'[i] = written[i]
           /\ written'[Len(written) + 1]
                = [by |-> n, at |-> next[n], msg |-> Inbox(n)[next[n]]]
<1>1. written \in Seq(Writings)
  BY DEF TypeOK
<1>2. written' = Append(written, [by |-> n, at |-> next[n], msg |-> Inbox(n)[next[n]]])
  BY DEF Writes
<1>3. QED
  BY <1>1, <1>2

LEMMA WrittenType ==
    ASSUME TypeOK, NEW i \in 1 .. Len(written)
    PROVE  written[i].at \in Nat \ {0} /\ written[i].by \in Nodes
<1>1. written \in Seq(Writings)
  BY DEF TypeOK
<1>2. written[i] \in Writings
  BY <1>1
<1>3. QED
  BY <1>2 DEF Writings

LEMMA FromTheInboxIsKept ==
    ASSUME TypeOK, Setting, FromTheInbox, StepEffects
    PROVE  FromTheInbox'
<1>1. ASSUME NEW i \in 1 .. Len(written), NEW n \in Nodes, written[i].by = n
      PROVE  /\ n \in Serial
             /\ written[i].at < next'[n] /\ written[i].at <= Len(Inbox(n)')
             /\ written[i].msg = Inbox(n)'[written[i].at]
  <2>1. /\ n \in Serial /\ written[i].at \in Nat \ {0} /\ written[i].at < next[n]
        /\ written[i].at <= Len(Inbox(n)) /\ written[i].msg = Inbox(n)[written[i].at]
    BY <1>1, WrittenType DEF FromTheInbox
  <2>2. next[n] \in Nat /\ next'[n] \in Nat /\ next[n] <= next'[n] /\ Len(Inbox(n)) \in Nat
    BY <2>1, InboxType DEF StepEffects, SubscriptionStep, TypeOK
  <2>3. written[i].at \in 1 .. Len(Inbox(n))
    BY <2>1, <2>2
  <2>4. written[i].at <= Len(Inbox(n)') /\ Inbox(n)'[written[i].at] = Inbox(n)[written[i].at]
    BY <2>1, <2>3, InboxGrows DEF StepEffects
  <2>5. written[i].at < next'[n]
    BY <2>1, <2>2
  <2>6. QED
    BY <2>1, <2>4, <2>5
<1>2. CASE written' = written
  BY <1>1, <1>2 DEF FromTheInbox, Serial
<1>3. ASSUME NEW m \in Serial, Writes(m) PROVE FromTheInbox'
  <2>1. /\ Len(written) \in Nat /\ Len(written') = Len(written) + 1
        /\ \A i \in 1 .. Len(written) : written'[i] = written[i]
        /\ written'[Len(written) + 1] = [by |-> m, at |-> next[m], msg |-> Inbox(m)[next[m]]]
    BY <1>3, WrittenGrows
  <2>2. /\ next[m] \in Nat /\ next'[m] = next[m] + 1 /\ next[m] <= Len(Inbox(m))
        /\ Inbox(m)' = Inbox(m)
    BY <1>3 DEF Writes, TypeOK, Serial, Inbox
  <2>3. ASSUME NEW i \in 1 .. Len(written'), NEW n \in Nodes, written'[i].by = n
        PROVE  /\ n \in Serial
               /\ written'[i].at < next'[n] /\ written'[i].at <= Len(Inbox(n)')
               /\ written'[i].msg = Inbox(n)'[written'[i].at]
    <3>1. CASE i \in 1 .. Len(written)
      BY <1>1, <2>1, <2>3, <3>1
    <3>2. CASE i = Len(written) + 1
      <4>1. n = m /\ written'[i].at = next[m] /\ written'[i].msg = Inbox(m)[next[m]]
        BY <2>1, <2>3, <3>2
      <4>2. QED
        BY <2>2, <4>1
    <3>3. QED
      BY <2>1, <2>3, <3>1, <3>2
  <2>4. QED
    BY <2>3 DEF FromTheInbox, Serial
<1>4. QED
  BY <1>2, <1>3 DEF StepEffects, WriteStep

LEMMA WritesInOrderIsKept ==
    ASSUME TypeOK, FromTheInbox, WritesInOrder, WriteStep
    PROVE  WritesInOrder'
<1>1. CASE written' = written
  BY <1>1 DEF WritesInOrder
<1>2. ASSUME NEW n \in Serial, Writes(n) PROVE WritesInOrder'
  <2>1. /\ Len(written) \in Nat /\ Len(written') = Len(written) + 1
        /\ \A i \in 1 .. Len(written) : written'[i] = written[i]
        /\ written'[Len(written) + 1] = [by |-> n, at |-> next[n], msg |-> Inbox(n)[next[n]]]
    BY <1>2, WrittenGrows
  <2>2. \A i \in 1 .. Len(written) : written[i].by = n => written[i].at < next[n]
    BY DEF FromTheInbox, Serial
  <2>3. ASSUME NEW i \in 1 .. Len(written'), NEW j \in 1 .. Len(written'), i < j,
               written'[i].by = written'[j].by
        PROVE  written'[i].at < written'[j].at
    <3>1. i \in 1 .. Len(written) /\ (j \in 1 .. Len(written) \/ j = Len(written) + 1)
      BY <2>1, <2>3
    <3>2. CASE j \in 1 .. Len(written)
      BY <2>1, <2>3, <3>1, <3>2 DEF WritesInOrder
    <3>3. CASE j = Len(written) + 1
      BY <2>1, <2>2, <2>3, <3>1, <3>3
    <3>4. QED
      BY <3>1, <3>2, <3>3
  <2>4. QED
    BY <2>3 DEF WritesInOrder
<1>3. QED
  BY <1>1, <1>2 DEF WriteStep

--------------------------------------------------------------------------
(* The theorems. *)

LEMMA SerialInvIsKept == SerialInv /\ [Next]_vars => SerialInv'
<1> SUFFICES ASSUME SerialInv, [Next]_vars PROVE SerialInv'
  OBVIOUS
<1>1. StepEffects /\ TypeOK' /\ Behind' /\ Setting'
  BY NextEffects, TypeIsKept DEF SerialInv, Setting
<1>2. Buffered' /\ PublishedFirst'
  BY <1>1, BufferedIsKept, PublishedFirstIsKept DEF SerialInv, StepEffects
<1>3. LinesInOrder' /\ Senders'
  BY <1>1, LinesInOrderIsKept, SendersAreKept DEF SerialInv, StepEffects
<1>4. FromTheInbox' /\ WritesInOrder'
  BY <1>1, FromTheInboxIsKept, WritesInOrderIsKept DEF SerialInv, StepEffects
<1>5. QED
  BY <1>1, <1>2, <1>3, <1>4 DEF SerialInv

\* The nodes start so.
LEMMA SerialInvStarts == Setting /\ Init => SerialInv
<1> SUFFICES ASSUME Setting, Init PROVE SerialInv
  OBVIOUS
<1>1. /\ topic = [t \in Topics |-> <<>>] /\ next = [n \in Nodes |-> 1] /\ said = 0
      /\ unread = <<>> /\ written = <<>>
  BY DEF Init
<1>2. \A t \in Topics : topic[t] = <<>> /\ Len(topic[t]) = 0
  BY <1>1
<1>3. TypeOK
  <2>1. <<>> \in Seq(Messages) /\ <<>> \in Seq(Lines)
        /\ <<>> \in Seq(Writings)
    OBVIOUS
  <2>2. QED
    BY <2>1 DEF Init, TypeOK
<1>4. Behind
  <2>1. \A n \in Serial : Len(Inbox(n)) = 0 /\ next[n] = 1
    BY <1>1, <1>2, SerialKindsAre DEF Serial, Inbox
  <2>2. QED
    BY <2>1 DEF Behind
<1>5. Buffered /\ PublishedFirst /\ LinesInOrder /\ FromTheInbox /\ WritesInOrder
  BY <1>1, <1>2 DEF Buffered, PublishedFirst, LinesInOrder, FromTheInbox, WritesInOrder
<1>6. Senders
  BY <1>2 DEF Senders, Topics
<1>7. QED
  BY <1>3, <1>4, <1>5, <1>6 DEF SerialInv

\* Type correctness and what the theorems below rest on, for any nodes.
THEOREM SerialInvariant == Setting /\ Spec => []SerialInv
  BY SerialInvStarts, SerialInvIsKept, PTL DEF Spec

\* However often a node ends and starts again, and however much its queue drops, it writes
\* the commands to the port in their order, and none twice.
THEOREM CommandsAreWrittenInOrder == Setting /\ Spec => []WritesInOrder
<1>1. SerialInv => WritesInOrder
  BY DEF SerialInv
<1>2. QED
  BY <1>1, SerialInvariant, PTL

\* What the Arduino says reaches each topic in its order, and no line twice.
THEOREM LinesKeepTheirOrder == Setting /\ Spec => []LinesInOrder
<1>1. SerialInv => LinesInOrder
  BY DEF SerialInv
<1>2. QED
  BY <1>1, SerialInvariant, PTL

\* Among scrapers, listeners, publishers and cameras nothing that they publish is ever
\* written to the port: only the agent sends the Arduino back what it said.
THEOREM OnlyTheAgentEchoes ==
    ASSUME \A n \in Nodes : Kind[n] # "agent"
    PROVE  Setting /\ Spec => []NothingComesBack
<1>1. SerialInv => NothingComesBack
  <2> SUFFICES ASSUME SerialInv, NEW i \in 1 .. Len(written)
               PROVE  written[i].msg.from = Outside
    BY DEF NothingComesBack
  <2>1. PICK n \in Serial : n = written[i].by
    BY WrittenType DEF SerialInv, FromTheInbox
  <2>2. Kind[n] \in {"scraper", "listener"}
    BY SerialKindsAre DEF Serial
  <2>3. Inbox(n) = topic["custom_command"]
    BY <2>2 DEF Inbox, Subscription
  <2>4. written[i].at \in 1 .. Len(Inbox(n))
    <3>1. written[i].at \in Nat \ {0} /\ written[i].at <= Len(Inbox(n)) /\ Len(Inbox(n)) \in Nat
      BY <2>1, WrittenType, InboxType DEF SerialInv, FromTheInbox, Serial
    <3>2. QED
      BY <3>1
  <2>5. written[i].msg = topic["custom_command"][written[i].at]
    BY <2>1, <2>3 DEF SerialInv, FromTheInbox, Serial
  <2>6. QED
    BY <2>3, <2>4, <2>5 DEF SerialInv, Senders
<1>2. QED
  BY <1>1, SerialInvariant, PTL

\* The echo of the agent does not multiply: a node writes each line back once at most.
THEOREM LinesAreEchoedOnce == Setting /\ Spec => []EchoedOnce
<1>1. SerialInv => EchoedOnce
  <2> SUFFICES ASSUME SerialInv, NEW i \in 1 .. Len(written), NEW j \in 1 .. Len(written), i # j,
                      written[i].by = written[j].by, written[i].msg.line # 0
               PROVE  written[i].msg.line # written[j].msg.line
    BY DEF EchoedOnce
  <2>1. PICK n \in Serial : n = written[i].by
    BY WrittenType DEF SerialInv, FromTheInbox
  <2>2. Subscription[Kind[n]] \in Topics /\ Len(Inbox(n)) \in Nat
    BY InboxType DEF SerialInv
  <2>3. ASSUME NEW k \in 1 .. Len(written), written[k].by = n
        PROVE  written[k].at \in 1 .. Len(Inbox(n)) /\ written[k].msg = Inbox(n)[written[k].at]
    <3>1. written[k].at \in Nat \ {0}
      BY WrittenType DEF SerialInv
    <3>2. written[k].at <= Len(Inbox(n)) /\ written[k].msg = Inbox(n)[written[k].at]
      BY <2>3 DEF SerialInv, FromTheInbox, Serial
    <3>3. QED
      BY <2>2, <3>1, <3>2
  <2>4. \A k, l \in 1 .. Len(Inbox(n)) :
          k < l /\ Inbox(n)[k].line # 0 /\ Inbox(n)[l].line # 0
            => Inbox(n)[k].line < Inbox(n)[l].line
    BY <2>2 DEF SerialInv, LinesInOrder, Inbox
  <2>5. \A k \in 1 .. Len(Inbox(n)) : Inbox(n)[k].line \in Nat
    BY <2>2, MessageType DEF SerialInv, Inbox
  <2>6. written[i].at < written[j].at \/ written[j].at < written[i].at
    BY DEF SerialInv, WritesInOrder
  <2>7. PICK k \in 1 .. Len(Inbox(n)), l \in 1 .. Len(Inbox(n)) :
          k = written[i].at /\ l = written[j].at
    BY <2>1, <2>3
  <2>8. Inbox(n)[k].line # 0 /\ written[i].msg = Inbox(n)[k] /\ written[j].msg = Inbox(n)[l]
    BY <2>1, <2>3, <2>7
  <2>9. k < l \/ l < k
    BY <2>6, <2>7
  <2>10. QED
    BY <2>4, <2>5, <2>8, <2>9
<1>2. QED
  BY <1>1, SerialInvariant, PTL

\* A scraper or a listener that runs has its port, stale at worst.
THEOREM NodesRunWithTheirPort == Setting /\ Spec => []RunsWithItsPort
<1>1. Init => RunsWithItsPort
  BY DEF Init, RunsWithItsPort
<1>2. TypeOK /\ RunsWithItsPort /\ [Next]_vars => RunsWithItsPort'
  <2> SUFFICES ASSUME TypeOK, RunsWithItsPort, [Next]_vars PROVE RunsWithItsPort'
    OBVIOUS
  <2>1. port \in [Nodes -> {"none", "open", "stale"}] /\ running \in SUBSET Nodes
    BY DEF TypeOK
  <2>2. CASE UNCHANGED <<running, port>>
    BY <2>2 DEF RunsWithItsPort
  <2>3. ASSUME NEW n \in Nodes, Node(n), ~ UNCHANGED <<running, port>>
        PROVE  \/ End(n)
               \/ running' = running \union {n} /\ port'[n] = "open"
                  /\ port' = [port EXCEPT ![n] = "open"]
               \/ running' = running \union {n} /\ port' = port
                  /\ Kind[n] \notin {"scraper", "listener"}
    BY <2>1, <2>3 DEF Node, StartAgent, StartScraper, StartListener, StartPublisher, StartCamera,
           Start, Open, Stop, listener_callback, command_callback, on_command, WriteLine,
           read_from_serial, read_serial, timer_callback, publish_frame
  <2>4. ASSUME NEW n \in Nodes, Node(n), ~ UNCHANGED <<running, port>> PROVE RunsWithItsPort'
    <3>1. CASE End(n)
      BY <2>1, <3>1 DEF End, RunsWithItsPort
    <3>2. CASE running' = running \union {n} /\ port' = [port EXCEPT ![n] = "open"]
      BY <2>1, <3>2 DEF RunsWithItsPort
    <3>3. CASE /\ running' = running \union {n} /\ port' = port
               /\ Kind[n] \notin {"scraper", "listener"}
      BY <3>3 DEF RunsWithItsPort
    <3>4. QED
      BY <2>3, <2>4, <3>1, <3>2, <3>3
  <2>5. CASE Unplug
    BY <2>1, <2>5 DEF Unplug, RunsWithItsPort
  <2>6. QED
    BY <2>2, <2>4, <2>5 DEF Next, Command, Say, Plug, vars
<1>3. SerialInv => TypeOK
  BY DEF SerialInv
<1>4. QED
  BY <1>1, <1>2, <1>3, SerialInvariant, PTL DEF Spec
=============================================================================
