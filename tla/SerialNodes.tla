----------------------------- MODULE SerialNodes -----------------------------
(***************************************************************************)
(* The ROS nodes between the topics and the serial port of the Arduino: the *)
(* agent of the first workspace, and the scraper, the command listener, the *)
(* dummy publisher and the camera of the second.  A node is a process that   *)
(* may be ended and started again; each callback runs to its end, and only   *)
(* one node reads the port at a time, as agent/README.md asks.              *)
(*                                                                         *)
(* A topic is the list of all that was published on it, in the order in     *)
(* which subscribers are handed it; a subscription is a place in that list, *)
(* made when its node starts, and falls behind by the depth of its queue at *)
(* most (keep last).  A line is what one readline returns.                  *)
(***************************************************************************)
EXTENDS Naturals, Sequences

CONSTANTS Nodes,          \* the processes
          Kind,           \* Kind[n] \in Kinds
          Depth,          \* of a subscription's queue: 10
          Outside         \* who else publishes: InOrbit, or a shell

Kinds == {"agent", "scraper", "listener", "publisher", "camera"}
Topics == {"instruction", "custom_command", "custom_data", "image_raw"}

\* The agent publishes what it reads on the topic that it is subscribed to.
Subscription == [agent |-> "instruction",
                 scraper |-> "custom_command", listener |-> "custom_command"]
Publication == [agent |-> "instruction", scraper |-> "custom_data",
                publisher |-> "custom_data", camera |-> "image_raw"]
SerialKinds == DOMAIN Subscription

VARIABLES topic,          \* what was published on each topic
          running,        \* the nodes that run
          next,           \* the message each subscription is handed next
          port,           \* what each node holds of the port: "none", "open" or "stale"
          plugged,        \* the Arduino is plugged in
          said,           \* how many lines the Arduino sent
          unread,         \* those that nobody read yet
          written         \* history: what was written to the port, by whom

device == <<plugged, said>>
vars == <<topic, running, next, port, device, unread, written>>

Messages == [from : Nodes \union {Outside}, line : Nat]     \* 0: not a line of the Arduino
Lines == [line : Nat \ {0}, is : {"text", "empty", "garbled"}]
Writings == [by : Nodes, at : Nat \ {0}, msg : Messages]

TypeOK ==
    /\ topic \in [Topics -> Seq(Messages)]
    /\ running \in SUBSET Nodes
    /\ next \in [Nodes -> Nat \ {0}]
    /\ port \in [Nodes -> {"none", "open", "stale"}]
    /\ plugged \in BOOLEAN /\ said \in Nat
    /\ unread \in Seq(Lines)
    /\ written \in Seq(Writings)

Init ==
    /\ topic = [t \in Topics |-> <<>>]
    /\ running = {} /\ next = [n \in Nodes |-> 1] /\ port = [n \in Nodes |-> "none"]
    /\ plugged = TRUE /\ said = 0 /\ unread = <<>> /\ written = <<>>

Inbox(n) == topic[Subscription[Kind[n]]]

\* A full queue drops its oldest message.
Publish(t, from, line) ==
    /\ topic' = [topic EXCEPT ![t] = Append(@, [from |-> from, line |-> line])]
    /\ next' = [n \in Nodes |->
                  IF /\ Kind[n] \in SerialKinds /\ Subscription[Kind[n]] = t
                     /\ next[n] + Depth < Len(topic[t]) + 2
                  THEN (Len(topic[t]) + 2) - Depth ELSE next[n]]

--------------------------------------------------------------------------
(* Starting and ending.  A subscription is handed what comes from now on, and *)
(* opening the port throws away what was not read.                           *)

Start(n, kinds) == n \notin running /\ Kind[n] \in kinds /\ running' = running \union {n}

Subscribe(n) == next' = [next EXCEPT ![n] = Len(Inbox(n)) + 1]

Open(n) == plugged /\ port' = [port EXCEPT ![n] = "open"] /\ unread' = <<>>

\* The agent goes on without a port; the others end when it does not open.
StartAgent(n) ==
    /\ Start(n, {"agent"}) /\ Subscribe(n)
    /\ Open(n) \/ UNCHANGED <<port, unread>>
    /\ UNCHANGED <<topic, device, written>>

StartScraper(n) ==
    /\ Start(n, {"scraper"}) /\ Subscribe(n) /\ Open(n)
    /\ UNCHANGED <<topic, device, written>>

StartListener(n) ==
    /\ Start(n, {"listener"}) /\ Subscribe(n) /\ Open(n)
    /\ UNCHANGED <<topic, device, written>>

StartPublisher(n) ==
    Start(n, {"publisher"}) /\ UNCHANGED <<topic, next, port, device, unread, written>>

StartCamera(n) ==
    Start(n, {"camera"}) /\ UNCHANGED <<topic, next, port, device, unread, written>>

\* With its process a node's port is closed.
End(n) == running' = running \ {n} /\ port' = [port EXCEPT ![n] = "none"]

Stop(n) == n \in running /\ End(n) /\ UNCHANGED <<topic, next, device, unread, written>>

--------------------------------------------------------------------------
(* Callbacks. *)

Take(n, kind) ==
    /\ n \in running /\ Kind[n] = kind
    /\ next[n] <= Len(Inbox(n)) /\ next' = [next EXCEPT ![n] = @ + 1]

WriteLine(n) ==
    /\ port[n] = "open"
    /\ written' = Append(written, [by |-> n, at |-> next[n], msg |-> Inbox(n)[next[n]]])
    /\ UNCHANGED <<running, port>>

\* The agent has no port, or logs the error: the message is lost.
listener_callback(n) ==
    /\ Take(n, "agent")
    /\ WriteLine(n) \/ UNCHANGED <<running, port, written>>
    /\ UNCHANGED <<topic, device, unread>>

\* An error ends the scraper, and the listener.
command_callback(n) ==
    /\ Take(n, "scraper")
    /\ WriteLine(n) \/ (End(n) /\ UNCHANGED written)
    /\ UNCHANGED <<topic, device, unread>>

on_command(n) ==
    /\ Take(n, "listener")
    /\ WriteLine(n) \/ (End(n) /\ UNCHANGED written)
    /\ UNCHANGED <<topic, device, unread>>

ReadLine(n, kind) ==
    /\ n \in running /\ Kind[n] = kind /\ port[n] = "open"
    /\ unread # <<>> /\ unread' = Tail(unread)

\* The thread of the agent: it logs any error and goes on, with the next line.
read_from_serial(n) ==
    /\ ReadLine(n, "agent")
    /\ IF Head(unread).is = "text" THEN Publish(Publication["agent"], n, Head(unread).line)
       ELSE UNCHANGED <<topic, next>>
    /\ UNCHANGED <<running, port, device, written>>

\* The timer of the scraper: of a garbled line it publishes what can be decoded, if any.
read_serial(n) ==
    \/ /\ ReadLine(n, "scraper")
       /\ \/ /\ Head(unread).is # "empty"
             /\ Publish(Publication["scraper"], n, Head(unread).line)
          \/ Head(unread).is # "text" /\ UNCHANGED <<topic, next>>
       /\ UNCHANGED <<running, port, device, written>>
    \/ /\ n \in running /\ Kind[n] = "scraper" /\ port[n] = "stale" /\ End(n)
       /\ UNCHANGED <<topic, next, device, unread, written>>

timer_callback(n) ==
    /\ n \in running /\ Kind[n] = "publisher" /\ Publish(Publication["publisher"], n, 0)
    /\ UNCHANGED <<running, port, device, unread, written>>

\* If there is a frame.
publish_frame(n) ==
    /\ n \in running /\ Kind[n] = "camera" /\ Publish(Publication["camera"], n, 0)
    /\ UNCHANGED <<running, port, device, unread, written>>

--------------------------------------------------------------------------
(* Everything else: commands, the Arduino, and its cable. *)

Command(t) == /\ Publish(t, Outside, 0)
              /\ UNCHANGED <<running, port, device, unread, written>>

\* A line is lost if the buffer of the port is full.
Say(is) == /\ plugged /\ said' = said + 1
           /\ \/ unread' = Append(unread, [line |-> said', is |-> is])
              \/ UNCHANGED unread
           /\ UNCHANGED <<topic, running, next, port, plugged, written>>

Unplug == /\ plugged /\ plugged' = FALSE /\ unread' = <<>>
          /\ port' = [n \in Nodes |-> IF port[n] = "open" THEN "stale" ELSE port[n]]
          /\ UNCHANGED <<topic, running, next, said, written>>

Plug == /\ ~ plugged /\ plugged' = TRUE
        /\ UNCHANGED <<topic, running, next, port, said, unread, written>>

Node(n) == \/ StartAgent(n) \/ StartScraper(n) \/ StartListener(n)
           \/ StartPublisher(n) \/ StartCamera(n) \/ Stop(n)
           \/ listener_callback(n) \/ command_callback(n) \/ on_command(n)
           \/ read_from_serial(n) \/ read_serial(n) \/ timer_callback(n) \/ publish_frame(n)

Next == \/ \E n \in Nodes : Node(n)
        \/ \E t \in {"instruction", "custom_command"} : Command(t)
        \/ \E is \in {"text", "empty", "garbled"} : Say(is)
        \/ Unplug \/ Plug

Spec == Init /\ [][Next]_vars

--------------------------------------------------------------------------
(* Properties. *)

\* However often a node is ended and started again, and however full its queue gets, it
\* never writes a message twice, nor an older one after a newer one.
WritesInOrder ==
    \A i, j \in 1 .. Len(written) :
        i < j /\ written[i].by = written[j].by => written[i].at < written[j].at

\* On each topic the lines of the Arduino keep their order, and none is there twice.
LinesInOrder ==
    \A t \in Topics : \A i, j \in 1 .. Len(topic[t]) :
        i < j /\ topic[t][i].line # 0 /\ topic[t][j].line # 0
            => topic[t][i].line < topic[t][j].line

\* Without the agent nothing of what the nodes publish comes back to the Arduino.
NothingComesBack == \A i \in 1 .. Len(written) : written[i].msg.from = Outside

\* The agent sends the Arduino back what it said, but no line more than once.
EchoedOnce ==
    \A i, j \in 1 .. Len(written) :
        /\ i # j /\ written[i].by = written[j].by
        /\ written[i].msg.line # 0
        => written[i].msg.line # written[j].msg.line

\* A scraper or a listener that runs has opened the port since it started, whatever it
\* found then: the agent alone may run without.
RunsWithItsPort ==
    \A n \in running : Kind[n] \in {"scraper", "listener"} => port[n] # "none"
=============================================================================
