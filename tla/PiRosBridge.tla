----------------------------- MODULE PiRosBridge -----------------------------
(***************************************************************************)
(* A robot's controller in operation (PiRosBridgeClient, handle_json_rpc    *)
(* and RobotController): one task takes commands from rosbridge, carries    *)
(* each out on the serial line and publishes its response; another one      *)
(* publishes the status.  The first one also reconnects.                    *)
(*                                                                         *)
(* The serial work runs in a thread while the event loop goes on, so that   *)
(* the connection may be lost, and statuses published, in the middle of a   *)
(* command.  The Arduino may answer late, or not at all.  A command that     *)
(* validates may still name what is no text: it ends the process.           *)
(***************************************************************************)
EXTENDS Naturals, Sequences, FiniteSets

CONSTANTS MaxCommands,    \* bound: commands sent to the robot
          MaxLosses,      \* bound: times the connection to rosbridge is lost
          Faults          \* which of FaultKinds may happen

FaultKinds == {"reconnect_loss", "refused", "garbled", "clean_close"}

ASSUME ControllerAssumption == /\ MaxCommands \in Nat /\ MaxLosses \in Nat
                               /\ Faults \subseteq FaultKinds

VARIABLES
    link,          \* the connection: up, dead (not noticed yet), closed, ended (close code 1000)
    losses,        \* times it was lost so far
    advertised,    \* rosbridge: the topics this connection has advertised
    subscribed,    \* rosbridge: it subscribed to the commands
    used,          \* topics published on it
    inbox,         \* commands received and not yet read
    listener,      \* where the listening task is
    running,       \* run() was called: the status task exists
    job,           \* the command in hand
    commands,      \* the kind of command 1, 2, 3, ... sent to the robot
    written,       \* the command of each line written to the serial port
    owed,          \* lines the Arduino has not answered
    line,          \* lines whose answer waits in the serial buffer
    replies        \* responses published

connection == <<link, losses, advertised, subscribed, used>>
serial == <<written, owed, line>>
vars == <<connection, inbox, listener, running, job, commands, serial, replies>>

\* Commands that validate, since `params` is any dict, but that come to a line which is
\* not a string: the only one, or the second one of a sequence.
Mistyped == {"mistyped", "mistyped_sequence"}

\* What the sender asks for: one line, a sequence of them (the empty ones are skipped),
\* what is refused (it does not parse, or `commands` is no list), or a mistyped line.
Kinds == {"single", "sequence", "empty_sequence", "invalid"} \union Mistyped

\* Lines a command can write to the serial port.
LinesOf(kind) == CASE kind \in {"single", "mistyped_sequence"} -> 1
                   [] kind = "sequence" -> 2
                   [] OTHER -> 0

Topics == {"response", "status"}

MaxLines == 2 * MaxCommands
NoAnswer == 0              \* readline timed out: the response is ""

Jobs == [cmd : 0 .. MaxCommands, left : 0 .. 2, outcome : {"none", "ok", "error"},
         answer : 0 .. MaxLines]

Idle == [cmd |-> 0, left |-> 0, outcome |-> "none", answer |-> NoAnswer]

ListenerStates == {"connect", "advertise", "settle", "reading", "write", "read", "publish",
                   "backoff", "spinning", "exited"}

TypeOK ==
    /\ link \in {"up", "dead", "closed", "ended"}
    /\ losses \in 0 .. MaxLosses
    /\ advertised \in SUBSET Topics /\ used \in SUBSET Topics
    /\ subscribed \in BOOLEAN /\ running \in BOOLEAN
    /\ inbox \in Seq(1 .. MaxCommands)
    /\ listener \in ListenerStates
    /\ job \in Jobs
    /\ commands \in Seq(Kinds) /\ Len(commands) <= MaxCommands
    /\ written \in Seq(1 .. MaxCommands) /\ Len(written) <= MaxLines
    /\ owed \in Seq(1 .. MaxLines) /\ line \in Seq(1 .. MaxLines)
    /\ replies \in Seq(Jobs)

Init ==
    /\ link = "closed" /\ losses = 0 /\ advertised = {} /\ subscribed = FALSE /\ used = {}
    /\ inbox = <<>> /\ listener = "connect" /\ running = FALSE /\ job = Idle
    /\ commands = <<>> /\ written = <<>> /\ owed = <<>> /\ line = <<>> /\ replies = <<>>

--------------------------------------------------------------------------
(* The connection. *)

Open == link \in {"up", "dead"}

\* A send that does not raise: on a dead connection it is lost.
SendOn(topic) == used' = IF link = "up" THEN used \union {topic} ELSE used

\* An exception nobody catches ends the task, and with it run() and the process.
Exit == listener' = "exited" /\ UNCHANGED <<connection, inbox>>

\* connect(), and the first advertise, which is written without suspending.  At first any
\* exception ends the process; later OSError and InvalidURI only mean another wait and
\* others (InvalidStatus of a proxy) are not caught.
Connect ==
    /\ listener \in {"connect", "backoff"}
    /\ \/ /\ link' = "up" /\ advertised' = {"response"} /\ subscribed' = FALSE /\ used' = {}
          /\ inbox' = <<>> /\ listener' = "advertise"
          /\ UNCHANGED losses
       \/ listener = "connect" /\ Exit
       \/ listener = "backoff" /\ "refused" \in Faults /\ Exit
    /\ UNCHANGED <<running, job, commands, serial, replies>>

\* A variant that subscribes on the first connection only.
AdvertiseAndRead ==
    /\ listener = "advertise" /\ Open
    /\ advertised' = IF link = "up" THEN Topics ELSE advertised
    /\ listener' = IF running THEN "reading" ELSE "settle"
    /\ UNCHANGED <<link, losses, subscribed, used, inbox, running, job, commands, serial, replies>>

\* The second advertise.  On a connection that closed meanwhile a send raises
\* ConnectionClosed, at first in connect() and later inside the handler of that very
\* exception: either way the process ends.
Advertise ==
    /\ listener = "advertise"
    /\ \/ /\ Open
          /\ advertised' = IF link = "up" THEN Topics ELSE advertised
          /\ listener' = "settle"
          /\ UNCHANGED <<link, losses, subscribed, used, inbox>>
       \/ ~ Open /\ Exit
    /\ UNCHANGED <<running, job, commands, serial, replies>>

\* Half a second later the subscription, whose send may raise in the same way.
Subscribe ==
    /\ listener = "settle"
    /\ \/ /\ Open
          /\ subscribed' = (link = "up")
          /\ listener' = "reading" /\ running' = TRUE
          /\ UNCHANGED <<link, losses, advertised, used, inbox>>
       \/ ~ Open /\ Exit /\ UNCHANGED running
    /\ UNCHANGED <<job, commands, serial, replies>>

\* A variant that returns when its connection does, without an exception.
ReturnWhenClosed ==
    /\ listener = "reading" /\ ~ Open
    /\ listener' = "spinning"
    /\ UNCHANGED <<connection, inbox, running, job, commands, serial, replies>>

\* The connection is over: ConnectionClosed makes the listener wait and reconnect, while
\* a normal close ends `async for` and starts it again, without suspending, for ever.
Closed ==
    /\ listener = "reading" /\ ~ Open
    /\ listener' = IF link = "closed" THEN "backoff" ELSE "spinning"
    /\ UNCHANGED <<connection, inbox, running, job, commands, serial, replies>>

\* The connection breaks, to be noticed by the keepalive, or is closed by the server; while
\* a new connection is being set up again only if that fault is considered.
Lose ==
    /\ link = "up" /\ losses < MaxLosses
    /\ listener \in {"advertise", "settle"} /\ running => "reconnect_loss" \in Faults
    /\ \/ link' = "dead"
       \/ "clean_close" \in Faults /\ link' = "ended"
    /\ losses' = losses + 1
    /\ advertised' = {} /\ subscribed' = FALSE /\ used' = {}
    /\ UNCHANGED <<inbox, listener, running, job, commands, serial, replies>>

Notice ==
    /\ link = "dead"
    /\ link' = "closed"
    /\ UNCHANGED <<losses, advertised, subscribed, used, inbox, listener, running, job,
                   commands, serial, replies>>

\* The API publishes a command; rosbridge forwards it to who subscribed.
SendCommand(kind) ==
    /\ Len(commands) < MaxCommands
    /\ commands' = Append(commands, kind)
    /\ inbox' = IF link = "up" /\ subscribed THEN Append(inbox, Len(commands) + 1) ELSE inbox
    /\ UNCHANGED <<connection, listener, running, job, serial, replies>>

--------------------------------------------------------------------------
(* A command, from the connection to its response. *)

\* The next thing to do for a command with this many lines left.
NextStep(kind, left) == IF left = 0 /\ kind \notin Mistyped THEN "publish" ELSE "write"

Take(n, step, outcome) ==
    /\ listener = "reading" /\ inbox # <<>> /\ n = Head(inbox)
    /\ inbox' = Tail(inbox)
    /\ listener' = step
    /\ job' = [cmd |-> n, left |-> LinesOf(commands[n]), outcome |-> outcome,
               answer |-> NoAnswer]
    /\ UNCHANGED <<connection, running, commands, serial, replies>>

\* parse_command and handle_json_rpc: what does not parse, or asks for a sequence that is
\* no list, is answered with an error, and a sequence of no commands is done at once.
Receive ==
    \E n \in 1 .. Len(commands) :
        CASE commands[n] = "invalid" -> Take(n, "publish", "error")
          [] commands[n] = "empty_sequence" -> Take(n, "publish", "ok")
          [] OTHER -> Take(n, "write", "none")

Fail == /\ listener' = "publish"
        /\ job' = [job EXCEPT !.outcome = "error"]

WriteLine == /\ written' = Append(written, job.cmd)
             /\ owed' = Append(owed, Len(written) + 1)
             /\ listener' = "read"
             /\ UNCHANGED <<connection, inbox, job>>

\* A variant that ignores the errors of the serial port.
WriteIgnoringErrors ==
    /\ listener = "write"
    /\ \/ job.left > 0 /\ WriteLine
       \/ job.left > 0 /\ listener' = "read" /\ UNCHANGED <<connection, inbox, job, written, owed>>
       \/ job.left = 0 /\ Exit /\ UNCHANGED <<job, written, owed>>
    /\ UNCHANGED <<running, commands, line, replies>>

\* send_command: one line to the Arduino, or a ConnectionError or EnvironmentError that
\* handle_json_rpc answers as an error.  Adding '\n' to what is not a string raises a
\* TypeError that nobody catches.
Write ==
    /\ listener = "write"
    /\ \/ job.left > 0 /\ WriteLine
       \/ Fail /\ UNCHANGED <<connection, inbox, written, owed>>
       \/ job.left = 0 /\ Exit /\ UNCHANGED <<job, written, owed>>
    /\ UNCHANGED <<running, commands, line, replies>>

\* After a line was read: the response of a single command is what was read, and a
\* sequence goes on with its next line, whatever was read.
GotLine(answer) ==
    LET kind == commands[job.cmd]
        step == NextStep(kind, job.left - 1)
    IN  /\ listener' = step
        /\ job' = [job EXCEPT !.left = job.left - 1,
                              !.outcome = IF step = "publish" THEN "ok" ELSE "none",
                              !.answer = IF kind = "single" THEN answer ELSE NoAnswer]

\* Variants that leave the answer in the buffer, and that read without a timeout.
ReadWithoutTaking ==
    /\ listener = "read"
    /\ \/ line # <<>> /\ GotLine(Head(line))
       \/ line = <<>> /\ GotLine(NoAnswer)
       \/ Fail
    /\ UNCHANGED <<connection, inbox, running, commands, serial, replies>>

ReadBlocking ==
    /\ listener = "read" /\ line # <<>>
    /\ GotLine(Head(line)) /\ line' = Tail(line)
    /\ UNCHANGED <<connection, inbox, running, commands, written, owed, replies>>

\* read_response: the first line in the buffer, nothing after a second, or an error of
\* the port.  Bytes that are not UTF-8 raise what handle_json_rpc does not catch.
Read ==
    /\ listener = "read"
    /\ \/ line # <<>> /\ GotLine(Head(line)) /\ line' = Tail(line) /\ UNCHANGED <<connection, inbox>>
       \/ line = <<>> /\ GotLine(NoAnswer) /\ UNCHANGED <<connection, inbox, line>>
       \/ Fail /\ UNCHANGED <<connection, inbox, line>>
       \/ "garbled" \in Faults /\ Exit /\ UNCHANGED <<job, line>>
    /\ UNCHANGED <<running, commands, written, owed, replies>>

\* The Arduino answers the lines it gets in their order, at any time.
Answer ==
    /\ owed # <<>>
    /\ line' = Append(line, Head(owed)) /\ owed' = Tail(owed)
    /\ UNCHANGED <<connection, inbox, listener, running, job, commands, written, replies>>

\* A variant that carries a command out again when its response cannot be sent.
PublishOrRepeat ==
    /\ listener = "publish"
    /\ \/ /\ Open
          /\ SendOn("response")
          /\ replies' = Append(replies, job)
          /\ listener' = "reading" /\ job' = Idle
       \/ /\ ~ Open
          /\ job' = [job EXCEPT !.left = LinesOf(commands[job.cmd])]
          /\ listener' = NextStep(commands[job.cmd], job'.left)
          /\ UNCHANGED <<used, replies>>
    /\ UNCHANGED <<link, losses, advertised, subscribed, inbox, running, commands, serial>>

\* _publish of the response.  If it raises, the response is lost, the listener
\* reconnects, and what the old connection had received is gone with it.
Publish ==
    /\ listener = "publish"
    /\ job' = Idle
    /\ \/ /\ Open
          /\ SendOn("response")
          /\ replies' = Append(replies, job)
          /\ listener' = "reading"
       \/ /\ ~ Open
          /\ listener' = "backoff"
          /\ UNCHANGED <<used, replies>>
    /\ UNCHANGED <<link, losses, advertised, subscribed, inbox, running, commands, serial>>

\* _publish_status_loop, every five seconds, on any connection that is open: also on one
\* that is still being set up.  On a closed connection it only waits.
PublishStatus ==
    /\ running /\ listener \notin {"spinning", "exited"}
    /\ Open
    /\ SendOn("status")
    /\ UNCHANGED <<link, losses, advertised, subscribed, inbox, listener, running, job,
                   commands, serial, replies>>

Listen == Connect \/ Advertise \/ Subscribe \/ Closed \/ Receive \/ Write \/ Read \/ Publish

Next == \/ Listen \/ PublishStatus \/ Answer \/ Lose \/ Notice
        \/ \E kind \in Kinds : SendCommand(kind)

Spec == Init /\ [][Next]_vars

\* The event loop and the serial thread go on, and rosbridge can be reached in the end.
Fairness == WF_vars(Listen) /\ WF_vars(Notice)

FairSpec == Spec /\ Fairness

--------------------------------------------------------------------------
(* Properties. *)

TimesWritten(n) == Cardinality({i \in 1 .. Len(written) : written[i] = n})

\* Whatever happens to the connection, a command moves the arm at most once: commands
\* are carried out in the order they were sent, and no line of one is written twice.
ExecutesAtMostOnce ==
    /\ \A i, j \in 1 .. Len(written) : i <= j => written[i] <= written[j]
    /\ \A n \in 1 .. Len(commands) : TimesWritten(n) <= LinesOf(commands[n])

\* A command is answered at most once, in order, and "ok" means that every line of it
\* was written: an error in the middle of a sequence is never reported as a success.
RepliesAreTrue ==
    /\ \A i, j \in 1 .. Len(replies) : i < j => replies[i].cmd < replies[j].cmd
    /\ \A i \in 1 .. Len(replies) :
          LET n == replies[i].cmd
          IN replies[i].outcome = "ok" => /\ commands[n] \notin {"invalid"} \union Mistyped
                                          /\ TimesWritten(n) = LinesOf(commands[n])

\* Even when the Arduino answers late, so that a response carries the answer to an
\* earlier line, no answer is reported twice or before its line was written.
AnswersInOrder ==
    /\ \A i \in 1 .. Len(replies) :
          replies[i].answer # NoAnswer => written[replies[i].answer] <= replies[i].cmd
    /\ \A i, j \in 1 .. Len(replies) :
          /\ i < j
          /\ replies[i].answer # NoAnswer /\ replies[j].answer # NoAnswer
          => replies[i].answer < replies[j].answer

\* After any number of losses, while the controller takes or carries out commands its
\* connection, if it is alive, is complete: both topics advertised and the commands
\* subscribed.  Responses go out on complete connections only (the statuses may not wait).
WorksOnCompleteConnections ==
    /\ link = "up" /\ listener \in {"reading", "write", "read", "publish"}
          => advertised = Topics /\ subscribed
    /\ "response" \in used => advertised = Topics /\ subscribed

\* In all, the controller keeps the promise of CommandService: from the first line of a
\* command to its response the arm moves for it alone, and once it was answered, or given
\* up with a line written, it never moves the arm again, on whatever connection.
Service == INSTANCE CommandService WITH
               Moves <- [kind \in Kinds |-> LinesOf(kind)], Refused <- {"invalid"} \union Mistyped,
               asked <- commands, moved <- written,
               busy <- IF listener \in {"write", "read", "publish"} THEN job.cmd ELSE 0,
               answers <- [i \in 1 .. Len(replies) |->
                             [cmd |-> replies[i].cmd, outcome |-> replies[i].outcome]]

ImplementsService == Service!Spec

\* The process ended over a mistyped command.
EndedByCommand ==
    listener = "exited" /\ job.cmd # 0 /\ commands[job.cmd] \in Mistyped

\* The controller comes back after a loss, and listens to commands again, unless the
\* command it was carrying out was mistyped.
Recovers ==
    (running /\ link # "up") ~>
        (link = "up" /\ subscribed /\ listener = "reading") \/ EndedByCommand

\* A command that was taken is concluded, with or without an answer of the Arduino: only
\* a mistyped one leaves no controller.
CommandsConclude ==
    listener \in {"write", "read", "publish"} ~>
        listener \in {"reading", "backoff"} \/ EndedByCommand
=============================================================================
