----------------------------- MODULE CommandPath -----------------------------
(***************************************************************************)
(* What a command and its answer turn into on their way: the name of the    *)
(* topic (Crockford Base32 of the robot's id), the models that each side    *)
(* parses a message with, and the errors.  Functions only: UserAccess takes *)
(* the steps.                                                               *)
(***************************************************************************)
EXTENDS Integers, Sequences

CONSTANTS MaxId,        \* bound: robot ids (UUIDs as integers) up to this one
          Methods,      \* names of methods; "execute_sequence" is one of them
          None          \* Python's None and null; a field that is absent

ASSUME PathAssumption == MaxId \in Nat /\ None \notin Methods /\ "not a list" \notin Methods

--------------------------------------------------------------------------
(* Topics.  A topic is the sequence of its segments; the digits of a segment *)
(* are those of the alphabet by their position.                              *)

Suffixes == {"command", "response", "status"}

\* uuid_to_crockford_base32: the digits from the last one on, then reversed; zero is "0".
Digits[n \in Nat] == IF n < 32 THEN <<n>> ELSE Append(Digits[n \div 32], n % 32)

\* The topic the API tells a robot in the handshake, under which it serves it too.
Topic(digits, suffix) == <<"", "robot", <<"r">> \o digits, suffix>>

\* The key under which _route_message looks for the queues of a robot.
RouteKey(topic) ==
    IF Len(topic) # 4 \/ topic[2] # "robot" THEN None
    ELSE IF Head(topic[3]) # "r" THEN None
    ELSE Tail(topic[3])

\* The listener of the API finds, for a topic it is sent something on, the key the sessions
\* of that robot registered under, and no other robot has the same key.
TopicNamesRoundTrip ==
    \A id \in 0 .. MaxId : \A suffix \in Suffixes :
        /\ RouteKey(Topic(Digits[id], suffix)) = Digits[id]
        /\ id = LET value[k \in 0 .. Len(Digits[id])] ==
                        IF k = 0 THEN 0 ELSE 32 * value[k - 1] + Digits[id][k]
                IN value[Len(Digits[id])]

--------------------------------------------------------------------------
(* Messages.                                                                *)

\* A list of commands has one line here, or it is no list.
Params == [command : Methods \union {None}, commands : Methods \union {None, "not a list"}]
NoParams == [command |-> None, commands |-> None]

\* What a user may send as a command, next to the permission.
Messages == [method : Methods \union {None}, params : Params \union {None}, id : {"id", None}]

\* RobotCommandExtended, which the API parses a command with and publishes: a pydantic model
\* drops the fields it does not declare, and refuses without the ones it does.
RobotCommandExtended(message) ==
    IF message.method # None THEN [message EXCEPT !.params = None, !.id = None] ELSE None

\* JsonRpcCommand, which the controller parses what was published with: `params` defaults to {}.
JsonRpcCommand(object) == [object EXCEPT !.params = IF @ = None THEN NoParams ELSE @]

\* handle_json_rpc: the lines written to the robot, where a sequence without `commands` is
\* empty, and one that is no list is refused,
Written(command) ==
    LET line == IF command.method = "execute_sequence" THEN command.params.commands
                ELSE IF command.params.command # None THEN command.params.command
                ELSE command.method
    IN IF line \in {None, "not a list"} THEN <<>> ELSE <<line>>

\* and the answer, when the robot carries them out.
Response(command) ==
    [message |-> "response", id |-> command.id,
     error |-> IF command.method = "execute_sequence" /\ command.params.commands = "not a list"
               THEN -32602 ELSE 0]

\* The frame that the API turns an exception into.
to_jsonrpc == [message |-> "error", id |-> None, error |-> -32603]

SuccessAuth == [message |-> "success auth", id |-> None, error |-> 0]
=============================================================================
