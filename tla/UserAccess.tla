----------------------------- MODULE UserAccess ------------------------------
(***************************************************************************)
(* What the API promises a user: accounts (UserService), tokens with an     *)
(* expiry (EncryptionService), permission to command a robot                *)
(* (AccessValidator) and the WebSocket over which commands come             *)
(* (UserToRobotCommunication).  WebClient composes it with the browser.     *)
(*                                                                         *)
(* A token is a value anyone may hold; the API keeps no list of them.  What *)
(* it checks is the expiry, and for a command the subject and the robot.    *)
(***************************************************************************)
EXTENDS CommandPath

CONSTANTS Users, Teachers, Seeded,   \* user names; those with statuss 'profe'; those of the seed
          Robots,
          Commands,       \* what users send; the page sends a method only, other clients what they like
          Lifetime,       \* ticks a token is valid for (ACCESS_TOKEN_EXPIRE_MINUTES)
          MaxTime,        \* bound: the last tick
          MaxJoining,     \* bound: sign-ups for one user name at the same time
          Failed          \* an answer that is an error, or no answer

ASSUME AccessAssumption ==
    /\ Lifetime \in Nat \ {0} /\ MaxTime \in Nat /\ MaxJoining \in Nat
    /\ Teachers \subseteq Seeded /\ Seeded \subseteq Users
    /\ Commands \subseteq Messages
    /\ None \notin Users \union Robots \union Messages /\ Failed \notin Users /\ None # Failed

VARIABLES
    now,           \* the API's clock
    rows,          \* table usuarios: how many rows have each user name
    joining,       \* how many sign-ups found each user name free and insert next
    covered,       \* history: until when each user has had, without a break since a password
                   \* was checked, a token that was valid
    session,       \* the API's end of the WebSocket
    inward,        \* the frame on its way to the API, or None
    outward,       \* frames on their way to the browser
    owed           \* the command published last, if the robot may still respond to it, or None

socket == <<session, inward, outward, owed>>
api == <<now, rows, joining, covered>>

\* A JWT: `robot` is None in a login token.
Token == [sub : Users, robot : Robots \union {None}, exp : Nat]

ASSUME TokenAssumption == None \notin Token

\* `message` is None in the frame that authenticates.
Frame == [kind : {"auth", "command"}, token : Token, robot : Robots \union {None},
          message : Messages \union {None}]

NoSession == [state |-> "none", user |-> None]

--------------------------------------------------------------------------
(* Tokens. *)

\* create_bearer_access_token.
NewToken(sub, robot) == [sub |-> sub, robot |-> robot, exp |-> now + Lifetime]

\* A variant that decodes without looking at the dates.
UncheckedToken(t) == t # None

\* decode_token: jwt.decode refuses from `exp` on, before the dates are compared again.
Valid(t) == t # None /\ now < t.exp

\* login with the password of the row with this user name.
LoginAnswer(name) == IF rows[name] > 0 THEN NewToken(name, None) ELSE Failed

\* get_user_by_token looks for exactly one row; an expired token is a 401, and no header a 401 too.
CurrentUser(t) ==
    IF Valid(t) /\ rows[t.sub] = 1 THEN t.sub ELSE Failed

\* request_robot_access: for whoever the bearer token stands for, be it of a login or a
\* permission itself.
AccessAnswer(t, robot) ==
    IF CurrentUser(t) = Failed THEN Failed ELSE NewToken(t.sub, robot)

\* What the answer to a request does to that history: a login begins anew, and a permission
\* goes on with what has not ended yet.
CoverBy(call, answer) ==
    covered' = IF call = "login" \/ (call = "access" /\ now < covered[answer.sub])
               THEN [covered EXCEPT ![answer.sub] = now + Lifetime] ELSE covered

\* grant_access: a valid robot_access token, for this robot and issued to this user.
GrantAccess(t, robot, name) == Valid(t) /\ t.robot = robot /\ t.sub = name

--------------------------------------------------------------------------
(* Accounts. *)

\* What a sign-up must contain.
UserBase == {"nombre", "email", "usr_name", "usr_psw", "usr_pronouns"}

\* signup needs every field of UserBase; the rest of it is Join and InsertUser.
SignupAnswer(form) == IF UserBase \subseteq form THEN None ELSE Failed

\* A variant without the constraint.
AnyRow(name) == TRUE

\* The constraint usuarios_usr_name_key.
Accepted(name) == rows[name] = 0

\* register_new_user, called by someone with a complete form: first the name is looked up,
Join(name) ==
    /\ rows[name] = 0 /\ joining[name] < MaxJoining
    /\ joining' = [joining EXCEPT ![name] = @ + 1]
    /\ UNCHANGED <<now, rows, covered>>

\* and then the row is inserted, which another sign-up may have made impossible.
InsertUser(name) ==
    /\ joining[name] > 0
    /\ joining' = [joining EXCEPT ![name] = @ - 1]
    /\ rows' = IF Accepted(name) THEN [rows EXCEPT ![name] = @ + 1] ELSE rows
    /\ UNCHANGED <<now, covered>>

Tick == /\ now < MaxTime
        /\ now' = now + 1
        /\ UNCHANGED <<rows, joining, covered>>

--------------------------------------------------------------------------
(* The WebSocket: connect_ws. *)

Say(answer) == outward' = Append(outward, answer)

Accept(frame) ==
    /\ session' = [state |-> "waiting", user |-> None]
    /\ inward' = frame
    /\ UNCHANGED <<outward, owed>>

\* A variant that only closes when the token cannot be decoded.
AuthenticateOrLeave ==
    /\ session.state = "waiting" /\ inward # None
    /\ inward' = None
    /\ IF Valid(inward.token)
       THEN /\ session' = [state |-> "open", user |-> inward.token.sub]
            /\ Say(SuccessAuth)
       ELSE UNCHANGED <<session, outward>>
    /\ UNCHANGED owed

\* _validate_user takes the first frame for the user's token.  If it cannot be decoded, or
\* none came in ten seconds, connect_ws says so and closes.
Authenticate ==
    /\ session.state = "waiting"
    /\ \/ /\ inward # None
          /\ inward' = None
          /\ IF Valid(inward.token)
             THEN /\ session' = [state |-> "open", user |-> inward.token.sub]
                  /\ Say(SuccessAuth)
             ELSE /\ session' = [state |-> "closed", user |-> None]
                  /\ Say(to_jsonrpc)
       \/ /\ session' = [state |-> "closed", user |-> None]
          /\ Say(to_jsonrpc)
          /\ UNCHANGED inward
    /\ UNCHANGED owed

\* _receive_user_command: a command that is granted is published; one that is not, that is
\* no command or whose publication fails is answered with an error, and the session goes on.
HandleCommand ==
    LET published == RobotCommandExtended(inward.message)
    IN /\ session.state = "open" /\ inward # None
       /\ inward' = None
       /\ \/ /\ published # None /\ GrantAccess(inward.token, inward.robot, session.user)
             /\ owed' = published
             /\ UNCHANGED outward
          \/ Say(to_jsonrpc) /\ UNCHANGED owed
       /\ UNCHANGED session

\* receive_robot_feedback: what the robot answers, if it does.
Feedback ==
    /\ session.state = "open" /\ owed # None
    /\ owed' = None
    /\ Say(Response(JsonRpcCommand(owed)))
    /\ UNCHANGED <<session, inward>>

\* The API stops or the connection breaks: a task of the session fails, and with it the session.
EndSession ==
    /\ session.state = "open"
    /\ session' = [state |-> "closed", user |-> None]
    /\ UNCHANGED <<inward, outward, owed>>

\* The browser closes its end, and the session with it.
HangUp == session' = NoSession /\ inward' = None /\ outward' = <<>> /\ owed' = None

AccessInit ==
    /\ now = 0
    /\ rows = [name \in Users |-> IF name \in Seeded THEN 1 ELSE 0]
    /\ joining = [name \in Users |-> 0]
    /\ covered = [name \in Users |-> 0]
    /\ session = NoSession /\ inward = None /\ outward = <<>> /\ owed = None

AccessTypeOK ==
    /\ now \in 0 .. MaxTime
    /\ rows \in [Users -> Nat] /\ joining \in [Users -> 0 .. MaxJoining]
    /\ covered \in [Users -> 0 .. MaxTime + Lifetime]
    /\ session \in [state : {"none", "waiting", "open", "closed"}, user : Users \union {None}]
    /\ inward \in Frame \union {None}
    /\ outward \in Seq([message : {"success auth", "error", "response"}, id : {"id", None}, error : Int])
    /\ owed \in Messages \union {None}
=============================================================================
