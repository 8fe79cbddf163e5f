------------------------------ MODULE WebClient ------------------------------
(***************************************************************************)
(* The browser: the store of the session (stores/auth.ts), the requests     *)
(* (useApi.ts), the routes and their guard (router/index.ts), the pages and *)
(* the socket of the robot page (useRobotSocket.ts), in front of the API of *)
(* UserAccess.                                                              *)
(*                                                                         *)
(* Every request is answered later, and whoever asked then goes on with the *)
(* store as it is by then.  Bounds: one request of each kind in flight, one *)
(* command without its answer, and the history of the browser remembers the *)
(* last robot page.  Other clients share its session and its permission.    *)
(***************************************************************************)
EXTENDS UserAccess

CONSTANT Waiting        \* no answer yet

ASSUME WaitingAssumption == Waiting \notin Users \union {None, Failed}

VARIABLES
    token, user,   \* the store; the token is also in localStorage
    page,          \* the page shown, "none" until the first navigation ends
    dest,          \* the navigation that waits for the guard's fetchUser, or None
    entry,         \* the permission in the history entry of the last robot page, or None
    pending,       \* the requests in flight
    status,        \* of the robot page's socket
    mounted,       \* the token the robot page will authenticate the socket with, or None
    crossed        \* history: since the page was loaded, an answer of fetchUser met a store that
                   \* had another token by then, or a user already

screen == <<page, dest, entry, status, mounted>>
store == <<token, user, crossed>>
vars == <<api, socket, screen, store, pending>>

Pages == {"login", "register", "dashboard", "robot", "admin"}

\* Who asks: the form of a page (login, and the fetchUser after it), the guard, the dashboard.
Askers == {"form", "guard", "robot"}

Idle == [call |-> "none", with |-> None, ans |-> None]
Ask(call, with) == [call |-> call, with |-> with, ans |-> Waiting]

\* A variant that takes only a success for an end.
AnswersOnly(asker) == IF pending[asker] = Idle THEN {} ELSE {pending[asker].ans} \ {Waiting}

\* What the browser may get to see of a request: the answer, or that there is none.
Outcomes(asker) == IF pending[asker] = Idle THEN {} ELSE {pending[asker].ans, Failed} \ {Waiting}

Quiet == [asker \in Askers |-> Idle]

--------------------------------------------------------------------------
(* Navigation. *)

\* A variant without the check of the role.
LandingUnchecked(to, tok, u) ==
    IF tok = None /\ to \in {"dashboard", "robot", "admin"} THEN "login"
    ELSE IF tok # None /\ to \in {"login", "register"} THEN "dashboard"
    ELSE to

\* Where the guard lets a navigation to `to` end.  A redirection passes the guard again.
Landing(to, tok, u) ==
    IF tok = None /\ to \in {"dashboard", "robot", "admin"} THEN "login"
    ELSE IF \/ to = "admin" /\ u \notin Teachers
            \/ tok # None /\ to \in {"login", "register"}
         THEN "dashboard"
    ELSE to

\* A variant of Show in which the robot page leaves its socket open.
ShowOver(to, permission) ==
    IF page = "robot"
    THEN page' = to /\ UNCHANGED <<entry, status, mounted, socket>>
    ELSE /\ page' = IF to = "robot" /\ permission = None THEN "dashboard" ELSE to
         /\ IF to = "robot" /\ permission # None
            THEN status' = "connecting" /\ mounted' = token' /\ entry' = permission
            ELSE UNCHANGED <<status, mounted, entry>>
         /\ UNCHANGED socket

\* The page is shown.  The robot page connects when it is mounted, and goes on to the
\* dashboard if there is no permission in its history entry; it disconnects when it is left.
\* A push to the page that is shown already does nothing.
Show(to, permission) ==
    IF page = "robot" /\ to = "robot"
    THEN UNCHANGED <<page, entry, status, mounted, socket>>
    ELSE /\ HangUp
         /\ IF to = "robot" /\ permission # None
            THEN /\ page' = "robot" /\ entry' = permission
                 /\ status' = "connecting" /\ mounted' = token'
            ELSE /\ page' = IF to = "robot" THEN "dashboard" ELSE to
                 /\ status' = "disconnected" /\ mounted' = None
                 /\ UNCHANGED entry

\* router.push, and beforeEach: with a token and no user it first asks for the user.  A later
\* navigation replaces one that still waits, but not its request.
Navigate(to, permission, requests) ==
    IF token' # None /\ user' = None
    THEN /\ requests["guard"] = Idle
         /\ pending' = [requests EXCEPT !["guard"] = Ask("me", token')]
         /\ dest' = [to |-> to, permission |-> permission]
         /\ UNCHANGED <<page, entry, status, mounted, socket>>
    ELSE /\ pending' = requests
         /\ dest' = None
         /\ Show(Landing(to, token', user'), permission)

\* A link, or the history, from one page to another.
Go(to) ==
    /\ page \notin {"none", to}
    /\ to = "robot" => entry # None
    /\ UNCHANGED store
    /\ Navigate(to, entry, pending)
    /\ UNCHANGED api

\* A page load: what is kept is localStorage and the history.
Visit(to) ==
    /\ to = "robot" => entry # None
    /\ user' = None /\ crossed' = FALSE
    /\ HangUp /\ status' = "disconnected" /\ mounted' = None
    /\ IF token = None
       THEN /\ page' = Landing(to, None, None) /\ dest' = None
            /\ pending' = Quiet
       ELSE /\ page' = "none" /\ dest' = [to |-> to, permission |-> entry]
            /\ pending' = [Quiet EXCEPT !["guard"] = Ask("me", token)]
    /\ UNCHANGED <<token, entry, api>>

--------------------------------------------------------------------------
(* Requests. *)

\* What RegisterPage sends.
RegisterForm == {"nombrecompleto", "email", "usr_name", "usr_psw", "statuss", "usr_pronouns"}

\* A login, with the right password, or a sign-up.  The button is disabled while it runs.
Submit ==
    /\ pending["form"] = Idle
    /\ \/ /\ page = "login"
          /\ \E name \in Users : pending' = [pending EXCEPT !["form"] = Ask("login", name)]
       \/ /\ page = "register"
          /\ pending' = [pending EXCEPT !["form"] = Ask("signup", RegisterForm)]
    /\ UNCHANGED <<api, socket, screen, store>>

\* controlRobot asks for permission with the store's token.
Control ==
    /\ page = "dashboard" /\ pending["robot"] = Idle
    /\ pending' = [pending EXCEPT !["robot"] = Ask("access", token)]
    /\ UNCHANGED <<api, socket, screen, store>>

\* The API handles a request.  That it refuses is one of the Outcomes.
Serve(asker) ==
    LET request == pending[asker]
        answers ==
            CASE request.call = "login" -> {LoginAnswer(request.with)}
              [] request.call = "signup" -> {SignupAnswer(request.with)}
              [] request.call = "me" -> {CurrentUser(request.with)}
              [] OTHER -> {AccessAnswer(request.with, robot) : robot \in Robots}
    IN /\ request.ans = Waiting
       /\ \E ans \in answers \ {Failed} : /\ pending' = [pending EXCEPT ![asker].ans = ans]
                                         /\ CoverBy(request.call, ans)
       /\ UNCHANGED <<now, rows, joining, socket, screen, store>>

\* A client other than the page has the API give it another permission for the one it has
\* (request_robot_access with a permission as the bearer), and uses that from then on.
Renew ==
    /\ status = "connected" /\ entry # None
    /\ \E ans \in {AccessAnswer(entry, robot) : robot \in Robots} \ {Failed} :
           entry' = ans /\ CoverBy("access", ans)
    /\ UNCHANGED <<now, rows, joining, socket, page, dest, status, mounted, store, pending>>

\* A variant of logout that leaves the user in the store.
LogoutTokenOnly == token' = None /\ UNCHANGED user

\* The store's logout.
logout == token' = None /\ user' = None

\* A variant that takes an error for the user.
StoreAnswer(request, ans) ==
    user' = ans /\ UNCHANGED token /\ crossed' = (crossed \/ token # request.with \/ user # None)

\* The end of fetchUser: the user, or for whatever went wrong, logout.
UserFetched(request, ans) ==
    /\ IF ans = Failed THEN logout ELSE user' = ans /\ UNCHANGED token
    /\ crossed' = (crossed \/ token # request.with \/ user # None)

\* login stores the token and asks for the user, and the page pushes the dashboard after that.
\* A login that failed, and a sign-up, leave only a message.
FormAnswered ==
    LET request == pending["form"]
        requests == [pending EXCEPT !["form"] = Idle]
    IN /\ \E ans \in Outcomes("form") :
              \/ /\ request.call = "me"
                 /\ UserFetched(request, ans)
                 /\ Navigate("dashboard", None, requests)
              \/ /\ request.call = "login" /\ ans # Failed
                 /\ token' = ans
                 /\ pending' = [pending EXCEPT !["form"] = Ask("me", ans)]
                 /\ UNCHANGED <<user, crossed, screen, socket>>
              \/ /\ request.call # "me" /\ ans = Failed
                 /\ pending' = requests
                 /\ UNCHANGED <<store, screen, socket>>
       /\ UNCHANGED api

\* The guard goes on with its navigation, unless a later one has replaced it.
GuardAnswered ==
    LET requests == [pending EXCEPT !["guard"] = Idle]
    IN /\ \E ans \in Outcomes("guard") : UserFetched(pending["guard"], ans)
       /\ IF dest = None
          THEN pending' = requests /\ UNCHANGED <<screen, socket>>
          ELSE Navigate(dest.to, dest.permission, requests)
       /\ UNCHANGED api

\* controlRobot pushes the robot page with the permission in its history entry, also when
\* the dashboard has been left meanwhile.
RobotAnswered ==
    LET requests == [pending EXCEPT !["robot"] = Idle]
    IN /\ UNCHANGED <<store, api>>
       /\ \E ans \in Outcomes("robot") :
              IF ans = Failed
              THEN pending' = requests /\ UNCHANGED <<screen, socket>>
              ELSE Navigate("robot", ans, requests)

\* NavBar's logout, offered on every page.
Logout ==
    /\ token # None
    /\ logout /\ UNCHANGED crossed
    /\ Navigate("login", None, pending)
    /\ UNCHANGED api

--------------------------------------------------------------------------
(* The socket of the robot page. *)

Rest == UNCHANGED <<api, store, pending, page, dest, entry>>

WsOpen ==
    /\ status = "connecting"
    /\ status' = "authenticating" /\ mounted' = None
    /\ Accept([kind |-> "auth", token |-> mounted, robot |-> None, message |-> None])
    /\ Rest

WsFail ==
    /\ status = "connecting"
    /\ status' = "error" /\ mounted' = None
    /\ UNCHANGED socket /\ Rest

\* onmessage: the first frame says whether the API took the token; the others are shown.
Receive ==
    /\ outward # <<>>
    /\ outward' = Tail(outward)
    /\ status' = IF status # "authenticating" THEN status
                 ELSE IF Head(outward).message = "success auth" THEN "connected" ELSE "error"
    /\ UNCHANGED <<session, inward, owed, mounted>> /\ Rest

\* onclose, after onerror if the connection broke.
CloseSeen ==
    /\ session.state = "closed" /\ outward = <<>>
    /\ status \in {"authenticating", "connected"}
    /\ status' \in {"disconnected", "error"}
    /\ UNCHANGED <<socket, mounted>> /\ Rest

SendCommand ==
    /\ status = "connected" /\ session.state = "open"
    /\ inward = None /\ outward = <<>>
    /\ \E command \in Commands :
           inward' = [kind |-> "command", token |-> entry, robot |-> entry.robot, message |-> command]
    /\ UNCHANGED <<session, outward, owed, status, mounted>> /\ Rest

\* What becomes of a connection without the user or the robot.
Connection ==
    \/ WsOpen \/ WsFail \/ Receive \/ CloseSeen
    \/ Authenticate /\ UNCHANGED <<status, mounted>> /\ Rest

ApiSocket == /\ HandleCommand \/ Feedback \/ EndSession
             /\ UNCHANGED <<status, mounted>> /\ Rest

ApiAccounts == /\ \/ Tick
                  \/ \E name \in Users : Join(name) \/ InsertUser(name)
               /\ UNCHANGED <<socket, screen, store, pending>>

--------------------------------------------------------------------------
Init ==
    /\ AccessInit
    /\ token = None /\ user = None /\ crossed = FALSE
    /\ page = "login" /\ dest = None /\ entry = None
    /\ pending = Quiet
    /\ status = "disconnected" /\ mounted = None

PageLoad == \E to \in Pages : Visit(to)

Next ==
    \/ PageLoad
    \/ \E to \in Pages : Go(to)
    \/ Submit \/ Control \/ Logout
    \/ \E asker \in Askers : Serve(asker)
    \/ FormAnswered \/ GuardAnswered \/ RobotAnswered
    \/ Connection \/ SendCommand \/ Renew
    \/ ApiSocket \/ ApiAccounts

\* A request of the guard ends, a connection is made or fails, frames arrive, and the API is
\* done with a socket's authentication within ten seconds.  The user need not do anything.
Spec == Init /\ [][Next]_vars /\ WF_vars(GuardAnswered) /\ WF_vars(Connection)

--------------------------------------------------------------------------
Request(calls, withs, answers) ==
    [call : calls, with : withs, ans : answers \union {Waiting}]

TypeOK ==
    /\ AccessTypeOK
    /\ token \in Token \union {None} /\ user \in Users \union {None}
    /\ entry \in Token \union {None} /\ mounted \in Token \union {None}
    /\ page \in Pages \union {"none"}
    /\ dest \in [to : Pages, permission : Token \union {None}] \union {None}
    /\ pending["form"] \in {Idle} \union Request({"login"}, Users, Token)
                 \union Request({"signup"}, {RegisterForm}, {}) \union Request({"me"}, Token, Users)
    /\ pending["guard"] \in {Idle} \union Request({"me"}, Token, Users)
    /\ pending["robot"] \in {Idle} \union Request({"access"}, Token \union {None}, Token)
    /\ status \in {"disconnected", "connecting", "authenticating", "connected", "error"}
    /\ crossed \in BOOLEAN

\* Two people never have accounts with the same user name, although register_new_user looks
\* before it inserts: get_user_by_token depends on finding one row.
UniqueUserNames == \A name \in Users : rows[name] <= 1

\* The user that is shown is the one the token belongs to, unless an answer of fetchUser
\* crossed a login, a logout or the answer of another fetchUser.
ShownUserOwnsToken ==
    ~crossed /\ user # None => token # None /\ user = token.sub

\* Only a teacher who is logged in sees the administration page, with the same exception.
AdminPageIsForTeachers ==
    page = "admin" /\ ~crossed => token # None /\ token.sub \in Teachers

\* A socket that takes commands belongs to the user who is logged in, until the API has
\* ended its session, with the same exception.
SocketFollowsLogin ==
    status = "connected" /\ ~crossed /\ session.state # "closed"
        => token # None /\ session.user = token.sub

Publishes == /\ inward # None /\ inward.kind = "command" /\ inward' = None
             /\ UNCHANGED <<session, outward>>

\* A command is published only with a permission of the session's user, and only while that
\* user has held valid tokens without a break since a password was checked.  A permission can
\* be exchanged for a later one for ever; but once the last token of a user has expired nothing
\* but the password opens the robots again, however long the session has been open.
CommandsArePermitted ==
    [][Publishes => inward.token.sub = session.user /\ now < covered[session.user]]_vars

\* "La RaspberryPi recibe el mensaje", "respuestas ... con id": the robot does with what it is
\* sent, and answers, what it would have with the command that the user sent.
CommandsArriveWhole ==
    [][Publishes => LET sent == JsonRpcCommand(inward.message)
                        arrived == JsonRpcCommand(owed')
                    IN Written(arrived) = Written(sent) /\ Response(arrived) = Response(sent)]_vars

\* A page load ends on some page, unless the user keeps loading.
PageAppears == (page = "none" ~> page # "none") \/ []<><<PageLoad>>_vars

\* The robot page does not stay connecting or authenticating.
ConnectSettles ==
    status \in {"connecting", "authenticating"} ~> status \notin {"connecting", "authenticating"}
=============================================================================
