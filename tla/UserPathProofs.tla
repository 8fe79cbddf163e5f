--------------------------- MODULE UserPathProofs ----------------------------
(***************************************************************************)
(* Proofs about the browser and the API, for any users, robots, commands    *)
(* and lifetimes.  Three invariants build on each other: what every value   *)
(* is (TypeInv), which user the pages and the store are about (PageInv),    *)
(* and whose the socket is (LinkInv).                                       *)
(***************************************************************************)
EXTENDS WebClient, TLAPS

\* The tokens that permit to command a robot.
Permits == {t \in Token : t.robot \in Robots}

AccountsInv ==
    /\ now \in Nat /\ now \in 0 .. MaxTime
    /\ rows \in [Users -> Nat] /\ joining \in [Users -> 0 .. MaxJoining]
    /\ covered \in [Users -> Nat] /\ \A u \in Users : covered[u] <= now + Lifetime

StoreInv ==
    /\ token \in Token \union {None} /\ user \in Users \union {None} /\ crossed \in BOOLEAN

FormRequests ==
    {Idle} \union Request({"login"}, Users, Token)
           \union Request({"signup"}, {RegisterForm}, {}) \union Request({"me"}, Token, Users)
GuardRequests == {Idle} \union Request({"me"}, Token, Users)
RobotRequests == {Idle} \union Request({"access"}, Token \union {None}, Permits)

RequestsOK(requests) ==
    /\ DOMAIN requests = Askers /\ requests = [asker \in Askers |-> requests[asker]]
    /\ requests["form"] \in FormRequests
    /\ requests["guard"] \in GuardRequests
    /\ requests["robot"] \in RobotRequests

DestInv == dest \in [to : Pages, permission : Permits \union {None}] \union {None}

OutFrames == [message : {"success auth", "error", "response"}, id : {"id", None}, error : Int]

\* Both ends of the socket, and the page it belongs to.
SocketInv ==
    /\ page \in Pages \union {"none"}
    /\ entry \in Permits \union {None} /\ mounted \in Token \union {None}
    /\ status \in {"disconnected", "connecting", "authenticating", "connected", "error"}
    /\ session \in [state : {"none", "waiting", "open", "closed"}, user : Users \union {None}]
    /\ inward \in Frame \union {None}
    /\ inward # None => \/ inward.kind = "auth"
                        \/ inward.token \in Permits /\ inward.message \in Messages
    /\ outward \in Seq(OutFrames)
    /\ owed \in Messages \union {None}
    /\ session.state = "none" => inward = None /\ outward = <<>>
    /\ session.state = "open" /\ inward # None => inward.kind = "command"
    /\ status # "disconnected" => page = "robot" /\ entry # None
    /\ status = "connecting" => mounted # None /\ session.state = "none"

TypeInv == AccountsInv /\ StoreInv /\ RequestsOK(pending) /\ DestInv /\ SocketInv

\* An answer of `me` is the subject of the token it was asked with; a login or a sign-up runs
\* without a token; and without a crossing, the user is the token's and is there on every page
\* that needs one.
PageInv ==
    /\ \A asker \in Askers :
          pending[asker].call = "me" => pending[asker].ans \in {Waiting, pending[asker].with.sub}
    /\ pending["form"].call \in {"login", "signup"} => token = None
    /\ page \in {"login", "register"} /\ pending["form"] = Idle => token = None
    /\ ShownUserOwnsToken
    /\ ~crossed /\ page \in {"dashboard", "robot", "admin"} => user # None
    /\ ~crossed /\ page = "admin" => user \in Teachers

\* Without a crossing, whatever the socket is authenticated with is of the token's user.
LinkInv ==
    /\ \A i \in 1 .. Len(outward) :
          outward[i].message = "success auth" => session.state \in {"open", "closed"}
    /\ status = "connected" => session.state \in {"open", "closed"}
    /\ ~crossed => /\ status = "connecting" => mounted = token
                   /\ status = "authenticating" /\ session.state = "waiting" /\ inward # None
                          => inward.token.sub = token.sub
                   /\ status \in {"authenticating", "connected"} /\ session.state = "open"
                          => session.user = token.sub

--------------------------------------------------------------------------
(* Navigation.                                                              *)

\* The guard: pages that need a token are reached with one only, the administration by
\* teachers only, and the pages of guests without one only.
LEMMA LandingIsAllowed ==
  ASSUME NEW to \in Pages, NEW tok, NEW u
  PROVE  /\ Landing(to, tok, u) \in Pages
         /\ Landing(to, tok, u) \in {"dashboard", "robot", "admin"} => tok # None
         /\ Landing(to, tok, u) = "admin" => u \in Teachers
         /\ Landing(to, tok, u) \in {"login", "register"} => tok = None
         /\ Landing(to, tok, u) = "robot" => to = "robot"
  BY DEF Landing, Pages

\* What showing a page does to the socket: nothing, on the robot page itself, or it ends.
Shown ==
    /\ HangUp
    /\ \/ status' = "disconnected" /\ mounted' = None /\ entry' = entry
       \/ /\ status' = "connecting" /\ mounted' = token' /\ token' # None
          /\ page' = "robot" /\ entry' \in Permits
    /\ page' \in Pages
    /\ page' \in {"dashboard", "robot", "admin"} => token' # None
    /\ page' \in {"login", "register"} => token' = None
    /\ page' = "admin" => user' \in Teachers

Stays == UNCHANGED <<page, entry, status, mounted, socket>>

LEMMA ShowEnds ==
  ASSUME NEW to \in Pages, NEW permission \in Permits \union {None},
         Show(Landing(to, token', user'), permission)
  PROVE  Shown \/ (page = "robot" /\ token' # None /\ Stays)
<1> DEFINE there == Landing(to, token', user')
<1>1. /\ there \in Pages
      /\ there \in {"dashboard", "robot", "admin"} => token' # None
      /\ there = "admin" => user' \in Teachers
      /\ there \in {"login", "register"} => token' = None
  BY LandingIsAllowed
<1>2. Show(there, permission)
  OBVIOUS
<1> HIDE DEF there
<1>3. CASE page = "robot" /\ there = "robot"
  BY <1>1, <1>2, <1>3 DEF Show, Stays
<1>4. CASE ~(page = "robot" /\ there = "robot")
  <2>1. HangUp
    BY <1>2, <1>4 DEF Show
  <2>2. CASE there = "robot" /\ permission # None
    BY <1>1, <1>2, <1>4, <2>1, <2>2 DEF Show, Shown, Pages
  <2>3. CASE ~(there = "robot" /\ permission # None)
    <3>1. /\ page' = IF there = "robot" THEN "dashboard" ELSE there
          /\ status' = "disconnected" /\ mounted' = None /\ entry' = entry
      BY <1>2, <1>4, <2>3 DEF Show
    <3> QED BY <1>1, <2>1, <3>1 DEF Shown, Pages
  <2> QED BY <2>2, <2>3
<1> QED BY <1>3, <1>4

\* Showing a page keeps what is known of the socket.
LEMMA ShownKeepsSocketInv ==
  ASSUME SocketInv, token' \in Token \union {None}, Shown
  PROVE  SocketInv'
<1>1. /\ session' = [state |-> "none", user |-> None]
      /\ inward' = None /\ outward' = <<>> /\ owed' = None
  BY DEF Shown, HangUp, NoSession
<1>2. /\ entry' \in Permits \union {None} /\ mounted' \in Token \union {None}
      /\ status' \in {"disconnected", "connecting"}
      /\ status' = "connecting" => mounted' # None /\ entry' # None /\ page' = "robot"
  BY TokenAssumption DEF Shown, SocketInv, Permits
<1>3. page' \in Pages
  BY DEF Shown
<1> QED BY <1>1, <1>2, <1>3 DEF SocketInv

LEMMA StaysKeepsSocketInv ==
  ASSUME SocketInv, Stays PROVE SocketInv'
  BY DEF Stays, SocketInv, socket, Frame, OutFrames

\* A navigation waits for the guard's request, stays on the robot page, or shows a page.
Waits(requests) ==
    /\ token' # None /\ user' = None /\ Stays
    /\ requests["guard"] = Idle
    /\ pending' = [requests EXCEPT !["guard"] = Ask("me", token')]

Arrives(requests) ==
    /\ ~(token' # None /\ user' = None)
    /\ pending' = requests
    /\ Shown \/ (page = "robot" /\ token' # None /\ Stays)

LEMMA NavigateEnds ==
  ASSUME NEW to \in Pages, NEW permission \in Permits \union {None}, NEW requests,
         Navigate(to, permission, requests)
  PROVE  /\ Waits(requests) \/ Arrives(requests)
         /\ DestInv'
<1>1. CASE token' # None /\ user' = None
  BY <1>1 DEF Navigate, Waits, Stays, DestInv
<1>2. CASE ~(token' # None /\ user' = None)
  <2>1. Show(Landing(to, token', user'), permission) /\ pending' = requests /\ dest' = None
    BY <1>2 DEF Navigate
  <2> QED BY <1>2, <2>1, ShowEnds DEF Arrives, DestInv
<1> QED BY <1>1, <1>2

LEMMA AskingKeepsRequests ==
  ASSUME NEW requests, RequestsOK(requests), NEW t \in Token
  PROVE  RequestsOK([requests EXCEPT !["guard"] = Ask("me", t)])
  BY DEF RequestsOK, Ask, Askers, GuardRequests, FormRequests, RobotRequests, Request

LEMMA ForgettingKeepsRequests ==
  ASSUME NEW requests, RequestsOK(requests), NEW asker \in Askers
  PROVE  RequestsOK([requests EXCEPT ![asker] = Idle])
  BY DEF RequestsOK, Askers, GuardRequests, FormRequests, RobotRequests

LEMMA NavigateKeepsTypes ==
  ASSUME NEW to \in Pages, NEW permission \in Permits \union {None}, NEW requests,
         RequestsOK(requests), SocketInv, StoreInv',
         Navigate(to, permission, requests)
  PROVE  SocketInv' /\ DestInv' /\ RequestsOK(pending')
<1>1. token' \in Token \union {None}
  BY DEF StoreInv
<1>2. CASE Waits(requests)
  <2>1. RequestsOK(pending')
    BY <1>1, <1>2, AskingKeepsRequests DEF Waits
  <2> QED BY <1>2, <2>1, NavigateEnds, StaysKeepsSocketInv DEF Waits
<1>3. CASE Arrives(requests)
  BY <1>1, <1>3, NavigateEnds, StaysKeepsSocketInv, ShownKeepsSocketInv DEF Arrives
<1> QED BY <1>2, <1>3, NavigateEnds

--------------------------------------------------------------------------
(* What every value is.                                                     *)

LEMMA TypeInvInit == Init => TypeInv
<1> SUFFICES ASSUME Init PROVE TypeInv
  OBVIOUS
<1> USE AccessAssumption
<1>1. AccountsInv
  BY DEF Init, AccessInit, AccountsInv
<1>2. StoreInv /\ DestInv
  BY DEF Init, StoreInv, DestInv
<1>3. RequestsOK(pending)
  BY DEF Init, Quiet, RequestsOK, Askers, FormRequests, GuardRequests, RobotRequests
<1>4. SocketInv
  BY DEF Init, AccessInit, SocketInv, NoSession, Pages
<1> QED BY <1>1, <1>2, <1>3, <1>4 DEF TypeInv

\* What the API gives: for a login a token, and for a token, of whatever kind, a permission of
\* the same user.
LEMMA AccessIsPermit ==
  ASSUME AccountsInv, NEW t \in Token \union {None}, NEW robot \in Robots,
         AccessAnswer(t, robot) # Failed
  PROVE  /\ AccessAnswer(t, robot) \in Permits /\ AccessAnswer(t, robot).exp = now + Lifetime
         /\ t \in Token /\ now < t.exp /\ AccessAnswer(t, robot).sub = t.sub
<1> USE AccessAssumption, TokenAssumption
<1>1. CurrentUser(t) # Failed /\ AccessAnswer(t, robot) = NewToken(t.sub, robot)
  BY DEF AccessAnswer
<1>2. t \in Token /\ now < t.exp
  BY <1>1 DEF CurrentUser, Valid
<1> QED BY <1>1, <1>2 DEF NewToken, Permits, Token, AccountsInv

LEMMA LoginIsToken ==
  ASSUME AccountsInv, NEW name \in Users, LoginAnswer(name) # Failed
  PROVE  /\ LoginAnswer(name) \in Token
         /\ LoginAnswer(name).exp = now + Lifetime /\ LoginAnswer(name).sub = name
  BY AccessAssumption DEF LoginAnswer, NewToken, Token, AccountsInv

\* The user that a token stands for is its subject.
LEMMA CurrentUserIsSubject ==
  ASSUME NEW t \in Token, CurrentUser(t) # Failed
  PROVE  CurrentUser(t) = t.sub /\ t.sub \in Users
  BY DEF CurrentUser, Token

\* The time covered never shrinks.
LEMMA CoveringKeepsAccounts ==
  ASSUME AccountsInv, NEW call, NEW answer, CoverBy(call, answer),
         call \in {"login", "access"} => answer.sub \in Users,
         UNCHANGED <<now, rows, joining>>
  PROVE  AccountsInv' /\ \A u \in Users : covered[u] <= covered'[u]
<1> USE AccessAssumption DEF AccountsInv
<1>1. CASE covered' = covered
  BY <1>1
<1>2. CASE answer.sub \in Users /\ covered' = [covered EXCEPT ![answer.sub] = now + Lifetime]
  <2>1. now + Lifetime \in Nat
    OBVIOUS
  <2>2. covered' \in [Users -> Nat]
    BY <1>2, <2>1
  <2>3. \A u \in Users : covered'[u] \in {covered[u], now + Lifetime}
    BY <1>2
  <2> QED BY <2>1, <2>2, <2>3
<1> QED BY <1>1, <1>2 DEF CoverBy

\* What each request is answered with, if it is not refused.
Given(asker, ans) ==
    LET request == pending[asker] IN
    \/ /\ asker = "form" /\ request \in Request({"login"}, Users, Token)
       /\ ans \in Token /\ ans.exp = now + Lifetime
    \/ /\ asker \in {"form", "guard"} /\ request \in Request({"me"}, Token, Users)
       /\ ans \in Users
    \/ /\ asker = "robot" /\ request \in Request({"access"}, Token \union {None}, Permits)
       /\ ans \in Permits /\ ans.exp = now + Lifetime
       /\ request.with \in Token /\ now < request.with.exp /\ ans.sub = request.with.sub

LEMMA ServeGives ==
  ASSUME TypeInv, NEW asker \in Askers, Serve(asker)
  PROVE  \E ans : /\ pending' = [pending EXCEPT ![asker].ans = ans]
                  /\ CoverBy(pending[asker].call, ans) /\ Given(asker, ans)
<1> DEFINE request == pending[asker]
<1> USE AccessAssumption, WaitingAssumption
<1>1. PICK ans : /\ pending' = [pending EXCEPT ![asker].ans = ans] /\ ans # Failed
                 /\ CoverBy(request.call, ans)
                 /\ \/ request.call = "login" /\ ans = LoginAnswer(request.with)
                    \/ request.call = "signup" /\ ans = SignupAnswer(request.with)
                    \/ request.call = "me" /\ ans = CurrentUser(request.with)
                    \/ /\ request.call \notin {"login", "signup", "me"}
                       /\ \E robot \in Robots : ans = AccessAnswer(request.with, robot)
  BY DEF Serve
<1>2. request.ans = Waiting /\ request # Idle
  BY DEF Serve, Idle
<1>3. RequestsOK(pending) /\ AccountsInv
  BY DEF TypeInv
<1>4. CASE asker = "form" /\ request \in Request({"login"}, Users, Token)
  <2>1. ans \in Token /\ ans.exp = now + Lifetime
    BY <1>1, <1>3, <1>4, LoginIsToken DEF Request
  <2> QED BY <1>1, <1>4, <2>1 DEF Given
<1>5. CASE asker \in {"form", "guard"} /\ request \in Request({"me"}, Token, Users)
  <2>1. ans \in Users
    BY <1>1, <1>5, CurrentUserIsSubject DEF Request
  <2> QED BY <1>1, <1>5, <2>1 DEF Given
<1>6. CASE asker = "robot"
  <2>1. request \in Request({"access"}, Token \union {None}, Permits)
    BY <1>2, <1>3, <1>6 DEF RequestsOK, RobotRequests
  <2>2. /\ ans \in Permits /\ ans.exp = now + Lifetime
        /\ request.with \in Token /\ now < request.with.exp /\ ans.sub = request.with.sub
    BY <1>1, <1>3, <2>1, AccessIsPermit DEF Request
  <2> QED BY <1>1, <1>6, <2>1, <2>2 DEF Given
<1>7. ~(request \in Request({"signup"}, {RegisterForm}, {}))
  BY <1>1 DEF SignupAnswer, RegisterForm, UserBase, Request
<1> QED BY <1>2, <1>3, <1>4, <1>5, <1>6, <1>7 DEF Askers, RequestsOK, FormRequests, GuardRequests

LEMMA ServeKeepsTypes ==
  ASSUME TypeInv, NEW asker \in Askers, Serve(asker)
  PROVE  RequestsOK(pending') /\ AccountsInv' /\ \A u \in Users : covered[u] <= covered'[u]
<1> DEFINE request == pending[asker]
<1>1. PICK ans : /\ pending' = [pending EXCEPT ![asker].ans = ans]
                 /\ CoverBy(request.call, ans) /\ Given(asker, ans)
  BY ServeGives
<1>2. RequestsOK(pending) /\ AccountsInv /\ UNCHANGED <<now, rows, joining>>
  BY DEF TypeInv, Serve
<1>3. request.call \in {"login", "access"} => ans.sub \in Users
  BY <1>1 DEF Given, Request, Token, Permits
<1>4. AccountsInv' /\ \A u \in Users : covered[u] <= covered'[u]
  BY <1>1, <1>2, <1>3, CoveringKeepsAccounts
<1>5. CASE asker = "form" /\ request \in Request({"login"}, Users, Token) /\ ans \in Token
  <2>1. [request EXCEPT !.ans = ans] \in Request({"login"}, Users, Token)
    BY <1>5 DEF Request
  <2> QED BY <1>1, <1>2, <1>4, <1>5, <2>1 DEF RequestsOK, Askers, FormRequests
<1>6. CASE /\ asker \in {"form", "guard"} /\ request \in Request({"me"}, Token, Users)
           /\ ans \in Users
  <2>1. [request EXCEPT !.ans = ans] \in Request({"me"}, Token, Users)
    BY <1>6 DEF Request
  <2> QED BY <1>1, <1>2, <1>4, <1>6, <2>1 DEF RequestsOK, Askers, FormRequests, GuardRequests
<1>7. CASE /\ asker = "robot" /\ request \in Request({"access"}, Token \union {None}, Permits)
           /\ ans \in Permits
  <2>1. [request EXCEPT !.ans = ans] \in Request({"access"}, Token \union {None}, Permits)
    BY <1>7 DEF Request
  <2> QED BY <1>1, <1>2, <1>4, <1>7, <2>1 DEF RequestsOK, Askers, RobotRequests
<1> QED BY <1>1, <1>5, <1>6, <1>7 DEF Given

\* A permission is exchanged for another one.
LEMMA RenewKeepsTypes ==
  ASSUME TypeInv, Renew
  PROVE  /\ AccountsInv' /\ SocketInv' /\ \A u \in Users : covered[u] <= covered'[u]
         /\ entry \in Token /\ now < entry.exp /\ CoverBy("access", entry')
         /\ entry'.exp = now + Lifetime /\ entry'.sub = entry.sub
<1>1. /\ status = "connected" /\ entry # None /\ CoverBy("access", entry')
      /\ UNCHANGED <<now, rows, joining, socket, page, status, mounted>>
      /\ \E robot \in Robots : entry' = AccessAnswer(entry, robot) /\ entry' # Failed
  BY DEF Renew
<1>2. AccountsInv /\ SocketInv /\ entry \in Token
  BY <1>1 DEF TypeInv, SocketInv, Permits
<1>3. entry' \in Permits /\ entry'.exp = now + Lifetime /\ now < entry.exp /\ entry'.sub = entry.sub
  BY <1>1, <1>2, AccessIsPermit
<1>4. entry'.sub \in Users /\ entry' # None
  BY <1>3, TokenAssumption DEF Permits, Token
<1>5. AccountsInv' /\ \A u \in Users : covered[u] <= covered'[u]
  BY <1>1, <1>2, <1>4, CoveringKeepsAccounts
<1>6. SocketInv'
  BY <1>1, <1>2, <1>3, <1>4 DEF SocketInv, socket, Frame, OutFrames
<1> QED BY <1>1, <1>2, <1>3, <1>5, <1>6

\* The end of fetchUser leaves a store of the same types.
LEMMA FetchedKeepsTypes ==
  ASSUME StoreInv, NEW request, NEW ans \in Users \union {Failed}, UserFetched(request, ans)
  PROVE  StoreInv'
<1>1. CASE ans = Failed
  BY <1>1 DEF UserFetched, logout, StoreInv
<1>2. CASE ans # Failed
  BY <1>2 DEF UserFetched, StoreInv
<1> QED BY <1>1, <1>2

\* What the browser may get to see of each request.
LEMMA OutcomesTyped ==
  ASSUME RequestsOK(pending)
  PROVE  /\ \A ans \in Outcomes("guard") : ans \in Users \union {Failed}
         /\ \A ans \in Outcomes("robot") : ans \in Permits \union {Failed}
         /\ \A ans \in Outcomes("form") :
               /\ pending["form"].call = "me" => ans \in Users \union {Failed}
               /\ pending["form"].call = "login" => ans \in Token \union {Failed}
  BY WaitingAssumption DEF RequestsOK, Outcomes, FormRequests, GuardRequests, RobotRequests, Request, Idle

LEMMA BrowserKeepsTypes ==
  ASSUME TypeInv,
         \/ PageLoad \/ (\E to \in Pages : Go(to)) \/ Submit \/ Control \/ Logout
         \/ FormAnswered \/ GuardAnswered \/ RobotAnswered
  PROVE  TypeInv'
<1> USE DEF TypeInv
<1>a. ASSUME UNCHANGED api PROVE AccountsInv'
  BY <1>a DEF AccountsInv, api
<1>b. ASSUME UNCHANGED store PROVE StoreInv'
  BY <1>b DEF StoreInv, store
<1>c. ASSUME UNCHANGED <<screen, socket>> PROVE SocketInv' /\ DestInv'
  <2>1. Stays /\ dest' = dest
    BY <1>c DEF Stays, screen
  <2> QED BY <2>1, StaysKeepsSocketInv DEF DestInv
<1>e. entry \in Permits \union {None}
  BY DEF SocketInv
<1>1. ASSUME NEW to \in Pages, Visit(to) PROVE TypeInv'
  <2>1. UNCHANGED <<token, entry, api>> /\ user' = None /\ crossed' = FALSE /\ HangUp
        /\ status' = "disconnected" /\ mounted' = None
    BY <1>1 DEF Visit
  <2>2. StoreInv'
    BY <2>1 DEF StoreInv
  <2>3. CASE token = None
    <3>1. page' = Landing(to, None, None) /\ dest' = None /\ pending' = Quiet
      BY <1>1, <2>3 DEF Visit
    <3>2. Shown
      BY <2>1, <2>3, <3>1, LandingIsAllowed DEF Shown
    <3>3. RequestsOK(pending')
      BY <3>1 DEF Quiet, RequestsOK, Askers, FormRequests, GuardRequests, RobotRequests
    <3>4. SocketInv'
      BY <2>1, <3>2, ShownKeepsSocketInv DEF StoreInv
    <3> QED BY <2>1, <2>2, <3>1, <3>3, <3>4, <1>a DEF DestInv
  <2>4. CASE token # None
    <3>1. /\ page' = "none" /\ dest' = [to |-> to, permission |-> entry]
          /\ pending' = [Quiet EXCEPT !["guard"] = Ask("me", token)]
      BY <1>1, <2>4 DEF Visit
    <3>2. RequestsOK(Quiet) /\ token \in Token
      BY <2>4 DEF Quiet, RequestsOK, Askers, FormRequests, GuardRequests, RobotRequests, StoreInv
    <3>3. RequestsOK(pending')
      BY <3>1, <3>2, AskingKeepsRequests
    <3>4. SocketInv'
      BY <2>1, <3>1 DEF SocketInv, HangUp, NoSession
    <3> QED BY <2>1, <2>2, <3>1, <3>3, <3>4, <1>a, <1>e DEF DestInv
  <2> QED BY <2>3, <2>4
<1>2. ASSUME NEW to \in Pages, Go(to) PROVE TypeInv'
  <2>1. UNCHANGED store /\ UNCHANGED api /\ Navigate(to, entry, pending)
    BY <1>2 DEF Go
  <2> QED BY <2>1, <1>a, <1>b, <1>e, NavigateKeepsTypes
<1>3. CASE Submit
  <2>1. UNCHANGED <<api, socket, screen, store>>
    BY <1>3 DEF Submit
  <2>2. \/ \E name \in Users : pending' = [pending EXCEPT !["form"] = Ask("login", name)]
        \/ pending' = [pending EXCEPT !["form"] = Ask("signup", RegisterForm)]
    BY <1>3 DEF Submit
  <2>3. RequestsOK(pending')
    BY <2>2 DEF RequestsOK, Ask, Askers, FormRequests, GuardRequests, RobotRequests, Request
  <2> QED BY <2>1, <2>3, <1>a, <1>b, <1>c
<1>4. CASE Control
  <2>1. /\ UNCHANGED <<api, socket, screen, store>>
        /\ pending' = [pending EXCEPT !["robot"] = Ask("access", token)]
    BY <1>4 DEF Control
  <2>2. RequestsOK(pending')
    BY <2>1 DEF RequestsOK, Ask, Askers, FormRequests, GuardRequests, RobotRequests, Request, StoreInv
  <2> QED BY <2>1, <2>2, <1>a, <1>b, <1>c
<1>5. CASE Logout
  <2>1. logout /\ UNCHANGED crossed /\ UNCHANGED api /\ Navigate("login", None, pending)
    BY <1>5 DEF Logout
  <2>2. StoreInv'
    BY <2>1 DEF logout, StoreInv
  <2> QED BY <2>1, <2>2, <1>a, NavigateKeepsTypes DEF Pages
<1>6. CASE FormAnswered
  <2> DEFINE requests == [pending EXCEPT !["form"] = Idle]
  <2>1. RequestsOK(requests)
    BY ForgettingKeepsRequests DEF Askers
  <2>2. UNCHANGED api
    BY <1>6 DEF FormAnswered
  <2>3. PICK ans \in Outcomes("form") :
           \/ /\ pending["form"].call = "me" /\ UserFetched(pending["form"], ans)
              /\ Navigate("dashboard", None, requests)
           \/ /\ pending["form"].call = "login" /\ ans # Failed /\ token' = ans
              /\ pending' = [pending EXCEPT !["form"] = Ask("me", ans)]
              /\ UNCHANGED <<user, crossed, screen, socket>>
           \/ pending' = requests /\ UNCHANGED <<store, screen, socket>>
    BY <1>6 DEF FormAnswered
  <2> HIDE DEF requests
  <2>4. CASE /\ pending["form"].call = "me" /\ UserFetched(pending["form"], ans)
             /\ Navigate("dashboard", None, requests)
    <3>1. StoreInv'
      BY <2>4, OutcomesTyped, FetchedKeepsTypes
    <3> QED BY <2>1, <2>2, <2>4, <3>1, <1>a, NavigateKeepsTypes DEF Pages
  <2>5. CASE /\ pending["form"].call = "login" /\ ans # Failed /\ token' = ans
             /\ pending' = [pending EXCEPT !["form"] = Ask("me", ans)]
             /\ UNCHANGED <<user, crossed, screen, socket>>
    <3>1. ans \in Token
      BY <2>5, OutcomesTyped
    <3>2. StoreInv'
      BY <2>5, <3>1 DEF StoreInv
    <3>3. RequestsOK(pending')
      BY <2>5, <3>1 DEF RequestsOK, Ask, Askers, FormRequests, GuardRequests, RobotRequests, Request
    <3> QED BY <2>2, <2>5, <3>2, <3>3, <1>a, <1>c
  <2>6. CASE pending' = requests /\ UNCHANGED <<store, screen, socket>>
    BY <2>1, <2>2, <2>6, <1>a, <1>b, <1>c
  <2> QED BY <2>3, <2>4, <2>5, <2>6
<1>7. CASE GuardAnswered
  <2> DEFINE requests == [pending EXCEPT !["guard"] = Idle]
  <2>1. RequestsOK(requests)
    BY ForgettingKeepsRequests DEF Askers
  <2>2. /\ UNCHANGED api /\ \E ans \in Outcomes("guard") : UserFetched(pending["guard"], ans)
        /\ IF dest = None THEN pending' = requests /\ UNCHANGED <<screen, socket>>
           ELSE Navigate(dest.to, dest.permission, requests)
    BY <1>7 DEF GuardAnswered
  <2> HIDE DEF requests
  <2>3. StoreInv'
    BY <2>2, OutcomesTyped, FetchedKeepsTypes
  <2>4. CASE dest = None
    BY <2>1, <2>2, <2>3, <2>4, <1>a, <1>c
  <2>5. CASE dest # None
    <3>1. dest.to \in Pages /\ dest.permission \in Permits \union {None}
      BY <2>5 DEF DestInv
    <3> QED BY <2>1, <2>2, <2>3, <2>5, <3>1, <1>a, NavigateKeepsTypes
  <2> QED BY <2>4, <2>5
<1>8. CASE RobotAnswered
  <2> DEFINE requests == [pending EXCEPT !["robot"] = Idle]
  <2>1. RequestsOK(requests)
    BY ForgettingKeepsRequests DEF Askers
  <2>2. UNCHANGED <<store, api>>
    BY <1>8 DEF RobotAnswered
  <2>3. PICK ans \in Outcomes("robot") :
           \/ pending' = requests /\ UNCHANGED <<screen, socket>>
           \/ ans # Failed /\ Navigate("robot", ans, requests)
    BY <1>8 DEF RobotAnswered
  <2> HIDE DEF requests
  <2>4. StoreInv'
    BY <2>2, <1>b
  <2>5. CASE pending' = requests /\ UNCHANGED <<screen, socket>>
    BY <2>1, <2>2, <2>4, <2>5, <1>a, <1>c
  <2>6. CASE ans # Failed /\ Navigate("robot", ans, requests)
    <3>1. ans \in Permits \union {None} /\ "robot" \in Pages
      BY <2>3, <2>6, OutcomesTyped DEF Pages
    <3> QED BY <2>1, <2>2, <2>4, <2>6, <3>1, <1>a, NavigateKeepsTypes
  <2> QED BY <2>3, <2>5, <2>6
<1> QED BY <1>1, <1>2, <1>3, <1>4, <1>5, <1>6, <1>7, <1>8 DEF PageLoad

LEMMA MessagesKeepTheirType ==
  ASSUME NEW message \in Messages
  PROVE  /\ RobotCommandExtended(message) \in Messages \union {None}
         /\ Response(JsonRpcCommand(message)) \in OutFrames
         /\ to_jsonrpc \in OutFrames /\ SuccessAuth \in OutFrames
<1>1. RobotCommandExtended(message) \in Messages \union {None}
  BY DEF Messages, RobotCommandExtended
<1>2. JsonRpcCommand(message).id \in {"id", None}
  BY DEF Messages, JsonRpcCommand
<1> QED BY <1>1, <1>2 DEF Response, OutFrames, to_jsonrpc, SuccessAuth

LEMMA SayingKeepsType ==
  ASSUME outward \in Seq(OutFrames), NEW answer \in OutFrames, Say(answer)
  PROVE  outward' \in Seq(OutFrames)
  BY DEF Say

\* The API's end of the socket.
LEMMA ApiSocketKeepsTypes ==
  ASSUME SocketInv, Authenticate \/ HandleCommand \/ Feedback \/ EndSession,
         UNCHANGED <<status, mounted, page, entry>>
  PROVE  SocketInv'
<1>0. to_jsonrpc \in OutFrames /\ SuccessAuth \in OutFrames
  <2>1. -32603 \in Int
    OBVIOUS
  <2> QED BY <2>1 DEF to_jsonrpc, SuccessAuth, OutFrames
<1> USE DEF SocketInv
<1>1. CASE Authenticate
  <2>1. /\ session.state = "waiting" /\ UNCHANGED owed /\ inward' \in {None, inward}
        /\ \/ /\ inward # None /\ inward' = None
              /\ session' = [state |-> "open", user |-> inward.token.sub] /\ Say(SuccessAuth)
           \/ session' = [state |-> "closed", user |-> None] /\ Say(to_jsonrpc)
    BY <1>1 DEF Authenticate
  <2>2. outward' \in Seq(OutFrames)
    BY <1>0, <2>1, SayingKeepsType
  <2>3. inward # None => inward.token.sub \in Users
    BY DEF Frame, Token
  <2>4. session' \in [state : {"none", "waiting", "open", "closed"}, user : Users \union {None}]
    BY <2>1, <2>3
  <2> QED BY <2>1, <2>2, <2>4
<1>2. CASE HandleCommand
  <2>1. /\ session.state = "open" /\ inward # None /\ inward' = None /\ UNCHANGED session
        /\ \/ owed' = RobotCommandExtended(inward.message) /\ UNCHANGED outward
           \/ Say(to_jsonrpc) /\ UNCHANGED owed
    BY <1>2 DEF HandleCommand
  <2>2. inward.message \in Messages
    BY <2>1
  <2>3. outward' \in Seq(OutFrames)
    BY <1>0, <2>1, SayingKeepsType
  <2>4. owed' \in Messages \union {None}
    BY <2>1, <2>2, MessagesKeepTheirType
  <2> QED BY <2>1, <2>3, <2>4
<1>3. CASE Feedback
  <2>1. /\ session.state = "open" /\ owed # None /\ owed' = None
        /\ Say(Response(JsonRpcCommand(owed))) /\ UNCHANGED <<session, inward>>
    BY <1>3 DEF Feedback
  <2>2. Response(JsonRpcCommand(owed)) \in OutFrames
    BY <2>1, MessagesKeepTheirType
  <2>3. outward' \in Seq(OutFrames)
    BY <2>1, <2>2, SayingKeepsType
  <2> QED BY <2>1, <2>3
<1>4. CASE EndSession
  BY <1>4 DEF EndSession
<1> QED BY <1>1, <1>2, <1>3, <1>4

\* The page's end of it.
LEMMA PageSocketKeepsTypes ==
  ASSUME SocketInv, WsOpen \/ WsFail \/ Receive \/ CloseSeen \/ SendCommand
  PROVE  SocketInv'
<1> USE DEF SocketInv, Rest
<1>1. CASE WsOpen
  <2> DEFINE frame == [kind |-> "auth", token |-> mounted, robot |-> None, message |-> None]
  <2>1. /\ session.state = "none" /\ mounted \in Token /\ outward = <<>>
        /\ page = "robot" /\ entry # None
    BY <1>1 DEF WsOpen
  <2>2. /\ status' = "authenticating" /\ mounted' = None /\ UNCHANGED <<page, entry>>
        /\ session' = [state |-> "waiting", user |-> None]
        /\ inward' = frame /\ UNCHANGED <<outward, owed>>
    BY <1>1 DEF WsOpen, Accept
  <2>3. frame \in Frame /\ frame.kind = "auth"
    BY <2>1 DEF Frame
  <2> QED BY <2>1, <2>2, <2>3
<1>2. CASE WsFail
  BY <1>2 DEF WsFail, socket
<1>3. CASE Receive
  <2>1. /\ outward # <<>> /\ outward' = Tail(outward)
        /\ status' \in {status, "connected", "error"}
        /\ status # "authenticating" => status' = status
        /\ UNCHANGED <<session, inward, owed, mounted, page, entry>>
    BY <1>3 DEF Receive
  <2>2. outward' \in Seq(OutFrames) /\ session.state # "none"
    BY <2>1
  <2> QED BY <2>1, <2>2
<1>4. CASE CloseSeen
  BY <1>4 DEF CloseSeen, socket
<1>5. CASE SendCommand
  <2>1. PICK command \in Commands :
           inward' = [kind |-> "command", token |-> entry, robot |-> entry.robot, message |-> command]
    BY <1>5 DEF SendCommand
  <2>2. /\ status = "connected" /\ session.state = "open"
        /\ UNCHANGED <<session, outward, owed, status, mounted, page, entry>>
    BY <1>5 DEF SendCommand
  <2>3. entry \in Permits /\ command \in Messages
    BY <2>2, AccessAssumption
  <2>4. inward' \in Frame /\ inward'.kind = "command" /\ inward'.token \in Permits
        /\ inward'.message \in Messages
    BY <2>1, <2>3 DEF Frame, Permits, Token
  <2> QED BY <2>2, <2>4
<1> QED BY <1>1, <1>2, <1>3, <1>4, <1>5

LEMMA TypeInvNext == TypeInv /\ [Next]_vars => TypeInv'
<1> SUFFICES ASSUME TypeInv, [Next]_vars PROVE TypeInv'
  OBVIOUS
<1> USE DEF TypeInv
<1>a. ASSUME UNCHANGED api PROVE AccountsInv'
  BY <1>a DEF AccountsInv, api
<1>b. ASSUME UNCHANGED store PROVE StoreInv'
  BY <1>b DEF StoreInv, store
<1>c. ASSUME UNCHANGED <<screen, socket>> PROVE SocketInv' /\ DestInv'
  <2>1. Stays /\ dest' = dest
    BY <1>c DEF Stays, screen
  <2> QED BY <2>1, StaysKeepsSocketInv DEF DestInv
<1>d. ASSUME UNCHANGED <<api, store, pending, dest>>, SocketInv' PROVE TypeInv'
  BY <1>a, <1>b, <1>d DEF DestInv
<1>1. CASE \/ PageLoad \/ (\E to \in Pages : Go(to)) \/ Submit \/ Control \/ Logout
           \/ FormAnswered \/ GuardAnswered \/ RobotAnswered
  BY <1>1, BrowserKeepsTypes
<1>2. ASSUME NEW asker \in Askers, Serve(asker) PROVE TypeInv'
  <2>1. UNCHANGED <<socket, screen, store>>
    BY <1>2 DEF Serve
  <2> QED BY <1>2, <2>1, <1>b, <1>c, ServeKeepsTypes
<1>3. CASE Connection \/ SendCommand
  <2>1. UNCHANGED <<api, store, pending, dest>>
    BY <1>3 DEF Connection, SendCommand, WsOpen, WsFail, Receive, CloseSeen, Rest
  <2>2. CASE WsOpen \/ WsFail \/ Receive \/ CloseSeen \/ SendCommand
    BY <2>1, <2>2, <1>d, PageSocketKeepsTypes
  <2>3. CASE Authenticate /\ UNCHANGED <<status, mounted>> /\ Rest
    BY <2>1, <2>3, <1>d, ApiSocketKeepsTypes DEF Rest
  <2> QED BY <1>3, <2>2, <2>3 DEF Connection
<1>4. CASE ApiSocket
  <2>1. UNCHANGED <<api, store, pending, dest>> /\ UNCHANGED <<status, mounted, page, entry>>
    BY <1>4 DEF ApiSocket, Rest
  <2> QED BY <1>4, <2>1, <1>d, ApiSocketKeepsTypes DEF ApiSocket
<1>5. CASE ApiAccounts
  <2>1. UNCHANGED <<socket, screen, store, pending>>
    BY <1>5 DEF ApiAccounts
  <2>2. AccountsInv'
    <3>1. CASE Tick
      BY <3>1, AccessAssumption DEF Tick, AccountsInv
    <3>2. ASSUME NEW name \in Users, Join(name) PROVE AccountsInv'
      BY <3>2, AccessAssumption DEF Join, AccountsInv
    <3>3. ASSUME NEW name \in Users, InsertUser(name) PROVE AccountsInv'
      BY <3>3, AccessAssumption DEF InsertUser, AccountsInv
    <3> QED BY <1>5, <3>1, <3>2, <3>3 DEF ApiAccounts
  <2> QED BY <2>1, <2>2, <1>b, <1>c
<1>6. CASE UNCHANGED vars
  <2>1. UNCHANGED <<api, socket, screen, store, pending>>
    BY <1>6 DEF vars
  <2> QED BY <2>1, <1>a, <1>b, <1>c
<1>7. CASE Renew
  <2>1. UNCHANGED <<store, pending, dest>>
    BY <1>7 DEF Renew
  <2> QED BY <1>7, <2>1, <1>b, RenewKeepsTypes DEF DestInv
<1> QED BY <1>1, <1>2, <1>3, <1>4, <1>5, <1>6, <1>7 DEF Next

\* Whatever the users do and however answers overlap, every value keeps its type, and what is
\* taken for a permission names a robot.
THEOREM UserPathTypes == Spec => []TypeInv
  BY TypeInvInit, TypeInvNext, PTL DEF Spec

\* The type invariant of the run.
THEOREM UserPathTypeOK == Spec => []TypeOK
<1>1. TypeInv => TypeOK
  <2> SUFFICES ASSUME TypeInv PROVE TypeOK
    OBVIOUS
  <2>1. AccessTypeOK
    <3>1. covered \in [Users -> 0 .. MaxTime + Lifetime]
      BY AccessAssumption DEF TypeInv, AccountsInv
    <3> QED BY <3>1 DEF TypeInv, AccountsInv, SocketInv, AccessTypeOK, OutFrames
  <2>2. /\ pending["form"] \in {Idle} \union Request({"login"}, Users, Token)
               \union Request({"signup"}, {RegisterForm}, {}) \union Request({"me"}, Token, Users)
        /\ pending["guard"] \in {Idle} \union Request({"me"}, Token, Users)
        /\ pending["robot"] \in {Idle} \union Request({"access"}, Token \union {None}, Token)
    BY DEF TypeInv, RequestsOK, FormRequests, GuardRequests, RobotRequests, Request, Permits
  <2>3. dest \in [to : Pages, permission : Token \union {None}] \union {None}
    BY DEF TypeInv, DestInv, Permits
  <2> QED BY <2>1, <2>2, <2>3 DEF TypeInv, StoreInv, SocketInv, Permits, TypeOK
<1> QED BY <1>1, UserPathTypes, PTL

--------------------------------------------------------------------------
(* Accounts and commands.                                                   *)

\* What the browser does to the socket: nothing, or it closes it.
LEMMA BrowserClosesOnly ==
  ASSUME TypeInv,
         \/ PageLoad \/ (\E to \in Pages : Go(to)) \/ Submit \/ Control \/ Logout
         \/ FormAnswered \/ GuardAnswered \/ RobotAnswered
         \/ (\E asker \in Askers : Serve(asker)) \/ Renew
  PROVE  (UNCHANGED socket \/ HangUp) /\ UNCHANGED <<now, rows, joining>>
<1> USE DEF TypeInv
<1>1. ASSUME NEW to, NEW permission, NEW requests, Navigate(to, permission, requests)
      PROVE  UNCHANGED socket \/ HangUp
  BY <1>1 DEF Navigate, Show
<1>2. CASE PageLoad
  BY <1>2 DEF PageLoad, Visit, api
<1>3. CASE \E to \in Pages : Go(to)
  BY <1>1, <1>3 DEF Go, api
<1>4. CASE Submit \/ Control \/ (\E asker \in Askers : Serve(asker)) \/ Renew
  BY <1>4 DEF Submit, Control, Serve, Renew, api
<1>5. CASE Logout
  BY <1>1, <1>5 DEF Logout, api
<1>6. CASE FormAnswered
  BY <1>1, <1>6 DEF FormAnswered, api
<1>7. CASE GuardAnswered
  BY <1>1, <1>7 DEF GuardAnswered, api
<1>8. CASE RobotAnswered
  BY <1>1, <1>8 DEF RobotAnswered, api
<1> QED BY <1>2, <1>3, <1>4, <1>5, <1>6, <1>7, <1>8

LEMMA NamesStayUnique == TypeInv /\ UniqueUserNames /\ [Next]_vars => UniqueUserNames'
<1> SUFFICES ASSUME TypeInv, UniqueUserNames, [Next]_vars PROVE UniqueUserNames'
  OBVIOUS
<1>1. ASSUME rows' = rows PROVE UniqueUserNames'
  BY <1>1 DEF UniqueUserNames
<1>2. CASE ApiAccounts
  <2>1. CASE Tick
    BY <2>1 DEF Tick, UniqueUserNames
  <2>2. ASSUME NEW name \in Users, Join(name) PROVE UniqueUserNames'
    BY <2>2 DEF Join, UniqueUserNames
  <2>3. ASSUME NEW name \in Users, InsertUser(name) PROVE UniqueUserNames'
    BY <2>3 DEF InsertUser, Accepted, UniqueUserNames, TypeInv, AccountsInv
  <2> QED BY <1>2, <2>1, <2>2, <2>3 DEF ApiAccounts
<1>3. CASE Connection \/ SendCommand \/ ApiSocket \/ UNCHANGED vars
  BY <1>1, <1>3 DEF Connection, SendCommand, WsOpen, WsFail, Receive, CloseSeen, Rest, ApiSocket, vars, api
<1>4. CASE \/ PageLoad \/ (\E to \in Pages : Go(to)) \/ Submit \/ Control \/ Logout
           \/ FormAnswered \/ GuardAnswered \/ RobotAnswered
           \/ (\E asker \in Askers : Serve(asker)) \/ Renew
  BY <1>1, <1>4, BrowserClosesOnly
<1> QED BY <1>2, <1>3, <1>4 DEF Next

\* Among any number of concurrent sign-ups at most one gets a user name.
THEOREM UserNamesAreUnique == Spec => []UniqueUserNames
<1>1. Init => UniqueUserNames
  BY DEF Init, AccessInit, UniqueUserNames
<1> QED BY <1>1, NamesStayUnique, UserPathTypes, PTL DEF Spec

\* No token anybody holds, or is about to get, outlives the time its user is covered for.
Timely(t, until) == t # None => t.exp <= until[t.sub]

RequestsTimely(requests, until) ==
    \A asker \in Askers :
        /\ requests[asker].call \in {"me", "access"} => Timely(requests[asker].with, until)
        /\ requests[asker].call \in {"login", "access"} /\ requests[asker].ans # Waiting
              => Timely(requests[asker].ans, until)

CoverInv ==
    /\ Timely(token, covered) /\ Timely(entry, covered) /\ Timely(mounted, covered)
    /\ dest # None => Timely(dest.permission, covered)
    /\ inward # None => Timely(inward.token, covered)
    /\ RequestsTimely(pending, covered)

\* A navigation passes on the tokens there are.
LEMMA NavigatingKeepsCover ==
  ASSUME CoverInv, Timely(token', covered), covered' = covered,
         NEW to, NEW permission, Timely(permission, covered),
         NEW requests, RequestsTimely(requests, covered), DOMAIN requests = Askers,
         Navigate(to, permission, requests)
  PROVE  CoverInv'
<1>0. Timely(None, covered)
  BY DEF Timely
<1>1. CASE token' # None /\ user' = None
  <2>1. /\ pending' = [requests EXCEPT !["guard"] = Ask("me", token')]
        /\ dest' = [to |-> to, permission |-> permission]
        /\ UNCHANGED <<entry, mounted, inward>>
    BY <1>1 DEF Navigate, socket
  <2>2. RequestsTimely(pending', covered)
    BY <2>1 DEF RequestsTimely, Ask, Askers
  <2> QED BY <2>1, <2>2 DEF CoverInv
<1>2. CASE ~(token' # None /\ user' = None)
  <2>1. /\ pending' = requests /\ dest' = None
        /\ entry' \in {entry, permission} /\ mounted' \in {mounted, token', None}
        /\ inward' \in {inward, None}
    BY <1>2 DEF Navigate, Show, HangUp, socket
  <2> QED BY <1>0, <2>1 DEF CoverInv
<1> QED BY <1>1, <1>2

LEMMA ForgettingIsTimely ==
  ASSUME NEW requests, NEW until, DOMAIN requests = Askers, RequestsTimely(requests, until), NEW asker \in Askers
  PROVE  /\ RequestsTimely([requests EXCEPT ![asker] = Idle], until)
         /\ DOMAIN [requests EXCEPT ![asker] = Idle] = Askers
  BY DEF RequestsTimely, Idle

LEMMA BrowserKeepsCover ==
  ASSUME TypeInv, CoverInv,
         \/ PageLoad \/ (\E to \in Pages : Go(to)) \/ Submit \/ Control \/ Logout
         \/ FormAnswered \/ GuardAnswered \/ RobotAnswered
  PROVE  CoverInv'
<1>0. /\ Timely(None, covered) /\ DOMAIN pending = Askers /\ RequestsTimely(pending, covered)
      /\ Timely(token, covered) /\ Timely(entry, covered)
  BY DEF Timely, TypeInv, RequestsOK, CoverInv
<1>c. ASSUME UNCHANGED <<api, screen, socket>>, Timely(token', covered), RequestsTimely(pending', covered)
      PROVE  CoverInv'
  BY <1>c DEF CoverInv, api, screen, socket
<1>f. ASSUME NEW asker \in {"form", "guard"}, NEW ans, UserFetched(pending[asker], ans)
      PROVE  Timely(token', covered)
  BY <1>0, <1>f DEF UserFetched, logout
<1>1. ASSUME NEW to \in Pages, Visit(to) PROVE CoverInv'
  <2>1. /\ token' = token /\ entry' = entry /\ covered' = covered /\ mounted' = None /\ inward' = None
        /\ \/ pending' = Quiet /\ dest' = None
           \/ pending' = [Quiet EXCEPT !["guard"] = Ask("me", token)] /\ dest' = [to |-> to, permission |-> entry]
    BY <1>1 DEF Visit, HangUp, api
  <2>2. RequestsTimely(pending', covered)
    BY <1>0, <2>1 DEF RequestsTimely, Quiet, Idle, Ask, Askers
  <2> QED BY <1>0, <2>1, <2>2 DEF CoverInv
<1>2. ASSUME NEW to \in Pages, Go(to) PROVE CoverInv'
  BY <1>0, <1>2, NavigatingKeepsCover DEF Go, api, store
<1>3. CASE Submit
  <2>1. UNCHANGED <<api, screen, socket>> /\ token' = token
    BY <1>3 DEF Submit, store
  <2>2. \/ \E name \in Users : pending' = [pending EXCEPT !["form"] = Ask("login", name)]
        \/ pending' = [pending EXCEPT !["form"] = Ask("signup", RegisterForm)]
    BY <1>3 DEF Submit
  <2>3. RequestsTimely(pending', covered)
    BY <1>0, <2>2 DEF RequestsTimely, Ask, Askers
  <2> QED BY <1>0, <1>c, <2>1, <2>3
<1>4. CASE Control
  <2>1. UNCHANGED <<api, screen, socket>> /\ token' = token
    BY <1>4 DEF Control, store
  <2>2. pending' = [pending EXCEPT !["robot"] = Ask("access", token)]
    BY <1>4 DEF Control
  <2>3. RequestsTimely(pending', covered)
    BY <1>0, <2>2 DEF RequestsTimely, Ask, Askers
  <2> QED BY <1>0, <1>c, <2>1, <2>3
<1>5. CASE Logout
  <2>1. token' = None /\ covered' = covered /\ Navigate("login", None, pending)
    BY <1>5 DEF Logout, logout, api
  <2> QED BY <1>0, <2>1, NavigatingKeepsCover
<1>6. CASE FormAnswered
  <2> DEFINE requests == [pending EXCEPT !["form"] = Idle]
  <2>1. RequestsTimely(requests, covered) /\ DOMAIN requests = Askers
    BY <1>0, ForgettingIsTimely DEF Askers
  <2>2. UNCHANGED api
    BY <1>6 DEF FormAnswered
  <2>3. PICK ans \in Outcomes("form") :
           \/ /\ pending["form"].call = "me" /\ UserFetched(pending["form"], ans)
              /\ Navigate("dashboard", None, requests)
           \/ /\ pending["form"].call = "login" /\ ans # Failed /\ token' = ans
              /\ pending' = [pending EXCEPT !["form"] = Ask("me", ans)]
              /\ UNCHANGED <<user, crossed, screen, socket>>
           \/ pending' = requests /\ UNCHANGED <<store, screen, socket>>
    BY <1>6 DEF FormAnswered
  <2> HIDE DEF requests
  <2>4. CASE /\ pending["form"].call = "me" /\ UserFetched(pending["form"], ans)
             /\ Navigate("dashboard", None, requests)
    BY <1>0, <1>f, <2>1, <2>2, <2>4, NavigatingKeepsCover DEF api
  <2>5. CASE /\ pending["form"].call = "login" /\ ans # Failed /\ token' = ans
             /\ pending' = [pending EXCEPT !["form"] = Ask("me", ans)]
             /\ UNCHANGED <<user, crossed, screen, socket>>
    <3>1. ans = pending["form"].ans /\ ans # Waiting
      BY <2>5 DEF Outcomes
    <3>2. Timely(ans, covered)
      BY <1>0, <2>5, <3>1 DEF RequestsTimely, Askers
    <3>3. RequestsTimely(pending', covered)
      BY <1>0, <2>5, <3>2 DEF RequestsTimely, Ask, Askers
    <3> QED BY <1>c, <2>2, <2>5, <3>2, <3>3
  <2>6. CASE pending' = requests /\ UNCHANGED <<store, screen, socket>>
    BY <1>0, <1>c, <2>1, <2>2, <2>6 DEF store
  <2> QED BY <2>3, <2>4, <2>5, <2>6
<1>7. CASE GuardAnswered
  <2> DEFINE requests == [pending EXCEPT !["guard"] = Idle]
  <2>1. RequestsTimely(requests, covered) /\ DOMAIN requests = Askers
    BY <1>0, ForgettingIsTimely DEF Askers
  <2>2. /\ UNCHANGED api /\ \E ans : UserFetched(pending["guard"], ans)
        /\ IF dest = None THEN pending' = requests /\ UNCHANGED <<screen, socket>>
           ELSE Navigate(dest.to, dest.permission, requests)
    BY <1>7 DEF GuardAnswered
  <2> HIDE DEF requests
  <2>3. Timely(token', covered)
    BY <1>f, <2>2
  <2>4. CASE dest = None
    BY <1>c, <2>1, <2>2, <2>3, <2>4
  <2>5. CASE dest # None
    BY <2>1, <2>2, <2>3, <2>5, NavigatingKeepsCover DEF CoverInv, api
  <2> QED BY <2>4, <2>5
<1>8. CASE RobotAnswered
  <2> DEFINE requests == [pending EXCEPT !["robot"] = Idle]
  <2>1. RequestsTimely(requests, covered) /\ DOMAIN requests = Askers
    BY <1>0, ForgettingIsTimely DEF Askers
  <2>2. UNCHANGED <<store, api>>
    BY <1>8 DEF RobotAnswered
  <2>3. PICK ans \in Outcomes("robot") :
           \/ pending' = requests /\ UNCHANGED <<screen, socket>>
           \/ ans # Failed /\ Navigate("robot", ans, requests)
    BY <1>8 DEF RobotAnswered
  <2> HIDE DEF requests
  <2>4. CASE pending' = requests /\ UNCHANGED <<screen, socket>>
    BY <1>0, <1>c, <2>1, <2>2, <2>4 DEF store
  <2>5. CASE ans # Failed /\ Navigate("robot", ans, requests)
    <3>1. ans = pending["robot"].ans /\ ans # Waiting /\ pending["robot"] # Idle
      BY <2>3, <2>5 DEF Outcomes
    <3>2. pending["robot"].call = "access"
      BY <3>1 DEF TypeInv, RequestsOK, RobotRequests, Request
    <3>3. Timely(ans, covered)
      BY <1>0, <3>1, <3>2 DEF RequestsTimely, Askers
    <3> QED BY <1>0, <2>1, <2>2, <2>5, <3>3, NavigatingKeepsCover DEF store, api
  <2> QED BY <2>3, <2>4, <2>5
<1> QED BY <1>1, <1>2, <1>3, <1>4, <1>5, <1>6, <1>7, <1>8 DEF PageLoad

\* What is timely stays so while the time covered does not shrink.
LEMMA StaysTimely ==
  ASSUME AccountsInv, AccountsInv', \A u \in Users : covered[u] <= covered'[u],
         NEW t \in Token \union {None}, Timely(t, covered)
  PROVE  Timely(t, covered')
  BY DEF Timely, Token, AccountsInv

LEMMA RequestsStayTimely ==
  ASSUME AccountsInv, AccountsInv', \A u \in Users : covered[u] <= covered'[u],
         RequestsOK(pending), RequestsTimely(pending, covered)
  PROVE  RequestsTimely(pending, covered')
<1>1. ASSUME NEW asker \in Askers
      PROVE  /\ pending[asker].call \in {"me", "access"} => pending[asker].with \in Token \union {None}
             /\ pending[asker].call \in {"login", "access"} =>
                   pending[asker].ans \in Token \union {Waiting}
  BY DEF RequestsOK, Askers, FormRequests, GuardRequests, RobotRequests, Request, Idle, Permits
<1> QED BY <1>1, StaysTimely DEF RequestsTimely

LEMMA CoverStays ==
  ASSUME TypeInv, CoverInv, [Next]_vars
  PROVE  CoverInv'
<1>0. AccountsInv /\ RequestsOK(pending) /\ SocketInv /\ DestInv /\ StoreInv
  BY DEF TypeInv
<1>a. ASSUME AccountsInv', \A u \in Users : covered[u] <= covered'[u]
      PROVE  /\ Timely(token, covered') /\ Timely(entry, covered') /\ Timely(mounted, covered')
             /\ dest # None => Timely(dest.permission, covered')
             /\ inward # None => Timely(inward.token, covered')
             /\ RequestsTimely(pending, covered')
  <2>1. /\ token \in Token \union {None} /\ entry \in Token \union {None} /\ mounted \in Token \union {None}
        /\ dest # None => dest.permission \in Token \union {None}
        /\ inward # None => inward.token \in Token
    BY <1>0 DEF StoreInv, SocketInv, DestInv, Frame, Permits
  <2> QED BY <1>0, <1>a, <2>1, StaysTimely, RequestsStayTimely DEF CoverInv
<1>1. CASE \/ PageLoad \/ (\E to \in Pages : Go(to)) \/ Submit \/ Control \/ Logout
           \/ FormAnswered \/ GuardAnswered \/ RobotAnswered
  BY <1>1, BrowserKeepsCover
<1>2. ASSUME NEW asker \in Askers, Serve(asker) PROVE CoverInv'
  <2>1. PICK ans : /\ pending' = [pending EXCEPT ![asker].ans = ans]
                   /\ CoverBy(pending[asker].call, ans) /\ Given(asker, ans)
    BY <1>2, ServeGives
  <2>2. AccountsInv' /\ \A u \in Users : covered[u] <= covered'[u]
    BY <1>2, ServeKeepsTypes
  <2>3. UNCHANGED <<token, entry, mounted, dest, inward>>
    BY <1>2 DEF Serve, socket, screen, store
  <2>4. pending[asker].call \in {"login", "access"} => Timely(ans, covered')
    <3>1. CASE pending[asker].call = "login"
      <4>1. ans.sub \in Users /\ ans.exp = now + Lifetime
        BY <2>1, <3>1 DEF Given, Request, Token
      <4>2. covered' = [covered EXCEPT ![ans.sub] = now + Lifetime]
        BY <2>1, <3>1 DEF CoverBy
      <4> QED BY <1>0, <4>1, <4>2, AccessAssumption DEF Timely, AccountsInv
    <3>2. CASE pending[asker].call = "access"
      <4>1. /\ ans.exp = now + Lifetime /\ pending[asker].with \in Token
            /\ now < pending[asker].with.exp /\ ans.sub = pending[asker].with.sub
        BY <2>1, <3>2 DEF Given, Request
      <4>2. Timely(pending[asker].with, covered)
        BY <3>2 DEF CoverInv, RequestsTimely
      <4>3. ans.sub \in Users /\ now < covered[ans.sub]
        BY <1>0, <4>1, <4>2, TokenAssumption DEF Timely, Token, AccountsInv
      <4>4. covered' = [covered EXCEPT ![ans.sub] = now + Lifetime]
        BY <2>1, <3>2, <4>3 DEF CoverBy
      <4> QED BY <1>0, <4>1, <4>3, <4>4, AccessAssumption DEF Timely, AccountsInv
    <3> QED BY <3>1, <3>2
  <2>5. RequestsTimely(pending', covered')
    <3>1. RequestsTimely(pending, covered') /\ DOMAIN pending = Askers
      BY <1>0, <1>a, <2>2 DEF RequestsOK
    <3>2. \A other \in Askers : /\ pending'[other].call = pending[other].call
                                /\ pending'[other].with = pending[other].with
                                /\ other # asker => pending'[other].ans = pending[other].ans
                                /\ other = asker => pending'[other].ans \in {ans, pending[other].ans}
      <4>1. \A other \in Askers : other # asker => pending'[other] = pending[other]
        BY <2>1, <3>1
      <4>2. pending'[asker] = [pending[asker] EXCEPT !.ans = ans]
        BY <2>1, <3>1
      <4>3. /\ pending'[asker].call = pending[asker].call /\ pending'[asker].with = pending[asker].with
            /\ pending'[asker].ans \in {ans, pending[asker].ans}
        BY <4>2
      <4> QED BY <4>1, <4>3
    <3> QED BY <2>4, <3>1, <3>2 DEF RequestsTimely
  <2> QED BY <1>a, <2>2, <2>3, <2>5 DEF CoverInv
<1>3. CASE Renew
  <2>1. /\ AccountsInv' /\ \A u \in Users : covered[u] <= covered'[u]
        /\ entry \in Token /\ now < entry.exp /\ CoverBy("access", entry')
        /\ entry'.exp = now + Lifetime /\ entry'.sub = entry.sub
    BY <1>3, RenewKeepsTypes
  <2>2. UNCHANGED <<token, mounted, dest, inward, pending>>
    BY <1>3 DEF Renew, socket, store
  <2>3. entry.sub \in Users /\ now < covered[entry.sub]
    BY <1>0, <2>1, TokenAssumption DEF CoverInv, Timely, Token, AccountsInv
  <2>4. covered' = [covered EXCEPT ![entry.sub] = now + Lifetime]
    BY <2>1, <2>3 DEF CoverBy
  <2>5. Timely(entry', covered')
    BY <1>0, <2>1, <2>3, <2>4, AccessAssumption DEF Timely, AccountsInv
  <2> QED BY <1>a, <2>1, <2>2, <2>5 DEF CoverInv
<1>4. CASE Connection \/ SendCommand \/ ApiSocket
  <2>1. UNCHANGED <<covered, token, entry, dest, pending>>
    BY <1>4 DEF Connection, SendCommand, ApiSocket, WsOpen, WsFail, Receive, CloseSeen, Rest, api, store
  <2>2. mounted' \in {mounted, None}
    BY <1>4 DEF Connection, SendCommand, ApiSocket, WsOpen, WsFail, Receive, CloseSeen
  <2>3. \/ inward' \in {None, inward}
        \/ inward'.token \in {mounted, entry}
    <3>1. CASE WsOpen
      BY <3>1 DEF WsOpen, Accept
    <3>2. CASE SendCommand
      BY <3>2 DEF SendCommand
    <3>3. CASE WsFail \/ CloseSeen \/ Receive
      BY <3>3 DEF WsFail, CloseSeen, Receive, socket
    <3>4. CASE Authenticate
      BY <3>4 DEF Authenticate
    <3>5. CASE HandleCommand
      BY <3>5 DEF HandleCommand
    <3>6. CASE Feedback \/ EndSession
      BY <3>6 DEF Feedback, EndSession
    <3> QED BY <1>4, <3>1, <3>2, <3>3, <3>4, <3>5, <3>6 DEF Connection, ApiSocket
  <2>4. Timely(None, covered)
    BY DEF Timely
  <2>5. inward' # None => Timely(inward'.token, covered)
    BY <2>3 DEF CoverInv
  <2> QED BY <2>1, <2>2, <2>4, <2>5 DEF CoverInv
<1>5. CASE ApiAccounts \/ UNCHANGED vars
  <2>1. UNCHANGED <<covered, socket, screen, store, pending>>
    BY <1>5 DEF ApiAccounts, Tick, Join, InsertUser, vars, api
  <2> QED BY <2>1 DEF CoverInv, socket, screen, store
<1> QED BY <1>1, <1>2, <1>3, <1>4, <1>5 DEF Next

LEMMA PublishedWithPermission ==
  ASSUME TypeInv, CoverInv, [Next]_vars, Publishes
  PROVE  inward.token.sub = session.user /\ now < covered[session.user]
<1> USE AccessAssumption
<1>0. SocketInv /\ AccountsInv
  BY DEF TypeInv
<1>1. /\ inward # None /\ inward' = None /\ inward.kind = "command"
      /\ session' = session /\ outward' = outward /\ session.state # "none"
  BY <1>0 DEF Publishes, SocketInv
<1>2. HandleCommand
  <2>1. ~HangUp /\ ~UNCHANGED socket
    BY <1>1 DEF HangUp, NoSession, socket
  <2>2. CASE \/ PageLoad \/ (\E to \in Pages : Go(to)) \/ Submit \/ Control \/ Logout
             \/ FormAnswered \/ GuardAnswered \/ RobotAnswered
             \/ (\E asker \in Askers : Serve(asker)) \/ Renew
    BY <2>1, <2>2, BrowserClosesOnly
  <2>3. ~Authenticate
    BY <1>1 DEF Authenticate
  <2>4. CASE Connection \/ SendCommand
    <3>1. ~WsOpen
      BY <1>0, <1>1 DEF WsOpen, SocketInv
    <3>2. ~WsFail /\ ~CloseSeen
      BY <2>1 DEF WsFail, CloseSeen
    <3>3. ~Receive /\ ~SendCommand
      BY <1>1 DEF Receive, SendCommand
    <3> QED BY <2>3, <2>4, <3>1, <3>2, <3>3 DEF Connection
  <2>5. CASE ApiSocket
    BY <1>1, <2>5 DEF ApiSocket, Feedback, EndSession
  <2>6. ~ApiAccounts /\ ~UNCHANGED vars
    BY <2>1 DEF ApiAccounts, vars
  <2> QED BY <2>2, <2>4, <2>5, <2>6 DEF Next
<1>3. ~Say(to_jsonrpc)
  <2>1. outward \in Seq(OutFrames) /\ to_jsonrpc = to_jsonrpc
    BY <1>0 DEF SocketInv
  <2>2. Len(Append(outward, to_jsonrpc)) = Len(outward) + 1
    BY <2>1
  <2>3. Len(outward) \in Nat
    BY <2>1
  <2> QED BY <1>1, <2>2, <2>3 DEF Say
<1>4. GrantAccess(inward.token, inward.robot, session.user)
  BY <1>2, <1>3 DEF HandleCommand
<1>5. inward.token \in Permits /\ Timely(inward.token, covered)
  BY <1>0, <1>1 DEF SocketInv, CoverInv
<1> QED BY <1>0, <1>4, <1>5, TokenAssumption DEF GrantAccess, Valid, Timely, Permits, Token, AccountsInv

\* Every command that is published has a permission of the session's user, who has held valid
\* tokens without a break since a password was checked, whatever the lifetime of a token is and
\* however often permissions were renewed.
THEOREM CommandsNeedAPermission == Spec => CommandsArePermitted
<1>1. Init => CoverInv
  BY DEF Init, AccessInit, Quiet, Idle, Askers, CoverInv, RequestsTimely, Timely
<1>2. TypeInv /\ CoverInv /\ [Next]_vars => CoverInv'
  BY CoverStays
<1>3. TypeInv /\ CoverInv /\ [Next]_vars =>
         [Publishes => inward.token.sub = session.user /\ now < covered[session.user]]_vars
  BY PublishedWithPermission
<1> QED BY <1>1, <1>2, <1>3, UserPathTypes, PTL DEF Spec, CommandsArePermitted

--------------------------------------------------------------------------
(* Whose pages and whose socket they are.                                   *)

\* fetchUser ends without a token, or with the token it began with and a user; that user is
\* the token's unless it crossed something.
LEMMA FetchedIsOwned ==
  ASSUME TypeInv, PageInv, NEW asker \in {"form", "guard"}, NEW ans \in Outcomes(asker),
         pending[asker].call = "me", UserFetched(pending[asker], ans)
  PROVE  /\ StoreInv' /\ ShownUserOwnsToken'
         /\ token' \in {token, None} /\ ~(token' # None /\ user' = None)
         /\ ~crossed' => ~crossed /\ user = None
<1> DEFINE request == pending[asker]
<1> USE AccessAssumption, TokenAssumption, WaitingAssumption
<1>1. request.with \in Token /\ request.with.sub \in Users /\ request.with # None
  <2>1. request \in Request({"me"}, Token, Users)
    BY DEF TypeInv, RequestsOK, FormRequests, GuardRequests, Request, Idle
  <2> QED BY <2>1 DEF Request, Token
<1>2. ans \in {request.with.sub, Failed}
  BY DEF PageInv, Outcomes, Askers, Idle
<1>3. StoreInv'
  BY <1>1, <1>2, FetchedKeepsTypes DEF TypeInv
<1>4. CASE ans = Failed
  BY <1>3, <1>4 DEF UserFetched, logout, ShownUserOwnsToken, TypeInv, StoreInv
<1>5. CASE ans = request.with.sub /\ ans # Failed
  BY <1>1, <1>3, <1>5 DEF UserFetched, ShownUserOwnsToken, TypeInv, StoreInv
<1> QED BY <1>2, <1>3, <1>4, <1>5

MeAnswers(requests) ==
    \A asker \in Askers :
        requests[asker].call = "me" => requests[asker].ans \in {Waiting, requests[asker].with.sub}

\* A navigation keeps the invariant if a page that it leaves as it is may stay.
LEMMA NavigatingKeepsPage ==
  ASSUME NEW requests, DOMAIN requests = Askers, MeAnswers(requests),
         Waits(requests) \/ Arrives(requests),
         requests["form"].call \in {"login", "signup"} => token' = None,
         ShownUserOwnsToken',
         Waits(requests) => /\ crossed' \/ page \notin {"dashboard", "robot", "admin"}
                            /\ page \in {"login", "register"} => requests["form"] # Idle
  PROVE  PageInv'
<1>1. CASE Waits(requests)
  <2>1. /\ page' = page /\ pending' = [requests EXCEPT !["guard"] = Ask("me", token')]
    BY <1>1 DEF Waits, Stays
  <2>2. pending'["form"] = requests["form"] /\ MeAnswers(pending')
    BY <2>1 DEF MeAnswers, Ask, Askers
  <2> QED BY <1>1, <2>1, <2>2 DEF PageInv, MeAnswers
<1>2. CASE Arrives(requests)
  <2>1. pending' = requests /\ ~(token' # None /\ user' = None)
    BY <1>2 DEF Arrives
  <2>2. CASE Shown
    <3>1. /\ page' \in {"dashboard", "robot", "admin"} => token' # None
          /\ page' \in {"login", "register"} => token' = None
          /\ page' = "admin" => user' \in Teachers
      BY <2>2 DEF Shown
    <3> QED BY <2>1, <3>1 DEF PageInv, MeAnswers
  <2>3. CASE page = "robot" /\ token' # None /\ Stays
    BY <2>1, <2>3 DEF PageInv, MeAnswers, Stays
  <2> QED BY <1>2, <2>2, <2>3 DEF Arrives
<1> QED BY <1>1, <1>2

LEMMA ForgettingKeepsAnswers ==
  ASSUME TypeInv, PageInv, NEW asker \in Askers
  PROVE  /\ MeAnswers([pending EXCEPT ![asker] = Idle])
         /\ DOMAIN [pending EXCEPT ![asker] = Idle] = Askers
  BY DEF TypeInv, RequestsOK, PageInv, MeAnswers, Idle

\* Without a crossing the socket is the token's if it was and the token is the same, and if
\* it was closed.
LEMMA ShownKeepsLink == ASSUME Shown PROVE LinkInv'
  BY DEF Shown, HangUp, NoSession, LinkInv

LEMMA EndedKeepsLink == ASSUME HangUp, status' = "disconnected" PROVE LinkInv'
<1>1. session'.state = "none" /\ outward' = <<>> /\ status' = "disconnected"
  BY DEF HangUp, NoSession
<1>2. 1 .. Len(outward') = {}
  BY <1>1
<1> QED BY <1>1, <1>2 DEF LinkInv

LEMMA StayingKeepsLink ==
  ASSUME LinkInv, Stays,
         \/ crossed' \/ status = "disconnected"
         \/ token' = token /\ crossed' = crossed
  PROVE  LinkInv'
  BY DEF LinkInv, Stays, socket

OwnedInv == TypeInv /\ PageInv /\ LinkInv

\* Without a crossing a page that needs a token has one.
LEMMA PagesHaveTokens ==
  ASSUME OwnedInv, ~crossed, page \in {"dashboard", "robot", "admin"} \/ status # "disconnected"
  PROVE  user # None /\ token # None
  BY DEF OwnedInv, TypeInv, SocketInv, PageInv, ShownUserOwnsToken

LEMMA BrowserKeepsOwners ==
  ASSUME OwnedInv,
         \/ PageLoad \/ (\E to \in Pages : Go(to)) \/ Submit \/ Control \/ Logout
         \/ FormAnswered \/ GuardAnswered \/ RobotAnswered
  PROVE  PageInv' /\ LinkInv'
<1> USE DEF OwnedInv
<1>t. /\ RequestsOK(pending) /\ DOMAIN pending = Askers /\ MeAnswers(pending)
      /\ entry \in Permits \union {None}
  BY DEF TypeInv, RequestsOK, SocketInv, PageInv, MeAnswers
<1>a. ASSUME NEW to \in Pages, NEW permission \in Permits \union {None}, NEW requests,
             DOMAIN requests = Askers, MeAnswers(requests), UNCHANGED store,
             requests["form"] = pending["form"], Navigate(to, permission, requests)
      PROVE  PageInv' /\ LinkInv'
  <2>1. Waits(requests) \/ Arrives(requests)
    BY <1>a, NavigateEnds
  <2>2. token' = token /\ user' = user /\ crossed' = crossed
    BY <1>a DEF store
  <2>3. PageInv'
    <3>1. ShownUserOwnsToken' /\ (requests["form"].call \in {"login", "signup"} => token' = None)
      BY <1>a, <2>2 DEF PageInv, ShownUserOwnsToken
    <3>2. Waits(requests) => /\ crossed' \/ page \notin {"dashboard", "robot", "admin"}
                             /\ page \in {"login", "register"} => requests["form"] # Idle
      BY <1>a, <2>2 DEF Waits, PageInv
    <3> QED BY <1>a, <2>1, <3>1, <3>2, NavigatingKeepsPage
  <2>4. LinkInv'
    BY <2>1, <2>2, ShownKeepsLink, StayingKeepsLink DEF Waits, Arrives
  <2> QED BY <2>3, <2>4
<1>b. ASSUME NEW asker \in {"form", "guard"}, NEW ans \in Outcomes(asker),
             pending[asker].call = "me", UserFetched(pending[asker], ans),
             NEW to \in Pages, NEW permission \in Permits \union {None},
             Navigate(to, permission, [pending EXCEPT ![asker] = Idle])
      PROVE  PageInv' /\ LinkInv'
  <2> DEFINE requests == [pending EXCEPT ![asker] = Idle]
  <2>1. /\ ShownUserOwnsToken' /\ token' \in {token, None} /\ ~(token' # None /\ user' = None)
        /\ ~crossed' => ~crossed /\ user = None
    BY <1>b, FetchedIsOwned
  <2>2. DOMAIN requests = Askers /\ MeAnswers(requests)
    BY ForgettingKeepsAnswers DEF Askers
  <2>3. requests["form"].call \in {"login", "signup"} => token' = None
    BY <2>1, <1>t DEF PageInv, Idle, Askers
  <2>4. Waits(requests) \/ Arrives(requests)
    BY <1>b, NavigateEnds
  <2> HIDE DEF requests
  <2>5. ~Waits(requests)
    BY <2>1 DEF Waits
  <2>6. PageInv'
    BY <2>1, <2>2, <2>3, <2>4, <2>5, NavigatingKeepsPage
  <2>7. CASE Shown
    BY <2>7, ShownKeepsLink, <2>6
  <2>8. CASE page = "robot" /\ Stays
    <3>1. crossed'
      BY <2>1, <2>8, PagesHaveTokens DEF TypeInv, StoreInv
    <3> QED BY <2>6, <2>8, <3>1, StayingKeepsLink
  <2> QED BY <2>4, <2>5, <2>7, <2>8 DEF Arrives
<1>c. ASSUME UNCHANGED <<screen, socket>> PROVE Stays
  BY <1>c DEF Stays, screen
<1>1. ASSUME NEW to \in Pages, Visit(to) PROVE PageInv' /\ LinkInv'
  <2>1. token' = token /\ user' = None /\ crossed' = FALSE /\ HangUp /\ status' = "disconnected"
    BY <1>1 DEF Visit
  <2>2. LinkInv'
    BY <2>1, EndedKeepsLink
  <2>3. CASE token = None
    <3>1. page' = Landing(to, None, None) /\ pending' = Quiet
      BY <1>1, <2>3 DEF Visit
    <3>2. page' \notin {"dashboard", "robot", "admin"}
      BY <3>1, LandingIsAllowed
    <3> QED BY <2>1, <2>2, <2>3, <3>1, <3>2 DEF PageInv, ShownUserOwnsToken, Quiet, Idle, Askers
  <2>4. CASE token # None
    <3>1. page' = "none" /\ pending' = [Quiet EXCEPT !["guard"] = Ask("me", token)]
      BY <1>1, <2>4 DEF Visit
    <3>2. MeAnswers(pending') /\ pending'["form"] = Idle
      BY <3>1 DEF MeAnswers, Quiet, Idle, Ask, Askers
    <3> QED BY <2>1, <2>2, <3>1, <3>2 DEF PageInv, MeAnswers, ShownUserOwnsToken, Idle
  <2> QED BY <2>3, <2>4
<1>2. ASSUME NEW to \in Pages, Go(to) PROVE PageInv' /\ LinkInv'
  BY <1>2, <1>t, <1>a DEF Go
<1>3. CASE Submit
  <2>1. UNCHANGED <<socket, screen, store>> /\ page \in {"login", "register"} /\ pending["form"] = Idle
    BY <1>3 DEF Submit
  <2>2. \/ \E name \in Users : pending' = [pending EXCEPT !["form"] = Ask("login", name)]
        \/ pending' = [pending EXCEPT !["form"] = Ask("signup", RegisterForm)]
    BY <1>3 DEF Submit
  <2>3. MeAnswers(pending') /\ pending'["form"] # Idle
    BY <1>t, <2>2 DEF MeAnswers, Ask, Idle, Askers
  <2>4. token' = token /\ user' = user /\ crossed' = crossed /\ page' = page /\ token = None
    BY <2>1 DEF store, screen, PageInv
  <2>5. PageInv'
    BY <2>3, <2>4 DEF PageInv, MeAnswers, ShownUserOwnsToken
  <2> QED BY <2>1, <2>4, <2>5, <1>c, StayingKeepsLink
<1>4. CASE Control
  <2>1. /\ UNCHANGED <<socket, screen, store>>
        /\ pending' = [pending EXCEPT !["robot"] = Ask("access", token)]
    BY <1>4 DEF Control
  <2>2. MeAnswers(pending') /\ pending'["form"] = pending["form"]
    BY <1>t, <2>1 DEF MeAnswers, Ask, Askers
  <2>3. token' = token /\ user' = user /\ crossed' = crossed /\ page' = page
    BY <2>1 DEF store, screen
  <2>4. PageInv'
    BY <2>2, <2>3 DEF PageInv, MeAnswers, ShownUserOwnsToken
  <2> QED BY <2>1, <2>3, <2>4, <1>c, StayingKeepsLink
<1>5. CASE Logout
  <2>1. token' = None /\ user' = None /\ Navigate("login", None, pending)
    BY <1>5 DEF Logout, logout
  <2>2. ~Waits(pending) /\ Arrives(pending)
    BY <2>1, NavigateEnds DEF Waits, Pages
  <2>3. Shown
    BY <2>1, <2>2 DEF Arrives
  <2>4. PageInv'
    BY <1>t, <2>1, <2>2, NavigatingKeepsPage DEF ShownUserOwnsToken
  <2> QED BY <2>3, <2>4, ShownKeepsLink
<1>6. CASE FormAnswered
  <2>1. PICK ans \in Outcomes("form") :
           \/ /\ pending["form"].call = "me" /\ UserFetched(pending["form"], ans)
              /\ Navigate("dashboard", None, [pending EXCEPT !["form"] = Idle])
           \/ /\ pending["form"].call = "login" /\ token' = ans
              /\ pending' = [pending EXCEPT !["form"] = Ask("me", ans)]
              /\ UNCHANGED <<user, crossed, screen, socket>>
           \/ /\ pending["form"].call # "me"
              /\ pending' = [pending EXCEPT !["form"] = Idle]
              /\ UNCHANGED <<store, screen, socket>>
    BY <1>6 DEF FormAnswered
  <2>2. CASE /\ pending["form"].call = "me" /\ UserFetched(pending["form"], ans)
             /\ Navigate("dashboard", None, [pending EXCEPT !["form"] = Idle])
    BY <2>2, <1>b DEF Pages
  <2>3. CASE /\ pending["form"].call = "login" /\ token' = ans
             /\ pending' = [pending EXCEPT !["form"] = Ask("me", ans)]
             /\ UNCHANGED <<user, crossed, screen, socket>>
    <3>1. token = None /\ user' = user /\ crossed' = crossed /\ page' = page
      BY <2>3 DEF PageInv, screen
    <3>2. MeAnswers(pending') /\ pending'["form"] = Ask("me", ans)
      BY <1>t, <2>3 DEF MeAnswers, Ask, Askers
    <3>3. crossed \/ user = None
      BY <3>1 DEF PageInv, ShownUserOwnsToken
    <3>4. PageInv'
      BY <3>1, <3>2, <3>3 DEF PageInv, MeAnswers, ShownUserOwnsToken, Ask, Idle
    <3>5. crossed \/ status = "disconnected"
      BY <3>1, PagesHaveTokens
    <3> QED BY <2>3, <3>1, <3>4, <3>5, <1>c, StayingKeepsLink
  <2>4. CASE /\ pending["form"].call # "me"
             /\ pending' = [pending EXCEPT !["form"] = Idle]
             /\ UNCHANGED <<store, screen, socket>>
    <3>1. token' = token /\ user' = user /\ crossed' = crossed /\ page' = page
      BY <2>4 DEF store, screen
    <3>2. MeAnswers(pending') /\ pending'["form"] = Idle
      BY <1>t, <2>4, ForgettingKeepsAnswers DEF Askers
    <3>3. pending["form"] # Idle
      BY <2>1 DEF Outcomes
    <3>4. pending["form"].call \in {"login", "signup"}
      BY <1>t, <2>4, <3>3 DEF RequestsOK, FormRequests, Request
    <3>5. token = None
      BY <3>4 DEF PageInv
    <3>6. PageInv'
      BY <3>1, <3>2, <3>5 DEF PageInv, MeAnswers, ShownUserOwnsToken, Idle
    <3> QED BY <2>4, <3>1, <3>6, <1>c, StayingKeepsLink
  <2> QED BY <2>1, <2>2, <2>3, <2>4
<1>7. CASE GuardAnswered
  <2>1. PICK ans \in Outcomes("guard") : UserFetched(pending["guard"], ans)
    BY <1>7 DEF GuardAnswered
  <2>2. pending["guard"].call = "me"
    BY <2>1, <1>t DEF Outcomes, RequestsOK, GuardRequests, Request
  <2>3. CASE dest # None
    <3>1. dest.to \in Pages /\ dest.permission \in Permits \union {None}
      BY <2>3 DEF TypeInv, DestInv
    <3>2. Navigate(dest.to, dest.permission, [pending EXCEPT !["guard"] = Idle])
      BY <1>7, <2>3 DEF GuardAnswered
    <3> QED BY <2>1, <2>2, <3>1, <3>2, <1>b
  <2>4. CASE dest = None
    <3>1. pending' = [pending EXCEPT !["guard"] = Idle] /\ UNCHANGED <<screen, socket>>
      BY <1>7, <2>4 DEF GuardAnswered
    <3>2. /\ StoreInv' /\ ShownUserOwnsToken' /\ token' \in {token, None}
          /\ ~crossed' => ~crossed /\ user = None
      BY <2>1, <2>2, FetchedIsOwned
    <3>3. page' = page /\ pending'["form"] = pending["form"] /\ MeAnswers(pending')
      BY <1>t, <3>1, ForgettingKeepsAnswers DEF screen, Askers
    <3>4. crossed' \/ (page \notin {"dashboard", "robot", "admin"} /\ status = "disconnected")
      BY <3>2, PagesHaveTokens DEF TypeInv, StoreInv
    <3>5. PageInv'
      BY <3>2, <3>3, <3>4 DEF PageInv, MeAnswers
    <3> QED BY <3>1, <3>4, <3>5, <1>c, StayingKeepsLink
  <2> QED BY <2>3, <2>4
<1>8. CASE RobotAnswered
  <2> DEFINE requests == [pending EXCEPT !["robot"] = Idle]
  <2>1. DOMAIN requests = Askers /\ MeAnswers(requests) /\ requests["form"] = pending["form"]
    BY <1>t, ForgettingKeepsAnswers DEF Askers
  <2>2. PICK ans \in Outcomes("robot") :
           \/ pending' = requests /\ UNCHANGED <<screen, socket>>
           \/ ans # Failed /\ Navigate("robot", ans, requests)
    BY <1>8 DEF RobotAnswered
  <2>3. UNCHANGED store
    BY <1>8 DEF RobotAnswered
  <2> HIDE DEF requests
  <2>4. CASE pending' = requests /\ UNCHANGED <<screen, socket>>
    <3>1. token' = token /\ user' = user /\ crossed' = crossed /\ page' = page
      BY <2>3, <2>4 DEF store, screen
    <3>2. PageInv'
      BY <2>1, <2>4, <3>1 DEF PageInv, MeAnswers, ShownUserOwnsToken
    <3> QED BY <2>4, <3>1, <3>2, <1>c, StayingKeepsLink
  <2>5. CASE ans # Failed /\ Navigate("robot", ans, requests)
    <3>1. ans \in Permits \union {None} /\ "robot" \in Pages
      BY <1>t, <2>2, <2>5, OutcomesTyped DEF Pages
    <3> QED BY <2>1, <2>3, <2>5, <3>1, <1>a
  <2> QED BY <2>2, <2>4, <2>5
<1> QED BY <1>1, <1>2, <1>3, <1>4, <1>5, <1>6, <1>7, <1>8 DEF PageLoad

\* Frames on their way, when one is added or taken.
LEMMA FramesAfter ==
  ASSUME outward \in Seq(OutFrames)
  PROVE  /\ \A answer \in OutFrames : Say(answer) =>
               \A i \in 1 .. Len(outward') :
                  outward'[i] = answer \/ (i \in 1 .. Len(outward) /\ outward'[i] = outward[i])
         /\ outward # <<>> /\ outward' = Tail(outward) =>
               /\ 1 \in 1 .. Len(outward) /\ Head(outward) = outward[1]
               /\ \A i \in 1 .. Len(outward') :
                     i + 1 \in 1 .. Len(outward) /\ outward'[i] = outward[i + 1]
  BY DEF Say

\* A frame that is not "success auth" is added while the session stays as it is or ends.
LEMMA AnsweringKeepsLink ==
  ASSUME OwnedInv, NEW answer \in OutFrames, answer.message # "success auth", Say(answer),
         session' = session \/ session'.state = "closed",
         inward' \in {None, inward}, UNCHANGED <<status, mounted, store>>
  PROVE  LinkInv'
<1>1. \A i \in 1 .. Len(outward') :
         outward'[i].message = "success auth" => i \in 1 .. Len(outward) /\ outward'[i] = outward[i]
  BY FramesAfter DEF OwnedInv, TypeInv, SocketInv
<1>2. LinkInv /\ token' = token /\ crossed' = crossed /\ status' = status /\ mounted' = mounted
  BY DEF OwnedInv, store
<1> QED BY <1>1, <1>2 DEF LinkInv

LEMMA SocketKeepsLink ==
  ASSUME OwnedInv, Connection \/ SendCommand \/ ApiSocket
  PROVE  LinkInv'
<1>0. /\ LinkInv /\ SocketInv /\ outward \in Seq(OutFrames)
      /\ token' = token /\ crossed' = crossed
  BY DEF OwnedInv, TypeInv, SocketInv, Connection, SendCommand, ApiSocket, WsOpen, WsFail, Receive,
         CloseSeen, Rest, store
<1>a. /\ to_jsonrpc \in OutFrames /\ to_jsonrpc.message # "success auth"
      /\ SuccessAuth \in OutFrames
  <2>1. -32603 \in Int
    OBVIOUS
  <2> QED BY <2>1 DEF to_jsonrpc, SuccessAuth, OutFrames
<1>1. CASE WsOpen
  <2>1. /\ status' = "authenticating" /\ mounted' = None /\ outward' = outward
        /\ session' = [state |-> "waiting", user |-> None] /\ inward'.token = mounted
        /\ status = "connecting"
    BY <1>1 DEF WsOpen, Accept
  <2>2. \A i \in 1 .. Len(outward') : outward'[i].message # "success auth"
    BY <1>0, <2>1 DEF LinkInv, SocketInv
  <2> QED BY <1>0, <2>1, <2>2 DEF LinkInv
<1>2. CASE WsFail \/ CloseSeen
  <2>1. status' \in {"error", "disconnected"} /\ UNCHANGED socket
    BY <1>2 DEF WsFail, CloseSeen
  <2> QED BY <1>0, <2>1 DEF LinkInv, socket
<1>3. CASE Receive
  <2>1. /\ outward # <<>> /\ outward' = Tail(outward) /\ UNCHANGED <<session, inward, mounted>>
        /\ status' = IF status # "authenticating" THEN status
                     ELSE IF Head(outward).message = "success auth" THEN "connected" ELSE "error"
    BY <1>3 DEF Receive
  <2>2. /\ 1 \in 1 .. Len(outward) /\ Head(outward) = outward[1]
        /\ \A i \in 1 .. Len(outward') :
              i + 1 \in 1 .. Len(outward) /\ outward'[i] = outward[i + 1]
    BY <1>0, <2>1, FramesAfter
  <2>3. \A i \in 1 .. Len(outward') :
           outward'[i].message = "success auth" => session'.state \in {"open", "closed"}
    BY <1>0, <2>1, <2>2 DEF LinkInv
  <2>4. status' = "connected" => session'.state \in {"open", "closed"}
    BY <1>0, <2>1, <2>2 DEF LinkInv
  <2> QED BY <1>0, <2>1, <2>3, <2>4 DEF LinkInv
<1>4. CASE SendCommand
  <2>1. session.state = "open" /\ UNCHANGED <<session, outward, status, mounted>>
    BY <1>4 DEF SendCommand
  <2> QED BY <1>0, <2>1 DEF LinkInv
<1>5. CASE Authenticate /\ UNCHANGED <<status, mounted>> /\ Rest
  <2>1. CASE /\ inward # None /\ inward' = None
             /\ session' = [state |-> "open", user |-> inward.token.sub] /\ Say(SuccessAuth)
    <3>1. session.state = "waiting" /\ status' = status /\ mounted' = mounted
      BY <1>5 DEF Authenticate
    <3>2. ~crossed /\ status = "authenticating" => inward.token.sub = token.sub
      BY <1>0, <2>1, <3>1 DEF LinkInv
    <3>3. status # "connected"
      BY <1>0, <3>1 DEF LinkInv
    <3> QED BY <1>0, <2>1, <3>1, <3>2, <3>3 DEF LinkInv, SocketInv
  <2>2. CASE /\ session' = [state |-> "closed", user |-> None] /\ Say(to_jsonrpc)
             /\ inward' \in {None, inward}
    BY <1>5, <1>a, <2>2, AnsweringKeepsLink DEF Rest
  <2> QED BY <1>5, <2>1, <2>2 DEF Authenticate
<1>6. CASE ApiSocket
  <2>1. UNCHANGED <<status, mounted, store>>
    BY <1>6 DEF ApiSocket, Rest
  <2>2. CASE HandleCommand
    <3>1. session.state = "open" /\ session' = session /\ inward' = None
      BY <2>2 DEF HandleCommand
    <3>2. CASE Say(to_jsonrpc)
      BY <1>a, <2>1, <3>1, <3>2, AnsweringKeepsLink
    <3>3. CASE UNCHANGED outward
      BY <1>0, <2>1, <3>1, <3>3 DEF LinkInv
    <3> QED BY <2>2, <3>2, <3>3 DEF HandleCommand
  <2>3. CASE Feedback
    <3>1. owed \in Messages /\ Say(Response(JsonRpcCommand(owed))) /\ UNCHANGED <<session, inward>>
      BY <1>0, <2>3 DEF Feedback, SocketInv
    <3>2. Response(JsonRpcCommand(owed)) \in OutFrames
      BY <3>1, MessagesKeepTheirType
    <3>3. Response(JsonRpcCommand(owed)).message # "success auth"
      BY DEF Response
    <3> QED BY <2>1, <3>1, <3>2, <3>3, AnsweringKeepsLink
  <2>4. CASE EndSession
    <3>1. session'.state = "closed" /\ UNCHANGED <<inward, outward>>
      BY <2>4 DEF EndSession
    <3> QED BY <1>0, <2>1, <3>1 DEF LinkInv
  <2> QED BY <1>6, <2>2, <2>3, <2>4 DEF ApiSocket
<1> QED BY <1>1, <1>2, <1>3, <1>4, <1>5, <1>6 DEF Connection

\* The API's answer to `me` is the subject of the token.
LEMMA ServingKeepsPage ==
  ASSUME OwnedInv, NEW asker \in Askers, Serve(asker)
  PROVE  PageInv'
<1> DEFINE request == pending[asker]
<1> USE WaitingAssumption
<1>0. /\ RequestsOK(pending) /\ DOMAIN pending = Askers /\ PageInv
  BY DEF OwnedInv, TypeInv, RequestsOK
<1>1. PICK ans : /\ pending' = [pending EXCEPT ![asker].ans = ans] /\ ans # Failed
                 /\ request.call = "me" => ans = CurrentUser(request.with)
  BY DEF Serve
<1>2. /\ token' = token /\ user' = user /\ crossed' = crossed /\ page' = page
      /\ request.ans = Waiting
  BY DEF Serve, store, screen
<1>3. \A other \in Askers : /\ pending'[other].call = pending[other].call
                            /\ pending'[other].with = pending[other].with
                            /\ other # asker => pending'[other] = pending[other]
  <2>1. \A other \in Askers : other # asker => pending'[other] = pending[other]
    BY <1>0, <1>1
  <2>2. pending'[asker] = [request EXCEPT !.ans = ans]
    BY <1>0, <1>1
  <2>3. pending'[asker].call = request.call /\ pending'[asker].with = request.with
    BY <2>2
  <2> QED BY <2>1, <2>3
<1>4. request.call = "me" => pending'[asker].ans = request.with.sub
  <2>1. SUFFICES ASSUME request.call = "me" PROVE pending'[asker].ans = request.with.sub
    OBVIOUS
  <2>2. request \in Request({"me"}, Token, Users)
    BY <1>0, <2>1 DEF RequestsOK, FormRequests, GuardRequests, RobotRequests, Request, Idle, Askers
  <2>3. ans = request.with.sub
    BY <1>1, <2>1, <2>2, CurrentUserIsSubject DEF Request
  <2> QED BY <1>0, <1>1, <2>2, <2>3 DEF Request
<1>5. pending'["form"] = Idle => pending["form"] = Idle
  <2>1. CASE asker = "form"
    <3>1. request # Idle /\ request \in FormRequests
      BY <1>0, <1>2, <2>1 DEF Idle, RequestsOK
    <3>2. request.call # "none"
      BY <3>1 DEF FormRequests, Request
    <3> QED BY <1>3, <2>1, <3>2 DEF Idle, Askers
  <2>2. CASE asker # "form"
    BY <1>3, <2>2 DEF Askers
  <2> QED BY <2>1, <2>2
<1>6. \A other \in Askers :
         pending'[other].call = "me" => pending'[other].ans \in {Waiting, pending'[other].with.sub}
  BY <1>0, <1>3, <1>4 DEF PageInv
<1> QED BY <1>0, <1>2, <1>3, <1>5, <1>6 DEF PageInv, ShownUserOwnsToken, Askers

\* Steps that leave the screen, the store and the requests alone.
LEMMA OthersKeepPage ==
  ASSUME PageInv, UNCHANGED <<store, page, pending>>
  PROVE  PageInv'
  BY DEF PageInv, store, ShownUserOwnsToken

LEMMA OwnersStay == TypeInv /\ PageInv /\ LinkInv /\ [Next]_vars => PageInv' /\ LinkInv'
<1> SUFFICES ASSUME OwnedInv, [Next]_vars PROVE PageInv' /\ LinkInv'
  BY DEF OwnedInv
<1>0. PageInv /\ LinkInv
  BY DEF OwnedInv
<1>1. CASE \/ PageLoad \/ (\E to \in Pages : Go(to)) \/ Submit \/ Control \/ Logout
           \/ FormAnswered \/ GuardAnswered \/ RobotAnswered
  BY <1>1, BrowserKeepsOwners
<1>2. ASSUME UNCHANGED <<screen, socket, store>> PROVE LinkInv'
  BY <1>0, <1>2, StayingKeepsLink DEF Stays, screen, store
<1>3. ASSUME NEW asker \in Askers, Serve(asker) PROVE PageInv' /\ LinkInv'
  <2>1. UNCHANGED <<screen, socket, store>>
    BY <1>3 DEF Serve
  <2> QED BY <1>2, <1>3, <2>1, ServingKeepsPage
<1>4. CASE Connection \/ SendCommand \/ ApiSocket
  <2>1. UNCHANGED <<store, page, pending>>
    BY <1>4 DEF Connection, SendCommand, ApiSocket, WsOpen, WsFail, Receive, CloseSeen, Rest
  <2> QED BY <1>0, <1>4, <2>1, OthersKeepPage, SocketKeepsLink
<1>5. CASE ApiAccounts \/ UNCHANGED vars
  <2>1. UNCHANGED <<screen, socket, store, pending>>
    BY <1>5 DEF ApiAccounts, vars
  <2>2. UNCHANGED <<store, page, pending>>
    BY <2>1 DEF screen
  <2> QED BY <1>0, <1>2, <2>1, <2>2, OthersKeepPage
<1>6. CASE Renew
  <2>1. UNCHANGED <<socket, page, status, mounted, store, pending>>
    BY <1>6 DEF Renew
  <2>2. LinkInv'
    BY <1>0, <2>1 DEF LinkInv, socket, store
  <2> QED BY <1>0, <2>1, <2>2, OthersKeepPage
<1> QED BY <1>1, <1>3, <1>4, <1>5, <1>6 DEF Next

LEMMA OwnersInit == Init => PageInv /\ LinkInv
<1> SUFFICES ASSUME Init PROVE PageInv /\ LinkInv
  OBVIOUS
<1>1. /\ token = None /\ user = None /\ page = "login" /\ pending = Quiet
      /\ outward = <<>> /\ status = "disconnected"
  BY DEF Init, AccessInit
<1>2. 1 .. Len(outward) = {}
  BY <1>1
<1> QED BY <1>1, <1>2 DEF PageInv, LinkInv, ShownUserOwnsToken, Quiet, Idle, Askers

\* The store, the pages and the socket agree on who is logged in, up to a crossing.
THEOREM OwnersAgree == Spec => [](PageInv /\ LinkInv)
  BY OwnersInit, OwnersStay, UserPathTypes, PTL DEF Spec

\* Whatever answers overlap, without a crossing the user shown is the token's.
THEOREM UserIsTheTokens == Spec => []ShownUserOwnsToken
<1>1. PageInv => ShownUserOwnsToken
  BY DEF PageInv
<1> QED BY <1>1, OwnersAgree, PTL

\* And only a teacher, logged in, sees the administration page.
THEOREM AdministrationIsForTeachers == Spec => []AdminPageIsForTeachers
<1>1. TypeInv /\ PageInv /\ LinkInv => AdminPageIsForTeachers
  <2> SUFFICES ASSUME OwnedInv, page = "admin", ~crossed PROVE token # None /\ token.sub \in Teachers
    BY DEF OwnedInv, AdminPageIsForTeachers
  <2>1. user # None /\ token # None
    BY PagesHaveTokens
  <2> QED BY <2>1 DEF OwnedInv, PageInv, ShownUserOwnsToken
<1> QED BY <1>1, OwnersAgree, UserPathTypes, PTL

\* And a socket that takes commands was authenticated by the user who is logged in.
THEOREM SocketIsTheUsers == Spec => []SocketFollowsLogin
<1>1. TypeInv /\ PageInv /\ LinkInv => SocketFollowsLogin
  <2> SUFFICES ASSUME OwnedInv, status = "connected", ~crossed, session.state # "closed"
               PROVE  token # None /\ session.user = token.sub
    BY DEF OwnedInv, SocketFollowsLogin
  <2>1. token # None
    BY PagesHaveTokens
  <2> QED BY <2>1 DEF OwnedInv, LinkInv
<1> QED BY <1>1, OwnersAgree, UserPathTypes, PTL
=============================================================================
