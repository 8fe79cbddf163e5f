# Verification of the remote robot laboratory

TLA+ models of the parts of this repository in which several actors share
state, of the configurations that check them with TLC, and of the theorems
about them that TLAPS proves.

- [The system](#the-system)
- [Modules](#modules)
- [Registry](#registry-robotregistry-robotlifecycle-overlappinglifecycle)
- [API bridge](#api-bridge-apibridge-robotfeed)
- [Controller start](#controller-start-pibootstrap)
- [Controller in operation](#controller-in-operation-pirosbridge-commandservice)
- [User path](#user-path-commandpath-useraccess-webclient)
- [Workspace set-up](#workspace-set-up-workspacesetup)
- [ROS nodes](#ros-nodes-serialnodes)
- [Runs](#runs)
- [Proofs](#proofs)
- [What the models say of the code](#what-the-models-say-of-the-code)
- [Not modelled](#not-modelled)
- [Plan](#plan)

`tlc -config X.cfg M` checks configuration `X.cfg` of module `M` (the table of
[runs](#runs) pairs them), `tlapm M.tla` checks the proofs of a `...Proofs`
module. `PROJECT.json` relates each definition to the lines it models.

## The system

A user in a browser commands a robot arm through five programs:

    WebClient --HTTP, WebSocket--> Api --WebSocket--> rosbridge <--WebSocket-- RaspberryPi --serial--> Arduino
                                    |                                              |
                                    +--> PostgreSQL          Api <--HTTP (register, handshake)

| Part | State it keeps | Operations | Interacts through | Hard behaviour | Correct when |
|---|---|---|---|---|---|
| Robot registry (`Api/src/robot/services/robot_service.py`, `repositories/`, `routes/admin.py`, `routes/m2m.py`) | tables `robots`, `robot_status_history` | register, create, approve, reject | HTTP handlers run in a pool of threads, each with its own sessions | a status read in one transaction is acted on in a later one | one robot per identifier; history true; decisions final; credentials kept |
| Handshake (`handshake_service.py`) | issued tokens | handshake | as above | password check between read and answer | a token only for a robot that was approved |
| API rosbridge client (`rosbridge_client.py`) | one connection, `_subscribed_robots`, `_advertised_robots`, `_response_queues`, the listener task | publish, subscribe, unsubscribe, listen, reconnect | shared by all sessions; bounded queues | losses, reconnection while sessions subscribe | its sets are true of the connection it has; it comes back |
| User sessions (`ipc_user_robot_comunication.py`) | a queue, the robots followed, two tasks | authenticate, command, feedback, clean-up | WebSocket, rosbridge client, database | one of two tasks ends first, clean-up fails half-way | each user sees what he asked for, in order |
| Access validator and user authentication (`access_validator.py`, `auth/`) | a user session per WebSocket, JWTs | sign up, log in, check | HTTP, WebSocket | a token checked at one time and used at another | no command without a valid permission |
| Controller start (`RaspberryPi/controller/server`, `main.py`) | `robot-metadata.json`, an identity in memory | load or create the file, register, handshake with retry | HTTP to the API, file system | kills between steps, lost and late requests | one identity for ever; operates only when approved |
| Controller in operation (`RaspberryPi/controller/rosbridge`, `robot`) | a connection, the command in hand, the serial buffer | receive, execute, respond, publish status, reconnect | rosbridge, serial port, a thread for the serial work | losses in the middle of a command, answers that are late or missing | at most once, true responses, comes back |
| Web client (`WebClient/src`) | auth store, page, requests in flight, socket state | login, sign up, fetch user, logout, navigate, ask for a robot, connect, send | HTTP, WebSocket, router guards | answers that arrive after a logout, navigations that wait for one | what is shown and connected is the logged-in user's; a page appears, a connection settles |
| Command path (`json_rpc_commands.py`, `errors.py`, `crockford_base32.py`, the controller's `json_rpc.py`) | none | parse, forward, answer, name a topic | the models on both sides of rosbridge | fields that one side does not declare | a robot's topics are its own; what arrives is known |
| Workspace set-up (`ros_tryouts/ros_ciie_ws/install/_local_setup_util_sh.py`) | the order of packages, the variables emitted so far | order, report a circle, run hooks | files of the packages, the shell's environment | circles, hooks that meet the same variable | each package after what it needs; no path twice |
| ROS nodes (`ros_tryouts/2026/agent`, `ros2_serial_agent`) | their subscriptions, the serial port | pass commands to the Arduino and its lines to a topic, publish dummy data and frames | ROS topics, one serial port | ends and restarts, full queues, an unplugged cable, a topic both read and written | order kept; nothing twice; nothing comes back |
| Database (`Db/def`) | tables, constraints, the status trigger | inserts and updates | transactions | READ COMMITTED | the trigger's row commits with the robot's |
| rosbridge, nginx, quadlets, Arduino | configuration, a fixed sketch | | | containers restart | |

## Modules

| Module | Models | Uses |
|---|---|---|
| `RobotLifecycle` | abstract: the states of a robot that `Documents/handshake.md` promises | |
| `OverlappingLifecycle` | abstract: what is left of that life when requests overlap | |
| `RobotRegistry` | registry, handshake, tables and trigger | refines `RobotLifecycle` with one thread, `OverlappingLifecycle` with any number |
| `RobotRegistryProofs` | theorems about it | extends `RobotRegistry` |
| `RobotFeed` | abstract: an in-order, duplicate-free, lossy feed per user | |
| `ApiBridge` | rosbridge client of the API and the user sessions | refines `RobotFeed` |
| `ApiBridgeProofs` | theorems about it, the refinement included | extends `ApiBridge` |
| `PiBootstrap` | start of the controller | instantiates `RobotLifecycle` as the API |
| `PiBootstrapProofs` | theorems about it | extends `PiBootstrap` |
| `CommandService` | abstract: what a controller promises to who commands it | |
| `PiRosBridge` | the controller in operation, down to the serial line | refines `CommandService` |
| `PiRosBridgeProofs` | theorems about it, the refinement included | extends `PiRosBridge` |
| `CommandPath` | messages, topics and errors on the way of a command, as functions | |
| `UserAccess` | accounts, tokens, permissions and the user's WebSocket at the API | extends `CommandPath` |
| `WebClient` | the browser, composed with that API | extends `UserAccess` |
| `UserPathProofs` | theorems about the two together | extends `WebClient` |
| `WorkspaceSetup` | the set-up script of the ROS workspace | |
| `WorkspaceSetupProofs` | theorems about it | extends `WorkspaceSetup` |
| `SerialNodes` | the ROS nodes that share the Arduino | |
| `SerialNodesProofs` | theorems about them | extends `SerialNodes` |
| `MC...` | the instance of each for TLC | |

In each module a definition whose comment says "a variant" is an altered copy
of the one after it. No specification uses it: it exists to show that the
properties notice the error it makes.

## Registry (`RobotRegistry`, `RobotLifecycle`, `OverlappingLifecycle`)

*State.* `robots` is the table, `history` the statuses the trigger recorded,
`tokens` the robots a token was issued to, and `worker` what each thread of
FastAPI's pool is doing: the endpoints are plain `def`, so requests really
overlap.

*Steps.* Each request is split where the code commits or reads again: a
registration looks up (`Register`), inserts (`Insert`) and reads the row back
(`Refresh`); a decision loads (`Load`), updates (`Update`) and reads back; a
handshake loads and verifies. `Update` writes only the attributes that differ
from the object loaded, as the unit of work does (`Flush`), and `WriteRow`
always includes the trigger. `Restart` ends all requests at any point, as
`Restart=always` of the container allows.

*Data.* A hash is its password; a description is handled like the name and left
out; `InputStatus` contains a status the CHECK constraint refuses, since
`RobotInput.status` is any string. A free thread keeps nothing of what it
answered but the last answer to a registration (`AfterReply`), which
`AnsweredRegistrationIsStored` speaks of.

*Properties.* `UniqueExternalIds`, `HistoryFollowsRow`,
`AnsweredRegistrationIsStored`, `NothingReturnsToPending`,
`TokenOnlyIfEverApproved`, `SettledIsFinal` and `CredentialsNeverChange` hold
with requests interleaved. `SettledIsFinal` is the exact extent of the promise
the code keeps: a decision can be overturned by one that was already in flight
when it committed, and by no other. `DocumentedLifecycle` (the refinement of
`RobotLifecycle`) holds with one thread (a theorem) and fails with two (a run). `LifecycleUnderRaces`
is what holds then: in `OverlappingLifecycle` a thread looks first and acts
later (`hand`), so a decision may fall on a robot that is decided by now and a
token on one that is rejected by now, but only by a thread that saw it pending,
or approved; a robot appears once, and nothing else changes its status.

## API bridge (`ApiBridge`, `RobotFeed`)

*State.* `link` is the connection to rosbridge, `bridgeSubs`/`bridgeAds` what
rosbridge knows of it, `inbox` the frames not yet read; `listener`, `todo`,
`subscribed`, `advertised`, `queues` are the client; `session`, `asked`,
`queue`, `seen` the users.

*Steps.* All of it runs on one event loop, so a step is the code between two
awaits. A `send` writes at once and may then suspend, hence
`CommandFirst`/`FinishSubscribing` and `FinishAdvertising`: between them other
sessions and the listener run. `_readvertise_and_resubscribe_all` suspends in
its sends only, so it takes one step per robot, and what comes between two sends
(clearing a set, taking a snapshot, passing over a robot that a session has
advertised meanwhile) belongs to the step before (`ContinueFrom`): a reconnection
with nothing to advertise goes on to the subscriptions at once. A lost connection is first `dead` (sends vanish), then `closed`
(sends raise); a normal close is `ended`.

*Assumption.* `NobodyMidSend`: a task suspended in a send on a connection that
closed is resumed before the listener's sleep of a second or more ends.

*Properties.* `ImplementsFeed`: across two buffers, reconnections, and sessions
that come and go, no user sees a message twice, out of order, or of a robot not
asked for. `QueuesMatchSessions`, `RegisteredIsServed` and
`SubscribedIsTruthful` relate the records of sessions, client and rosbridge;
`ListenerRecovers` and `FeedbackFlows` are liveness. `RegisteredIsServed` fails
with a loss during a recovery. In TLC's behaviour a user asks first for a robot
on a connection that died without being noticed: the sends vanish, the robot
counts as subscribed and the session registers its queue. The reconnection takes
the robot out of the set, its send meets a second loss, and the third connection
is subscribed to nothing.

*Fairness.* Weak fairness of the listener, of the keepalive that notices a dead
connection, and of the tasks of each session that can run: the event loop runs
every task that is ready. Users and robots are under no obligation. That
`Reconnect` is fair says that rosbridge can be reached in the end; failed
attempts only wait again and change nothing.

*Faults.* `Faults` selects what may go wrong: a loss while the client
subscribes again (`reconnect_loss`), a normal close, a status frame from
rosbridge (which ends the listener: `_route_message` expects an object where
that frame has a string), a database error in the clean-up (`db_error`).

## Controller start (`PiBootstrap`)

*State.* `file` is `robot-metadata.json` (absent, empty, or an identity), `pc`
and `identity` the process, `delayed` the registrations it stopped waiting for
and that the API may serve later, `status` and `tokens` the API. The API is an
instance of `RobotLifecycle`, restricted to what registration and the
administrator do. That is the API with one request served at a time: with several
the registry keeps `OverlappingLifecycle` only, and what is said here of an
approved robot excepts one whose approval is overturned by a decision that was
under way.

*Steps.* `Load` has the three outcomes of `load_config`; opening for writing
truncates the file (`writing`, `empty`) and `Save` is the close. `Register`
moves on whatever happened to the request. `Kill` may come at any step and
`Load` starts again.

*Faults.* `read_error`: a file that is there may fail to be read. `power_cut`: the
Pi loses its power and with it the file, which `create_default_config` closes
without `fsync` (`server_service.py:99-108`), so that it may be found empty after
credentials in it were used. Without faults the file survives what kills the
process. Each of the two lets TLC violate `IdentityIsKept`
(`PiBootstrapReadError.cfg`); `OperatesApproved` holds with both.

*Properties.* `OneRobotPerController`, `IdentityIsKept`, `OperatesApproved`,
and under fairness `RegisteredConnects`. *Fairness:* the retry loop goes on
(weak), administrators decide and delayed requests are served (weak), and of
infinitely many handshakes of an approved robot one gets through (strong).

## Controller in operation (`PiRosBridge`, `CommandService`)

*State.* The connection as above; `listener` and `job` follow one command from
its frame to its response; `written`, `owed` and `line` are the serial line
(lines written, not yet answered, answered and not yet read); `replies` is what
was published.

*Steps.* `Receive`, `Write`, `Read` and `Publish` are one command; the serial
work runs in a thread, so losses, answers and statuses come between them.
`Answer` is the device: in order, at any time or never. A connection is set up in
steps: `Connect` writes the first advertise, `Advertise` the second one, and
`Subscribe` comes half a second later; each send may suspend, and losses and the
status task come in between. An exception nobody catches ends the process
(`Exit`): a loss within the set-up, and a *mistyped* command. `params` is any
dict, so a command validates whose only line (`mistyped`), or whose second line
of a sequence (`mistyped_sequence`), is no string; adding the end of line to it
(`robot_controller.py:46`) raises a `TypeError` that neither `json_rpc.py:102` nor
the listening task catches. Nothing is answered, and the lines before it were
written.

*Properties.* `ExecutesAtMostOnce`, `RepliesAreTrue`, `AnswersInOrder`,
`WorksOnCompleteConnections`, and under weak fairness of the listener and the
keepalive `CommandsConclude` and `Recovers`. `AnswersInOrder` is what is left
of "a response belongs to its command" when the device is late: a response may
carry the answer to an earlier line, never one twice, nor one from the future.
`WorksOnCompleteConnections` is what the order of the set-up is for: wherever it
is interrupted, the controller takes, carries out and answers commands only on a
connection with both topics and the subscription. It says nothing of statuses:
the status task publishes on a connection that is still being set up, before its
topic is advertised or in the half second that rosbridge is given to register it,
against the docstrings at `rosbridge_client.py:162` and `:171-175`.
`CommandsConclude` and `Recovers` except a process that a mistyped command ended
(`EndedByCommand`).
`ImplementsService` sums up what a command comes to: `CommandService` knows
neither connections nor threads, and in it the arm moves for the command in hand
only, a response closes its command, and no command is taken after a later one.
A command of which nothing was written and nothing answered (a frame lost with
its connection) may be missing there, as it may here.

## User path (`CommandPath`, `UserAccess`, `WebClient`)

*State.* At the API: `rows` counts the rows of `usuarios` per user name,
`joining` the sign-ups between their look-up and their insert, `now` is the clock
that tokens expire by, and `session`, `inward`, `outward`, `owed` are its end of
the WebSocket. A token is a record of what the JWT says (`sub`, `robot`, `exp`).
The history `covered` tells until when each user has held valid tokens without a
break since a password of his was checked (`CoverBy`). In the
browser: `token` and `user` are the store, `page` and `dest` the page shown and
the navigation that waits, `entry` the history entry with the permission,
`pending` the requests, `status` and `mounted` the socket of the robot page.

*Steps.* A request is asked (`Submit`, `Control`, the guard in `Navigate`),
served (`Serve`) and ended (`FormAnswered`, `GuardAnswered`, `RobotAnswered`);
whoever asked goes on with the store as it is then. `Navigate` is the guard with
its redirections and the page's `onMounted`/`onUnmounted`. `Visit` is a page
load: it keeps `localStorage` and the history only. The API's half of the socket
is `Authenticate`, `HandleCommand`, `Feedback`, `EndSession`; the page's is
`WsOpen` to `SendCommand`. A `to_jsonrpc` frame stands for every exception.
`request_robot_access` takes any valid token as its bearer, a permission too
(`auth.py:50-62`, `user_service.py:39-49`). The page only exchanges its login
token (`Control`); `Renew` is another client, with the same session, that
exchanges the permission it has. What users send is any of `Commands`, also what
the page never sends (parameters, an id).

*Crossing.* `fetchUser` stores its answer in whatever store it finds. The history
variable `crossed` records that one found another token than it was asked with,
or a user already. The four ownership properties hold up to a crossing, which
says exactly when the page can be wrong: until then the user shown is the
token's, the administration is shown to teachers only, and a socket that takes
commands belongs to the login. With a crossing a late answer shows another user
or logs out one who is in (the page stays, until the next navigation). No
document says otherwise, so that is an observation and not a finding.

*Command path.* `CommandsArriveWhole` is what `Documents/ros_y_dds.md` promises: at
294 and 305 the controller receives the command with its `params` and `id`, at
319 the answer has the id. It is violated: `RobotCommandExtended` declares
neither field and pydantic drops both, so that a sequence arrives without its
commands, is empty and succeeds, and no answer names its command. In
`UserPathCommands.cfg` the command sent is a sequence of one line with an id.
`TopicNamesRoundTrip` says that a robot is found under the topic it was told, and
no other robot is.

*Properties.* `UniqueUserNames`, `ShownUserOwnsToken`, `AdminPageIsForTeachers`,
`SocketFollowsLogin` and `CommandsArePermitted`; `PageAppears` and
`ConnectSettles` are liveness. `CommandsArePermitted` is all that the expiry is
worth: a permission can be renewed for ever, each time while the one before is
valid, so no number of lifetimes bounds how long a password opens a robot. But
whoever lets the last token of a user expire publishes nothing more, on a session
however old, until the password is checked again.

*Fairness.* Weak fairness of `GuardAnswered`: `fetch` of the guard resolves or
rejects, and both end it. Weak fairness of `Connection`: the browser opens a
WebSocket or reports that it cannot, frames and the close are delivered, and the
API waits ten seconds for a token and no longer. The user and the robot need not
do anything. `PageAppears` excepts a user who never stops loading the page.

*Observations.* `RegisterPage` sends `nombrecompleto` where the API wants
`nombre`, so that no sign-up from the page succeeds; accounts come from other
clients (`Join`). The page authenticates its socket with the login token, where
`Documents/arquitectura.md:326` speaks of the permission; the API takes either.

## Workspace set-up (`WorkspaceSetup`)

*State.* `packages` and `to_be_ordered` are the dictionaries of `order_packages`,
`ordered` its result; `env_state` and `known` the script's record of each
variable (`_env_states` alike), and `shell` what the commands printed so far
leave in the shell.

*Steps.* `Take` is one round of the ordering, `Reduce` one of
`reduce_cycle_set`, `Source` one line of a package's hooks. Of the packages that
are ready the script takes the alphabetically first, the model any. After a
`_set` the script keeps text where it expects a set (`ExtendText`): it takes a
value that occurs in the text for one that is there, or ends with an
`AttributeError` (`failed`).

The module is in no run: its theorems hold for all packages and hooks.

## ROS nodes (`SerialNodes`)

*State.* `topic` is all that was published on each topic, `next` the place of each
node's subscription in it, `port` and `plugged` the serial port and its cable,
`unread` what the Arduino said and nobody read, `written` what was written to it.

*Steps.* One action per callback and per start: the agent
(`listener_callback`, and its thread `read_from_serial`), the scraper
(`command_callback`, `read_serial`), the test listener (`on_command`), the dummy
publisher and the camera. A subscription is made at the start and hands out what
comes after it; with a full queue (depth 10 in the code, any depth here) the
oldest message goes. The agent catches every exception and goes on, also without
a port; in the other nodes an exception ends the process (`End`). `Stop` and the
starts may come at any point, `Unplug` makes open ports useless.

*Assumptions.* A line is read whole, and by one node: `2026/agent/README.md` says
that the scraper and the listener must not run together. The model lets them, and
gives each line to one of them.

*Properties.* `WritesInOrder`, `LinesInOrder`, `RunsWithItsPort`, and two about
what comes back to the Arduino. The agent publishes and subscribes on
`instruction`, so that all it reads it writes back: `NothingComesBack` holds
without an agent only, `EchoedOnce` with one.

The module is in no run: its theorems hold for all nodes and depths.

## Runs

| Run | Configuration | Bounds | Shows |
|---|---|---|---|
| `registry` | `RobotRegistry.cfg` | 2 identifiers, keys, passwords, threads; 3 input statuses; symmetric | the safety of the registry, and `LifecycleUnderRaces` |
| `registry_lifecycle` | `RobotRegistryLifecycle.cfg` | 2 threads | **violated**: two threads do not |
| `api_bridge` | `ApiBridge.cfg` | 2 robots, 2 sessions, queues of 1, 2 messages, 1 loss; all faults but `reconnect_loss` | safety and `ImplementsFeed` |
| `api_recovery` | `ApiBridgeRecovery.cfg` | 2 robots, 1 session, queue of 2, 2 losses, `reconnect_loss` | truthfulness and liveness |
| `api_deaf` | `ApiBridgeDeaf.cfg` | 2 robots, 1 session, 2 losses, `reconnect_loss` | **violated**: `RegisteredIsServed` |
| `api_clean_close` | `ApiBridgeCleanClose.cfg` | 1 session, a normal close | **violated**: `ListenerRecovers` |
| `bootstrap` | `PiBootstrap.cfg` | 3 identities, any number of kills and retries | safety and liveness of the start |
| `bootstrap_no_retry` | `PiBootstrapNoRetry.cfg` | the same | **violated**: `RetriesUntilApproved` |
| `pi_rosbridge` | `PiRosBridge.cfg` | 3 commands of 6 kinds, 1 loss, no fault | safety and liveness of the operation, and `ImplementsService` |
| `command_path` | `UserPathCommands.cfg` | 1 user, 1 robot, 1 command with parameters and an id | **violated**: `CommandsArriveWhole` |
| `user_path` | `UserPath.cfg` | 2 users, one of them a teacher with an account; 1 robot; a lifetime and a clock of 1 tick; 2 concurrent sign-ups; 1 request of each asker in flight; 1 command with parameters and id; topics of ids to 1100 | safety and liveness of browser and API together |
| `pi_rosbridge_exit` | `PiRosBridgeExit.cfg` | 1 command, 2 losses, `reconnect_loss` | **violated**: `Recovers` |

*Why the bounds are enough.* The races of the registry are between two requests
over one identifier or one robot; the second of each shows that they do not
disturb others, and the theorems remove the bound. A queue of one is full after
one message, so that dropping, and a second message after a drop, happen with
two messages. Two robots are needed for a half-finished resubscription, two
losses for a loss in the middle of a recovery. Three commands are what it takes
for one to time out, one to read its late answer, and one after them. Three
identities let the controller draw a new one after each of two removed files.
Nothing bounds kills, retries or requests: those runs are finite as they are.
Two users are what it takes for one to meet the answer meant for the other, two
sign-ups for one to lose; a clock of one tick lets a token be valid, expire
under an open session and be replaced by a login, which is where
`CommandsArePermitted` can fail (it does if `Valid` forgets the expiry). With a
lifetime of one tick a renewed permission expires with the one it is made from,
so a renewal that prolongs is not among TLC's states: the least bounds for that
(a lifetime and a clock of 2) have more than 5 million, and that half rests on
the theorem `CommandsNeedAPermission`, for all lifetimes. Ids above 32 and above 1024 have
two and three digits. The theorems remove these bounds, except the requests in
flight and the digits.

The runs of `ApiBridge` and `PiRosBridge` do not check for deadlock: those
systems stop when the bounded robots, users and losses are used up, or when the
listener or the process has ended.

## Proofs

`RobotRegistryProofs` is about any number of threads, identifiers, keys,
passwords and names, from `NoneAssumption` alone (the value that stands for NULL
is no row, key, name or status).

- The inductive invariant is `TypeInv`: `TypeOK`, and `InFlight` for each thread:
  what a request between two of its transactions holds (the request it serves,
  the row it loaded, that its robot is stored, that a decision loaded a pending
  row). `TypeOK` alone is not inductive: `Update` applies a record update to the
  row of `worker[w].id`, which is a row only because requests in flight hold
  stored robots. `TypeCorrect` is `Spec => []TypeInv`.
- `TableStep` says what any step does to the tables: nothing, an insert of one
  new row that the constraints accept, or an update of one row by a decision.
  `NextTableStep` proves it of every step; the other theorems need only this
  lemma and not the handlers: `CredentialsAreKept`, `IdentifiersAreUnique`,
  `SettledRobotsStaySettled`, `HistoryFollows`, `PendingIsNeverReentered`
  (strengthened by `HistoryFollowsRow`), `TokensNeedAnApproval` (strengthened:
  an approved row held by a handshake was approved in the history),
  `RegistrationsAreStored` (strengthened: a refused insert of a registration
  can only be refused by the unique key).
- `SequentialRegistryImplementsLifecycle`: with one thread, initial states map
  to initial states and each step to a step of `RobotLifecycle` or a stutter. The
  strengthening (`LoadedIsCurrent`, kept by `LoadedStaysCurrent`) says that the row a lone thread loaded is
  still the row in the table, which is what two threads break.
- `RegistryImplementsOverlappingLifecycle`: with any number of threads every step
  is a step of `OverlappingLifecycle` or a stutter. Nothing needs to be current
  any more. The strengthening (`Good`) consists of invariants proved before: with
  `UniqueExternalIds` the status of an identifier is that of one row, so that a
  write changes one status (`WriteChangesOneStatus`). A step changes the hand of
  one thread (`OneHandChanges`), and there is a lemma for each kind of step
  (`StartOverlaps`, `InsertOverlaps`, `UpdateOverlaps`, `VerifyOverlaps`).

`PiBootstrapProofs` is about any identities, from `BootstrapAssumption`. The
inductive invariant `BootInv` has the file as its anchor: what the process holds
is what the file says, and tokens are held by approved robots only. It holds
whatever may fail, and gives `BootstrapTypeOK` and `ApprovedBeforeOperating`:
also a controller that lost its identity to a file it could not read operates
under an approved one only. `OneRobot` and `CredentialsStay` have the hypothesis
that the file can be read when it is there and is not lost (`Faults = {}`; with
either fault TLC violates the second). `OneRobot` adds `KnownIsInTheFile`, that what the
API knows, or may still learn from a request that is late, is in the file;
`OneRobotPerController` alone is not inductive, since a kill before `Save` must
leave nothing behind.

`ApiBridgeProofs` is about any robots, sessions, queue size, messages, losses and
faults, from `BridgeAssumption`. `TypeInv` (every number in a buffer is of a
message that was published; a suspended task has a robot) gives `BridgeTypeOK`.
Each of the others builds on it:

- `QueueInv` adds to `QueuesMatchSessions` what is left of a session whose
  clean-up was cut short: it stays registered only for robots it asked for.
- `FeedInv` says that `inbox` and each `queue` are increasing, `inbox` ahead of
  the queues and a queue ahead of what was `seen`, and that everything queued is
  of a robot the session asked for. With it every step is one of `RobotFeed` or a
  stutter (`FeedSimulation`), which is `BridgeImplementsFeed`.
- `TruthInv` adds to `SubscribedIsTruthful` the tasks that are suspended in a
  send: what they have sent so far was sent on the connection that is up, because
  they are resumed before the listener reconnects (`NobodyMidSend`).
- `CoverInv` says that a robot with a queue is subscribed or is in the snapshot
  that the listener is working through. `FollowedRobotsAreServed` has the
  hypothesis `"reconnect_loss" \notin Faults`: with that fault it is the property
  that `ApiBridgeDeaf.cfg` shows violated.
- `OnlyAStatusFrameEndsTheListener` and `OnlyACleanCloseStallsTheLoop` say what
  each end of the listener needs: `dead` a status frame (`NoStatusFrame` follows
  the frame from rosbridge through `inbox`), `spinning` a normal close. They are
  the safety half of its recovery, for any number of losses and sessions.

`PiRosBridgeProofs` is about any number of commands and losses and any faults,
from `ControllerAssumption`. `ExecutesAtMostOnce` alone is not inductive: a
timeout leaves a command with lines written and answers owed. `ControllerInv`
follows both chains:

- A command goes from `inbox` to `job` to `replies`; its number is less than
  those behind it and greater than those ahead of it (`OrderInv`).
- The lines that were written and those the job has left add up to the lines of
  the command (`LinesInv`). `CommandsRunOnce` and `ResponsesAreTrue` follow.
- A line goes from `written` to `owed` to `line` to a reply, in the order of
  writing (`AnswersInv`), which is `AnswersStayInOrder` even for late answers.
- `RoomInv`, at most two lines for each command up to the last one taken, is what
  the bound on the serial line needs in place of a sum over all commands.
- `ControllerKeepsItsPromise` is the refinement of `CommandService`. That a command
  is later than all that moved the arm or was answered is in `OrderInv`, and that
  `ok` means complete in `LinesInv`; `Settled` adds that a response about to be
  published says how its command went.
- `ConnectionsAreComplete`: a live connection on which the listener has come as far
  as reading has been through the whole set-up, also after any number of others
  that were lost in the middle of theirs.
- `OnlyFaultsAndMistypedCommandsEndTheController`: without the faults that raise
  what nobody catches (`FatalFaults`) a process in operation ends over a mistyped
  command and over nothing else, whatever interleaving of losses, errors of the
  serial port and timeouts. `OnlyACleanCloseSpins` is the same bug as the API's.

`UserPathProofs` is about any users, teachers, robots, commands and lifetimes,
from `AccessAssumption`, `TokenAssumption` (no token is the value for null),
`PathAssumption` and `WaitingAssumption`. Four invariants build on each other:

- `TypeInv` types the state more finely than `TypeOK`: each variable and request
  holds the kind of token it is meant for, and a permission names a robot
  (`Permits`).
- `CoverInv` says of every token there is, in the store, in the history entry, in
  requests, answers and frames, that it expires no later than its user is covered
  (`Timely`). An access answer is Timely because the token it was asked with was
  valid when it was served, so that the cover goes on without a break;
  `CommandsNeedAPermission` follows at the publication.
- `PageInv` ties answers of `me` to the tokens they were asked with, and pages to
  the store. `UserIsTheTokens` alone is not inductive: an answer not yet stored
  must already be the right one.
- `LinkInv` follows the token from the page that mounts (`mounted`) through the
  frame that authenticates (`inward`) to the session; `SocketIsTheUsers` is its
  end. A frame "success auth" that is still on its way is why it speaks of
  `outward`.

`NavigateEnds` says what a navigation comes to (it waits, or a page is shown, or
the robot page stays); the steps of the browser need only this lemma.

`WorkspaceSetupProofs` is about any packages, requirements, hooks and variables.
`OrderIsTopological`, `OrderIsComplete`, `CircleIsReported` and
`PathsAreAddedOnce` each follow from an inductive invariant that relates what a
package still waits for to what was placed, the last two rounds of
`reduce_cycle_set` to each other, and the script's record of a variable to the
shell. What is proved of a circle is less than the docstring promises: a package
between two circles is reported as well.

`SerialNodesProofs` is about any nodes, kinds and depths (`Setting`: each node has
a kind, the depth is not 0). `SerialInv` follows a line from the device through
`unread` to a topic and back to a port: each part is ordered, and each is behind
the one before it. `CommandsAreWrittenInOrder` needs that every subscription is
past what its node wrote, which a restart keeps because it moves the subscription
to the end, and a full queue because it only moves it forward.
`LinesAreEchoedOnce` joins the two: lines are once in a topic, and places in a
topic are once in `written`. `LinesKeepTheirOrder`, `OnlyTheAgentEchoes` (its
hypothesis, no agent among the nodes, is how the second workspace is run) and
`NodesRunWithTheirPort` complete it.

*Only model-checked:* all liveness (fairness and `ENABLED` are out of the
prover's reach), the recursion of `Digits`, and the violated properties.

## What the models say of the code

| Where | What happens | Against |
|---|---|---|
| `robot_service.py:87` | an approval and a rejection that both read `pending_approval` both commit: a rejected robot becomes approved | `Documents/handshake.md:237`, rejected is "terminal por ahora" |
| `json_rpc_commands.py:5` (Api) | the parameters and the id of every command are dropped; a sequence is empty and succeeds | `Documents/ros_y_dds.md:294`, `:305`, `:319` |
| `rosbridge_client.py:168` (Api) | a loss during resubscription forgets the robots not reached, for ever | docstring at 161 |
| `rosbridge_client.py:61` (Api; the Pi's `:112` alike) | a normal close makes the listener spin and blocks the event loop | `Documents/arquitectura.md:127` |
| `server_service.py:170` | a registration that fails is never repeated, and the handshake is repeated for ever | docstring at 169 |
| `rosbridge_client.py:145` (Pi) | a loss before the subscription of a new connection ends the controller | `RaspberryPi/README.md:85`, automatic reconnection |
| `robot_controller.py:46` (Pi) | a command whose line is no string ends the controller unanswered (the disjunct `EndedByCommand` of `CommandsConclude` and `Recovers`) | `RaspberryPi/README.md:81-82`, `Documents/arquitectura.md:230` (-32602 for invalid parameters), docstring at `json_rpc.py:76` |
| `rosbridge_client.py:153` (Pi) | after a reconnection a status may be published before its topic is advertised and registered | docstrings at 162 and 171-175 |

The last two rows are steps of `PiRosBridge`; each of the others is a violated run.

Three more effects are states of the models and contradict no document: a clean-up
interrupted by a database error leaves queues registered (`DisconnectAborted`), a
permission can be renewed with itself for ever (`Renew`), and a file that exists
but cannot be read once is overwritten (with `read_error`, configuration
`PiBootstrapReadError.cfg`, TLC violates `IdentityIsKept` in four steps).

## Not modelled

- The two listings and the user-facing reads of the registry: they change nothing.
- The expiry of a robot's own token (users' tokens expire in `UserAccess`).
- In the web client: the lists and messages that pages show, the administrator's
  requests from `AdminRobotsPage` (the registry takes them from anybody), and
  more than one tab.
- Of the set-up script: the files it sources, the separators it removes at the
  end, and the copies of it in the other install directories.
- `disconnect()` of both clients: it only runs when the process ends.
- What rosbridge does with a status that is published before its topic is
  advertised or registered (the model lets the controller publish it).
- Fragments of serial lines: an answer is read whole or not at all.
- Frames that are not JSON, foreign topics, wording of errors and logs.
- rosbridge, DDS, PostgreSQL, FastAPI and asyncio themselves: modelled by what
  the code sees of them.
- Of the ROS nodes: what a line or a frame says, and two nodes that read parts of
  one line.
- Nginx, quadlets, images, `hello_agent` and the containers under `ros_tryouts`,
  presentation in the web client.

## Plan

Done: registry, API bridge, controller start, controller in operation, user path,
workspace set-up and ROS nodes, each with proofs; four refinements of abstract
specifications are proved. Next, in order:

1. One composition of `ApiBridge` and `PiRosBridge`: today they meet only in the
   topics of `CommandPath`, and each models rosbridge as what it sees of it.
   `RobotFeed` and `CommandService` are the two halves of what it would promise.
2. The administrator's page and the expiry of a robot's own token.
