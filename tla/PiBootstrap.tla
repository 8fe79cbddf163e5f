----------------------------- MODULE PiBootstrap -----------------------------
(***************************************************************************)
(* The start of a robot's controller on the Raspberry Pi (ServerServices    *)
(* and main): load or create robot-metadata.json, register once, repeat the *)
(* handshake until an administrator approved the robot, open the Arduino.   *)
(* The process may be killed between any two steps and started again.       *)
(*                                                                         *)
(* The API is what RobotLifecycle promises of it; requests to it and their  *)
(* answers may be lost, and a request may be served after its ten seconds.  *)
(***************************************************************************)
EXTENDS Naturals, FiniteSets

CONSTANTS Identities,     \* what uuid4() and the random password may be
          Faults,         \* which of FaultKinds may happen
          None

FaultKinds == {"read_error", "power_cut"}

ASSUME BootstrapAssumption ==
    /\ None \notin Identities
    /\ Identities \cap {"absent", "empty"} = {}
    /\ Faults \subseteq FaultKinds

VARIABLES
    file,         \* robot-metadata.json: absent, empty, or the identity it holds
    pc,           \* where the controller process is
    identity,     \* its identity in memory
    delayed,      \* registrations it gave up waiting for, which the API may still serve
    status,       \* the API: the state of each identity
    tokens        \* the API: identities that were handed a token

controller == <<file, pc, identity>>
api == <<delayed, status, tokens>>
vars == <<controller, api>>

Api == INSTANCE RobotLifecycle WITH ExternalIds <- Identities

\* "stopped" was killed or never started, "exited" ended with an exception.
Steps == {"stopped", "exited", "writing", "register", "handshake", "waiting",
          "connected", "operating"}

TypeOK ==
    /\ file \in Identities \union {"absent", "empty"}
    /\ pc \in Steps
    /\ identity \in Identities \union {None}
    /\ delayed \in SUBSET Identities
    /\ status \in [Identities -> Api!LifecycleStatus \union {"unknown"}]
    /\ tokens \in SUBSET Identities

Init == /\ file = "absent" /\ pc = "stopped" /\ identity = None /\ delayed = {}
        /\ Api!Init

--------------------------------------------------------------------------
(* The API, as the controller sees it. *)

\* register_robot: an unknown identity becomes a pending robot, a known one stays as it is.
ServeRegistration(e) ==
    \/ Api!Appear(e) /\ status'[e] = "pending_approval"
    \/ status[e] # "unknown" /\ UNCHANGED <<status, tokens>>

\* A registration the controller no longer waits for is served after all.
ServeDelayed(e) ==
    /\ e \in delayed
    /\ ServeRegistration(e)
    /\ delayed' = delayed \ {e}
    /\ UNCHANGED controller

\* An administrator approves or rejects a pending robot.
Decide(e) ==
    /\ status[e] = "pending_approval"
    /\ Api!Decide(e)
    /\ UNCHANGED <<controller, delayed>>

--------------------------------------------------------------------------
(* The controller. *)

Goto(step) == pc' = step /\ UNCHANGED <<file, identity>>

\* Variants: one takes whatever the file holds, one makes new credentials on each start.
LoadWhatever ==
    /\ pc \in {"stopped", "exited"}
    /\ \/ file # "absent" /\ identity' = file /\ pc' = "register" /\ UNCHANGED file
       \/ file = "absent" /\ file' = "empty" /\ pc' = "writing" /\ UNCHANGED identity
    /\ UNCHANGED api

LoadNothing ==
    /\ pc \in {"stopped", "exited"}
    /\ file' = "empty" /\ pc' = "writing"
    /\ UNCHANGED <<identity, api>>

\* load_config.  Only an IOError counts as "no file": what is not JSON ends the process.
\* Without a file, either CREATE_DEFAULT_METADATA is set and it is opened for writing,
\* which truncates what is there, or the process ends.
Load ==
    /\ pc \in {"stopped", "exited"}
    /\ \/ /\ file \in Identities
          /\ identity' = file /\ pc' = "register"
          /\ UNCHANGED file
       \/ /\ file = "empty"
          /\ Goto("exited")
       \/ /\ file # "absent" => "read_error" \in Faults
          /\ \/ file' = "empty" /\ pc' = "writing" /\ UNCHANGED identity
             \/ Goto("exited")
    /\ UNCHANGED api

\* A variant that leaves the file for later.
SaveLater ==
    /\ pc = "writing"
    /\ \E e \in Identities :
          /\ status[e] = "unknown" /\ e \notin delayed
          /\ identity' = e
    /\ pc' = "register"
    /\ UNCHANGED <<file, api>>

\* create_default_config: fresh credentials, which reach the file when it is closed.
Save ==
    /\ pc = "writing"
    /\ \E e \in Identities :
          /\ status[e] = "unknown" /\ e \notin delayed
          /\ identity' = e /\ file' = e
    /\ pc' = "register"
    /\ UNCHANGED api

\* register: once, and whatever its result the handshake follows.
Register ==
    /\ pc = "register"
    /\ Goto("handshake")
    /\ \/ ServeRegistration(identity) /\ UNCHANGED delayed
       \/ delayed' = delayed \union {identity} /\ UNCHANGED <<status, tokens>>
       \/ UNCHANGED api

\* connect: the robot is approved and the token arrives.
HandshakeGranted ==
    /\ pc = "handshake"
    /\ Api!GrantToken(identity)
    /\ Goto("connected")
    /\ UNCHANGED delayed

\* Variants of the rest: any answer will do, and only an unreachable API is asked again.
AnyAnswer ==
    /\ pc = "handshake"
    /\ Goto("connected")
    /\ UNCHANGED api

GiveUpIfRefused ==
    /\ pc = "handshake"
    /\ \/ Goto("exited")
       \/ status[identity] = "approved" /\ Goto("waiting")
    /\ UNCHANGED api

\* 400 or 403, no answer (the status code is 0), or a token whose answer is lost.
HandshakeFailed ==
    /\ pc = "handshake"
    /\ Goto("waiting")
    /\ \/ UNCHANGED <<status, tokens>>
       \/ Api!GrantToken(identity)
    /\ UNCHANGED delayed

\* connect_with_retry: both kinds of failure wait, twice as long each time, and try again.
Retry ==
    /\ pc = "waiting"
    /\ Goto("handshake")
    /\ UNCHANGED api

\* RobotController.__enter__: an Arduino that cannot be opened ends the process.
OpenArduino ==
    /\ pc = "connected"
    /\ \E step \in {"operating", "exited"} : Goto(step)
    /\ UNCHANGED api

\* The process is killed: memory is gone, the file is as it is.  If the Pi loses its power
\* before the file system wrote the file out (it is closed without fsync), it may be empty.
Kill ==
    /\ pc \notin {"stopped", "exited"}
    /\ pc' = "stopped" /\ identity' = None
    /\ \/ UNCHANGED file
       \/ "power_cut" \in Faults /\ file # "absent" /\ file' = "empty"
    /\ UNCHANGED api

\* Someone removes a file that does not let the controller start.
RemoveEmpty ==
    /\ pc = "exited" /\ file = "empty"
    /\ file' = "absent"
    /\ UNCHANGED <<pc, identity, api>>

Controller == \/ Load \/ Save \/ Register \/ HandshakeGranted \/ HandshakeFailed
              \/ Retry \/ OpenArduino \/ Kill \/ RemoveEmpty

Next == Controller \/ \E e \in Identities : ServeDelayed(e) \/ Decide(e)

Spec == Init /\ [][Next]_vars

\* The retry loop goes on, administrators decide in the end, and of the handshakes
\* made once the robot is approved not every one is lost.
Fairness ==
    /\ WF_vars(Register) /\ WF_vars(Retry)
    /\ WF_vars(HandshakeFailed) /\ SF_vars(HandshakeGranted)
    /\ \A e \in Identities : WF_vars(ServeDelayed(e)) /\ WF_vars(Decide(e))

FairSpec == Spec /\ Fairness

--------------------------------------------------------------------------
(* Properties. *)

Known(e) == status[e] # "unknown" \/ e \in delayed

\* However often the controller is killed, while it writes its file included, it makes
\* itself known to the API under one identity: there is one robot to approve.
OneRobotPerController == \A e, f \in Identities : Known(e) /\ Known(f) => e = f

\* Credentials that were saved stay: load_config never replaces a file that holds some.
IdentityIsKept == [][(file \in Identities => file' = file)]_vars

\* "no pueden operar hasta que un administrador los apruebe" (handshake.md): past its
\* bootstrap, the process acts under the identity in its file, approved and with a token.
OperatesApproved ==
    pc \in {"connected", "operating"} =>
        /\ identity = file
        /\ identity \in tokens
        /\ status[identity] = "approved"

\* A registered robot gets through the handshake, unless it is rejected or killed.
RegisteredConnects ==
    (pc = "waiting" /\ status[identity] # "unknown")
        ~> \/ pc \in {"connected", "operating", "stopped"}
           \/ pc = "waiting" /\ status[identity] = "rejected"

\* "Registra el robot y reintenta handshake hasta ser aprobado": every controller that
\* waits gets through.
RetriesUntilApproved ==
    pc = "waiting" ~> \/ pc \in {"connected", "operating", "stopped"}
                      \/ pc = "waiting" /\ status[identity] = "rejected"
=============================================================================
