-------------------------- MODULE PiBootstrapProofs --------------------------
(***************************************************************************)
(* Proofs about the start of the controller, for any identities and any     *)
(* number of kills.  The file is the anchor: what the process holds in       *)
(* memory is what the file says, and so is whatever the API knows of the     *)
(* controller.  The second needs a file that can be read and is not lost.   *)
(***************************************************************************)
EXTENDS PiBootstrap, TLAPS

\* The process loaded or saved its credentials.
HoldsIdentity == pc \in {"register", "handshake", "waiting", "connected", "operating"}

\* What is in memory is in the file.
FileAnchors ==
    /\ pc = "writing" => file = "empty"
    /\ HoldsIdentity => identity \in Identities /\ file = identity

\* ... and so is what the API knows or may still learn.
KnownIsInTheFile == \A e \in Identities : Known(e) => file = e

\* Tokens are for approved robots, and past the handshake there is one.
TokensAreEarned ==
    /\ \A e \in tokens : status[e] = "approved"
    /\ pc \in {"connected", "operating"} => identity \in tokens

BootInv == TypeOK /\ FileAnchors /\ TokensAreEarned

--------------------------------------------------------------------------

\* Serving a registration makes nothing known that was not asked for, and neither
\* changes a robot that is known nor takes a token.
LEMMA ServingRegistersOnly ==
    ASSUME TypeOK, NEW e \in Identities, ServeRegistration(e)
    PROVE  /\ status' \in [Identities -> Api!LifecycleStatus \union {"unknown"}]
           /\ status'[e] # "unknown"
           /\ \A f \in Identities : status[f] # "unknown" => status'[f] = status[f]
           /\ \A f \in Identities : f # e => status'[f] = status[f]
           /\ tokens' = tokens
<1>1. CASE Api!Appear(e) /\ status'[e] = "pending_approval"
    BY <1>1 DEF TypeOK, Api!Appear, Api!LifecycleStatus
<1>2. CASE status[e] # "unknown" /\ UNCHANGED <<status, tokens>>
    BY <1>2 DEF TypeOK
<1> QED BY <1>1, <1>2 DEF ServeRegistration

\* The invariant holds before the controller ever ran.
LEMMA BootInvInit == Init => BootInv
<1> SUFFICES ASSUME Init PROVE BootInv
    OBVIOUS
<1>1. TypeOK
    BY DEF Init, TypeOK, Steps, Api!Init, Api!LifecycleStatus
<1>2. FileAnchors
    BY DEF Init, FileAnchors, HoldsIdentity, Known, Api!Init
<1>3. TokensAreEarned
    BY DEF Init, TokensAreEarned, Api!Init
<1> QED BY <1>1, <1>2, <1>3 DEF BootInv

\* Each step of the controller and of the API keeps it, whatever may fail.
LEMMA BootInvNext == BootInv /\ [Next]_vars => BootInv'
<1> SUFFICES ASSUME BootInv, [Next]_vars PROVE BootInv'
    OBVIOUS
<1> USE BootstrapAssumption
<1>t. TypeOK /\ FileAnchors /\ TokensAreEarned
    BY DEF BootInv
<1>1. CASE Load
    <2>1. TypeOK'
        BY <1>1, <1>t DEF Load, Goto, TypeOK, Steps, api
    <2>2. FileAnchors'
        BY <1>1, <1>t DEF Load, Goto, TypeOK, FileAnchors, HoldsIdentity, Known, api
    <2>3. TokensAreEarned'
        BY <1>1, <1>t DEF Load, Goto, TokensAreEarned, api
    <2> QED BY <2>1, <2>2, <2>3 DEF BootInv
<1>2. CASE Save
    <2>1. PICK e \in Identities : /\ status[e] = "unknown" /\ e \notin delayed
                                  /\ identity' = e /\ file' = e
        BY <1>2 DEF Save
    <2>2. pc = "writing" /\ pc' = "register" /\ UNCHANGED api
        BY <1>2 DEF Save
    <2>3. TypeOK'
        BY <2>1, <2>2, <1>t DEF TypeOK, Steps, api
    <2>4. FileAnchors'
        BY <2>1, <2>2, <1>t DEF FileAnchors, HoldsIdentity, Known, api
    <2>5. TokensAreEarned'
        BY <2>2, <1>t DEF TokensAreEarned, api
    <2> QED BY <2>3, <2>4, <2>5 DEF BootInv
<1>3. CASE Register
    <2>1. /\ pc = "register" /\ pc' = "handshake"
          /\ UNCHANGED <<file, identity>> /\ identity \in Identities /\ file = identity
        BY <1>3, <1>t DEF Register, Goto, FileAnchors, HoldsIdentity
    <2>2. CASE ServeRegistration(identity) /\ UNCHANGED delayed
        <3>1. /\ status' \in [Identities -> Api!LifecycleStatus \union {"unknown"}]
              /\ \A f \in Identities : status[f] # "unknown" => status'[f] = status[f]
              /\ \A f \in Identities : f # identity => status'[f] = status[f]
              /\ tokens' = tokens
            BY <1>t, <2>1, <2>2, ServingRegistersOnly
        <3>2. TypeOK'
            BY <3>1, <2>1, <2>2, <1>t DEF TypeOK, Steps
        <3>3. FileAnchors'
            BY <3>1, <2>1, <2>2, <1>t DEF FileAnchors, HoldsIdentity, Known
        <3>4. TokensAreEarned'
            BY <3>1, <2>1, <1>t DEF TokensAreEarned, TypeOK
        <3> QED BY <3>2, <3>3, <3>4 DEF BootInv
    <2>3. CASE delayed' \in {delayed, delayed \union {identity}} /\ UNCHANGED <<status, tokens>>
        <3>1. TypeOK'
            BY <2>1, <2>3, <1>t DEF TypeOK, Steps
        <3>2. FileAnchors'
            BY <2>1, <2>3, <1>t DEF FileAnchors, HoldsIdentity, Known
        <3>3. TokensAreEarned'
            BY <2>1, <2>3, <1>t DEF TokensAreEarned
        <3> QED BY <3>1, <3>2, <3>3 DEF BootInv
    <2> QED BY <1>3, <2>2, <2>3 DEF Register, api
<1>4. CASE HandshakeGranted
    <2>1. /\ pc = "handshake" /\ pc' = "connected" /\ UNCHANGED <<file, identity, delayed, status>>
          /\ identity \in Identities /\ file = identity
          /\ status[identity] = "approved" /\ tokens' = tokens \union {identity}
        BY <1>4, <1>t DEF HandshakeGranted, Goto, FileAnchors, HoldsIdentity, Api!GrantToken
    <2>2. TypeOK'
        BY <2>1, <1>t DEF TypeOK, Steps
    <2>3. FileAnchors'
        BY <2>1, <1>t DEF FileAnchors, HoldsIdentity, Known
    <2>4. TokensAreEarned'
        BY <2>1, <1>t DEF TokensAreEarned
    <2> QED BY <2>2, <2>3, <2>4 DEF BootInv
<1>5. CASE HandshakeFailed
    <2>1. /\ pc = "handshake" /\ pc' = "waiting" /\ UNCHANGED <<file, identity, delayed, status>>
          /\ identity \in Identities /\ file = identity
          /\ \/ tokens' = tokens
             \/ status[identity] = "approved" /\ tokens' = tokens \union {identity}
        BY <1>5, <1>t DEF HandshakeFailed, Goto, FileAnchors, HoldsIdentity, Api!GrantToken
    <2>2. TypeOK'
        BY <2>1, <1>t DEF TypeOK, Steps
    <2>3. FileAnchors'
        BY <2>1, <1>t DEF FileAnchors, HoldsIdentity, Known
    <2>4. TokensAreEarned'
        BY <2>1, <1>t DEF TokensAreEarned
    <2> QED BY <2>2, <2>3, <2>4 DEF BootInv
<1>6. CASE Retry \/ OpenArduino
    <2>1. /\ UNCHANGED <<file, identity, delayed, status, tokens>>
          /\ \/ pc = "waiting" /\ pc' = "handshake"
             \/ pc = "connected" /\ pc' \in {"operating", "exited"}
        BY <1>6 DEF Retry, OpenArduino, Goto, api
    <2>2. TypeOK'
        BY <2>1, <1>t DEF TypeOK, Steps
    <2>3. FileAnchors'
        BY <2>1, <1>t DEF FileAnchors, HoldsIdentity, Known
    <2>4. TokensAreEarned'
        BY <2>1, <1>t DEF TokensAreEarned
    <2> QED BY <2>2, <2>3, <2>4 DEF BootInv
<1>7. CASE Kill
    BY <1>7, <1>t DEF Kill, BootInv, TypeOK, Steps, FileAnchors, HoldsIdentity, Known,
                      TokensAreEarned, api
<1>8. CASE RemoveEmpty
    BY <1>8, <1>t DEF RemoveEmpty, BootInv, TypeOK, Steps, FileAnchors, HoldsIdentity, Known,
                      TokensAreEarned, api
<1>9. ASSUME NEW e \in Identities, ServeDelayed(e) PROVE BootInv'
    <2>1. e \in delayed /\ delayed' = delayed \ {e} /\ UNCHANGED <<file, pc, identity>>
        BY <1>9 DEF ServeDelayed, controller
    <2>2. /\ status' \in [Identities -> Api!LifecycleStatus \union {"unknown"}]
          /\ \A f \in Identities : status[f] # "unknown" => status'[f] = status[f]
          /\ \A f \in Identities : f # e => status'[f] = status[f]
          /\ tokens' = tokens
        BY <1>9, <1>t, ServingRegistersOnly DEF ServeDelayed
    <2>3. TypeOK'
        BY <2>1, <2>2, <1>t DEF TypeOK
    <2>4. FileAnchors'
        BY <2>1, <2>2, <1>t DEF FileAnchors, HoldsIdentity, Known
    <2>5. TokensAreEarned'
        BY <2>1, <2>2, <1>t DEF TokensAreEarned, TypeOK
    <2> QED BY <2>3, <2>4, <2>5 DEF BootInv
<1>10. ASSUME NEW e \in Identities, Decide(e) PROVE BootInv'
    <2>1. PICK s \in {"approved", "rejected"} :
             /\ status' = [status EXCEPT ![e] = s]
             /\ status[e] = "pending_approval"
             /\ UNCHANGED <<file, pc, identity, delayed, tokens>>
        <3>1. Api!Transitions["pending_approval"] = {"approved", "rejected"}
            BY DEF Api!Transitions
        <3>2. /\ status[e] = "pending_approval"
              /\ \E s \in Api!Transitions[status[e]] : status' = [status EXCEPT ![e] = s]
              /\ UNCHANGED <<file, pc, identity, delayed, tokens>>
            BY <1>10 DEF Decide, Api!Decide, controller
        <3> QED BY <3>1, <3>2
    <2>2. TypeOK'
        BY <2>1, <1>t DEF TypeOK, Api!LifecycleStatus
    <2>3. FileAnchors'
        BY <2>1, <1>t DEF FileAnchors, HoldsIdentity, Known, TypeOK
    <2>4. TokensAreEarned'
        BY <2>1, <1>t DEF TokensAreEarned, TypeOK
    <2> QED BY <2>2, <2>3, <2>4 DEF BootInv
<1>11. CASE UNCHANGED vars
    BY <1>11 DEF vars, controller, api, BootInv, TypeOK, FileAnchors, HoldsIdentity, Known,
                 TokensAreEarned
<1> QED
    BY <1>1, <1>2, <1>3, <1>4, <1>5, <1>6, <1>7, <1>8, <1>9, <1>10, <1>11
    DEF Next, Controller

\* As long as the file can be read when it is there, and is not lost, no step makes the API know, now or
\* later, an identity that the file does not hold.
LEMMA KnownNext ==
    ASSUME Faults = {}
    PROVE  BootInv /\ KnownIsInTheFile /\ [Next]_vars => KnownIsInTheFile'
<1> SUFFICES ASSUME Faults = {}, BootInv, KnownIsInTheFile, [Next]_vars
             PROVE  KnownIsInTheFile'
    OBVIOUS
<1> USE BootstrapAssumption
<1>t. TypeOK /\ FileAnchors
    BY DEF BootInv
<1>1. CASE Load \/ RemoveEmpty
    <2>1. UNCHANGED api /\ (file \in Identities => file' = file)
        BY <1>1 DEF Load, Goto, RemoveEmpty
    <2> QED BY <2>1 DEF KnownIsInTheFile, Known, api
<1>2. CASE Save
    <2>1. UNCHANGED api /\ \A e \in Identities : ~ Known(e)
        BY <1>2, <1>t DEF Save, FileAnchors, KnownIsInTheFile
    <2> QED BY <2>1 DEF KnownIsInTheFile, Known, api
<1>3. CASE Register
    <2>1. file' = file /\ identity \in Identities /\ file = identity
        BY <1>3, <1>t DEF Register, Goto, FileAnchors, HoldsIdentity
    <2>2. ServeRegistration(identity) =>
            \A f \in Identities : f # identity => status'[f] = status[f]
        BY <1>t, <2>1, ServingRegistersOnly
    <2> QED BY <1>3, <2>1, <2>2 DEF Register, KnownIsInTheFile, Known, api
<1>4. CASE HandshakeGranted \/ HandshakeFailed \/ Retry \/ OpenArduino \/ Kill
    <2>1. UNCHANGED <<file, delayed, status>>
        BY <1>4 DEF HandshakeGranted, HandshakeFailed, Retry, OpenArduino, Kill, Goto, api,
                    Api!GrantToken
    <2> QED BY <2>1 DEF KnownIsInTheFile, Known
<1>5. ASSUME NEW e \in Identities, ServeDelayed(e) PROVE KnownIsInTheFile'
    <2>1. e \in delayed /\ delayed' = delayed \ {e} /\ file' = file
        BY <1>5 DEF ServeDelayed, controller
    <2>2. \A f \in Identities : f # e => status'[f] = status[f]
        BY <1>5, <1>t, ServingRegistersOnly DEF ServeDelayed
    <2> QED BY <2>1, <2>2 DEF KnownIsInTheFile, Known
<1>6. ASSUME NEW e \in Identities, Decide(e) PROVE KnownIsInTheFile'
    <2>1. /\ status[e] = "pending_approval" /\ UNCHANGED <<file, delayed>>
          /\ \E s : status' = [status EXCEPT ![e] = s]
        BY <1>6 DEF Decide, Api!Decide, controller
    <2>2. \A f \in Identities : f # e => status'[f] = status[f]
        BY <2>1, <1>t DEF TypeOK
    <2> QED BY <2>1, <2>2 DEF KnownIsInTheFile, Known
<1>7. CASE UNCHANGED vars
    BY <1>7 DEF vars, controller, api, KnownIsInTheFile, Known
<1> QED
    BY <1>1, <1>2, <1>3, <1>4, <1>5, <1>6, <1>7 DEF Next, Controller

\* BootInv is an invariant of the specification, whatever may fail.
THEOREM BootstrapInvariant == Spec => []BootInv
    BY BootInvInit, BootInvNext, PTL DEF Spec

\* Types are respected at each step of the start.
THEOREM BootstrapTypeOK == Spec => []TypeOK
<1>1. BootInv => TypeOK
    BY DEF BootInv
<1> QED BY <1>1, BootstrapInvariant, PTL

\* A controller that got past its handshake acts under the approved identity in its
\* file, even if it lost its former one to a file that could not be read, or was lost.
THEOREM ApprovedBeforeOperating == Spec => []OperatesApproved
<1>1. BootInv => OperatesApproved
    BY DEF BootInv, FileAnchors, HoldsIdentity, TokensAreEarned, OperatesApproved
<1> QED BY <1>1, BootstrapInvariant, PTL

\* The API never knows, nor will learn of, two identities of one controller: a robot
\* whose process is killed at any moment does not appear twice before the administrator.
THEOREM OneRobot == Faults = {} => (Spec => []OneRobotPerController)
<1> SUFFICES ASSUME Faults = {} PROVE Spec => []OneRobotPerController
    OBVIOUS
<1>1. Init => KnownIsInTheFile
    BY DEF Init, KnownIsInTheFile, Known, Api!Init
<1>2. BootInv /\ KnownIsInTheFile /\ [Next]_vars => KnownIsInTheFile'
    BY KnownNext
<1>3. KnownIsInTheFile => OneRobotPerController
    BY DEF KnownIsInTheFile, OneRobotPerController
<1> QED BY <1>1, <1>2, <1>3, BootstrapInvariant, PTL DEF Spec

\* Saved credentials are never replaced, if the file is not lost.
THEOREM CredentialsStay == Faults = {} => (Spec => IdentityIsKept)
<1> SUFFICES ASSUME Faults = {} PROVE Spec => IdentityIsKept
    OBVIOUS
<1>1. BootInv /\ [Next]_vars => [(file \in Identities => file' = file)]_vars
    <2> SUFFICES ASSUME BootInv, Next, file \in Identities PROVE file' = file
        BY DEF vars
    <2>1. file # "absent" /\ file # "empty"
        BY BootstrapAssumption
    <2>2. pc # "writing"
        BY <2>1 DEF BootInv, FileAnchors
    <2>3. CASE Controller
        BY <2>1, <2>2, <2>3 DEF Controller, Load, Save, Register, HandshakeGranted,
            HandshakeFailed, Retry, OpenArduino, Kill, RemoveEmpty, Goto
    <2>4. CASE \E e \in Identities : ServeDelayed(e) \/ Decide(e)
        BY <2>4 DEF ServeDelayed, Decide, controller
    <2> QED BY <2>3, <2>4 DEF Next
<1>2. Spec => []BootInv
    BY BootstrapInvariant
<1> QED BY <1>1, <1>2, PTL DEF Spec, IdentityIsKept
=============================================================================
