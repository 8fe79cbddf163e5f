--------------------------- MODULE RobotLifecycle ---------------------------
(***************************************************************************)
(* The life of a robot as Documents/handshake.md ("Estados del Robot",     *)
(* lines 233-238) promises it: the states an identifier goes through, which *)
(* transitions exist, and that only an approved robot is handed a token.   *)
(* It knows nothing of requests, threads, rows or transactions.            *)
(***************************************************************************)

CONSTANT ExternalIds        \* the identifiers the controllers generate

VARIABLES status,           \* the state of each identifier
          tokens            \* the identifiers that were handed a token

lifecycle == <<status, tokens>>

LifecycleStatus == {"pending_approval", "approved", "rejected", "disabled"}

\* The documented table: what each state may become.
Transitions == [ pending_approval |-> {"approved", "rejected"},
                 approved         |-> {"disabled"},
                 rejected         |-> {},
                 disabled         |-> {"approved"} ]

Init == /\ status = [e \in ExternalIds |-> "unknown"]
        /\ tokens = {}

\* A controller announces itself, or an administrator creates the robot.
Appear(e) ==
    /\ status[e] = "unknown"
    /\ \E s \in LifecycleStatus : status' = [status EXCEPT ![e] = s]
    /\ UNCHANGED tokens

Decide(e) ==
    /\ status[e] \in LifecycleStatus
    /\ \E s \in Transitions[status[e]] : status' = [status EXCEPT ![e] = s]
    /\ UNCHANGED tokens

GrantToken(e) ==
    /\ status[e] = "approved"
    /\ tokens' = tokens \union {e}
    /\ UNCHANGED status

Next == \E e \in ExternalIds : Appear(e) \/ Decide(e) \/ GrantToken(e)

Spec == Init /\ [][Next]_lifecycle
=============================================================================
