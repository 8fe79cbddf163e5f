------------------------ MODULE OverlappingLifecycle ------------------------
(***************************************************************************)
(* The life of a robot as the API really gives it when requests overlap: a  *)
(* weaker RobotLifecycle.  Someone who decides looks at the robot first and *)
(* writes later, and so does a handshake that grants a token.  A decision   *)
(* may therefore fall on a robot that is decided by then, and a token on    *)
(* one that is not approved any more, but only by who looked in time.       *)
(***************************************************************************)
CONSTANTS ExternalIds,      \* the identifiers of the robots
          Workers,          \* who may be serving a request
          None

VARIABLES status,           \* the state of each identifier
          tokens,           \* the identifiers that were handed a token
          hand              \* what each worker is about to do

overlapping == <<status, tokens, hand>>

LifecycleStatus == {"pending_approval", "approved", "rejected", "disabled"}

Nothing == [does |-> "nothing", about |-> None]

Init == /\ status = [e \in ExternalIds |-> "unknown"]
        /\ tokens = {}
        /\ hand = [w \in Workers |-> Nothing]

Appear(e) ==
    /\ UNCHANGED <<hand, tokens>>
    /\ status[e] = "unknown"
    /\ \E s \in LifecycleStatus : status' = [status EXCEPT ![e] = s]

\* A decision needs a pending robot, and a token an approved one, when it is looked at.
Look(w, e, does) ==
    /\ hand[w] = Nothing
    /\ hand' = [hand EXCEPT ![w] = [does |-> does, about |-> e]]
    /\ status[e] = IF does = "decide" THEN "pending_approval" ELSE "approved"
    /\ UNCHANGED <<status, tokens>>

Decide(w, e) ==
    /\ hand[w] = [does |-> "decide", about |-> e]
    /\ hand' = [hand EXCEPT ![w] = Nothing]
    /\ \E s \in {"approved", "rejected"} : status' = [status EXCEPT ![e] = s]
    /\ UNCHANGED tokens

GrantToken(w, e) ==
    /\ hand[w] = [does |-> "grant", about |-> e]
    /\ hand' = [hand EXCEPT ![w] = Nothing]
    /\ tokens' = tokens \union {e}
    /\ UNCHANGED status

\* Some workers, or all, leave what they were about to do.
LetGo(leaving) ==
    /\ hand' = [w \in Workers |-> IF w \in leaving THEN Nothing ELSE hand[w]]
    /\ UNCHANGED <<status, tokens>>

Next == \/ \E leaving \in SUBSET Workers : LetGo(leaving)
        \/ \E w \in Workers, e \in ExternalIds :
              \/ Decide(w, e) \/ GrantToken(w, e)
              \/ \E does \in {"decide", "grant"} : Look(w, e, does)
        \/ \E e \in ExternalIds : Appear(e)

Spec == Init /\ [][Next]_overlapping
=============================================================================
