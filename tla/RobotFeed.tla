------------------------------ MODULE RobotFeed ------------------------------
(***************************************************************************)
(* What a user of the bridge may count on, stated without rosbridge,       *)
(* connections, topics or queues: a user sees messages of robots the user  *)
(* asked for, each at most once and in the order they were published.      *)
(* Messages may be missed; nothing is repeated, reordered or foreign.      *)
(***************************************************************************)
EXTENDS Naturals, Sequences

CONSTANTS Robots, Sessions

VARIABLES published,    \* the robot that published message 1, 2, 3, ...
          interest,     \* the robots each session asked for
          seen          \* the last message each session was sent

feed == <<published, interest, seen>>

Init == /\ published = <<>>
        /\ interest = [s \in Sessions |-> {}]
        /\ seen = [s \in Sessions |-> 0]

Publish(r) == published' = Append(published, r) /\ UNCHANGED <<interest, seen>>

Ask(s, r) == /\ interest' = [interest EXCEPT ![s] = @ \union {r}]
             /\ UNCHANGED <<published, seen>>

Leave(s) == interest' = [interest EXCEPT ![s] = {}] /\ UNCHANGED <<published, seen>>

See(s) == \E n \in seen[s] + 1 .. Len(published) :
             /\ published[n] \in interest[s]
             /\ seen' = [seen EXCEPT ![s] = n]
             /\ UNCHANGED <<published, interest>>

Next == \/ \E r \in Robots : Publish(r)
        \/ \E s \in Sessions : Leave(s) \/ See(s) \/ \E r \in Robots : Ask(s, r)

Spec == Init /\ [][Next]_feed
=============================================================================
