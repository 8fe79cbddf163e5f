--------------------------- MODULE CommandService ----------------------------
(***************************************************************************)
(* What a robot's controller promises to who sends it commands, without the *)
(* connections, buffers and threads of PiRosBridge: commands are taken one  *)
(* at a time, never back to one that has moved the arm or been answered;    *)
(* the arm moves only for the command in hand and never more often than it  *)
(* asks; and the answer, if there is one, closes the command and says "ok"   *)
(* only when all its moves were made.                                       *)
(***************************************************************************)
EXTENDS Naturals, Sequences, FiniteSets

CONSTANTS Kinds,      \* what a command may ask for
          Moves,      \* [Kinds -> Nat]: how many moves that can be
          Refused     \* the kinds that are never answered with "ok"

VARIABLES
    asked,      \* the kind of command 1, 2, 3, ...
    busy,       \* the command in hand, 0 when there is none
    moved,      \* the command of each move of the arm
    answers     \* what was answered, with the command it is about

vars == <<asked, busy, moved, answers>>

Init == asked = <<>> /\ busy = 0 /\ moved = <<>> /\ answers = <<>>

MovesOf(n) == Cardinality({i \in 1 .. Len(moved) : moved[i] = n})

Complete(n) == MovesOf(n) = Moves[asked[n]]

Ask(kind) ==
    /\ asked' = Append(asked, kind)
    /\ UNCHANGED <<busy, moved, answers>>

\* The next command is later than every one that moved the arm or was answered.
Take(n) ==
    /\ busy = 0
    /\ \A i \in 1 .. Len(moved) : moved[i] < n
    /\ \A i \in 1 .. Len(answers) : answers[i].cmd < n
    /\ busy' = n
    /\ UNCHANGED <<asked, moved, answers>>

Move ==
    /\ busy # 0 /\ MovesOf(busy) < Moves[asked[busy]]
    /\ moved' = Append(moved, busy)
    /\ UNCHANGED <<asked, busy, answers>>

Reply(outcome) ==
    /\ busy # 0
    /\ outcome = "ok" => asked[busy] \notin Refused /\ Complete(busy)
    /\ answers' = Append(answers, [cmd |-> busy, outcome |-> outcome])
    /\ busy' = 0
    /\ UNCHANGED <<asked, moved>>

\* The answer is lost, or the controller ends.
Abandon ==
    /\ busy # 0 /\ busy' = 0
    /\ UNCHANGED <<asked, moved, answers>>

Next == \/ \E kind \in Kinds : Ask(kind)
        \/ \E n \in 1 .. Len(asked) : Take(n)
        \/ Move \/ Abandon
        \/ \E outcome \in {"ok", "error"} : Reply(outcome)

Spec == Init /\ [][Next]_vars
=============================================================================
