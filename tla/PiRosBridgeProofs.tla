------------------------- MODULE PiRosBridgeProofs ---------------------------
(***************************************************************************)
(* Proofs about the controller in operation, for any number of commands and *)
(* of losses and any faults.  A command goes from the inbox to the job to   *)
(* the replies, and its lines from `written` to `owed` to `line` to a reply: *)
(* the invariant says that both go in order and that the job accounts for   *)
(* the lines that were written.                                             *)
(***************************************************************************)
EXTENDS PiRosBridge, FiniteSetTheorems, TLAPS

Count(n, lines) == Cardinality({i \in 1 .. Len(lines) : lines[i] = n})

Increasing(s) == \A i, j \in 1 .. Len(s) : i < j => s[i] < s[j]

AtWork == {"write", "read", "publish"}

ConnectionInv ==
    /\ link \in {"up", "dead", "closed", "ended"} /\ losses \in 0 .. MaxLosses
    /\ advertised \in SUBSET Topics /\ used \in SUBSET Topics
    /\ subscribed \in BOOLEAN /\ running \in BOOLEAN
    /\ listener \in ListenerStates
    /\ link = "up" /\ listener = "settle" => advertised = Topics
    /\ "response" \in used => link = "up"
    /\ WorksOnCompleteConnections

\* Commands are numbered in the order in which they go through the controller.
Numbered ==
    /\ commands \in Seq(Kinds) /\ Len(commands) <= MaxCommands
    /\ inbox \in Seq(1 .. MaxCommands) /\ written \in Seq(1 .. MaxCommands)
    /\ replies \in Seq(Jobs) /\ job \in Jobs
    /\ \A j \in 1 .. Len(inbox) : inbox[j] \in 1 .. Len(commands)
    /\ \A i \in 1 .. Len(written) : written[i] \in 1 .. Len(commands)
    /\ \A i \in 1 .. Len(replies) : replies[i].cmd \in 1 .. Len(commands)

InOrder ==
    /\ Increasing(inbox)
    /\ \A i, j \in 1 .. Len(written) : i <= j => written[i] <= written[j]
    /\ \A i, j \in 1 .. Len(replies) : i < j => replies[i].cmd < replies[j].cmd

\* Command n is ahead of all that was written and answered.
AheadOf(n) ==
    /\ \A i \in 1 .. Len(written) : written[i] < n
    /\ \A i \in 1 .. Len(replies) : replies[i].cmd < n

InHand(n) ==
    /\ n \in 1 .. Len(commands)
    /\ \A j \in 1 .. Len(inbox) : n < inbox[j]
    /\ \A i \in 1 .. Len(written) : written[i] <= n
    /\ \A i \in 1 .. Len(replies) : replies[i].cmd < n

OrderInv == /\ Numbered /\ InOrder
            /\ \A j \in 1 .. Len(inbox) : AheadOf(inbox[j])
            /\ listener \in AtWork => InHand(job.cmd)

Done(n) == commands[n] \notin {"invalid"} \union Mistyped /\ Count(n, written) = LinesOf(commands[n])

\* The job says how many of its lines are still to be written, and an "ok" that all were.
LinesInv ==
    /\ \A n \in 1 .. Len(commands) : Count(n, written) <= LinesOf(commands[n])
    /\ \A i \in 1 .. Len(replies) : replies[i].outcome = "ok" => Done(replies[i].cmd)
    /\ listener = "publish" /\ job.outcome = "ok" => Done(job.cmd)
    /\ listener \in {"write", "read"} =>
          /\ commands[job.cmd] \in {"single", "sequence"} \union Mistyped
          /\ job.left >= 1 \/ (listener = "write" /\ commands[job.cmd] \in Mistyped)
          /\ Count(job.cmd, written) + job.left =
                LinesOf(commands[job.cmd]) + (IF listener = "read" THEN 1 ELSE 0)

\* No more than two lines were written for each command up to the last one taken.
RoomInv ==
    /\ Len(written) <= 2 * Len(commands)
    /\ \A j \in 1 .. Len(inbox) : Len(written) + 2 <= 2 * inbox[j]
    /\ listener = "write" => Len(written) + job.left <= 2 * job.cmd
    /\ listener = "read" => Len(written) + job.left - 1 <= 2 * job.cmd
    /\ listener = "publish" => Len(written) <= 2 * job.cmd

\* The line with number a was written, and is older than what is not reported yet.
Reported(a) ==
    /\ a \in 0 .. Len(written)
    /\ \A j \in 1 .. Len(line) : a < line[j]
    /\ \A j \in 1 .. Len(owed) : a < owed[j]

\* Lines are answered, and their answers read and reported, in the order of writing.
AnswersInv ==
    /\ owed \in Seq(1 .. MaxLines) /\ line \in Seq(1 .. MaxLines)
    /\ Increasing(owed) /\ Increasing(line)
    /\ \A i \in 1 .. Len(owed) : owed[i] \in 1 .. Len(written)
    /\ \A i \in 1 .. Len(line) : /\ line[i] \in 1 .. Len(written)
                                 /\ \A j \in 1 .. Len(owed) : line[i] < owed[j]
    /\ \A i \in 1 .. Len(replies) : Reported(replies[i].answer)
    /\ listener \in AtWork =>
          /\ Reported(job.answer)
          /\ job.answer # NoAnswer =>
                \A i \in 1 .. Len(replies) : replies[i].answer < job.answer
    /\ AnswersInOrder

ControllerInv == ConnectionInv /\ OrderInv /\ LinesInv /\ RoomInv /\ AnswersInv

--------------------------------------------------------------------------
(* Sequences and the lines of a command.                                    *)

LEMMA AppendAt ==
  ASSUME NEW S, NEW s \in Seq(S), NEW x \in S
  PROVE  /\ Append(s, x) \in Seq(S) /\ Len(Append(s, x)) = Len(s) + 1 /\ Len(s) \in Nat
         /\ Append(s, x)[Len(s) + 1] = x
         /\ \A i \in 1 .. Len(s) : Append(s, x)[i] = s[i] /\ s[i] \in S
         /\ \A i \in 1 .. Len(Append(s, x)) : i \in 1 .. Len(s) \/ i = Len(s) + 1
  OBVIOUS

LEMMA TailAt ==
  ASSUME NEW S, NEW s \in Seq(S), s # <<>>
  PROVE  /\ Tail(s) \in Seq(S) /\ Head(s) = s[1] /\ 1 \in 1 .. Len(s) /\ Len(s) \in Nat
         /\ Head(s) \in S
         /\ \A i \in 1 .. Len(Tail(s)) : i + 1 \in 1 .. Len(s) /\ Tail(s)[i] = s[i + 1]
  OBVIOUS

LEMMA IncreasingTail ==
  ASSUME NEW S \in SUBSET Int, NEW s \in Seq(S), s # <<>>, Increasing(s)
  PROVE  /\ Increasing(Tail(s))
         /\ \A i \in 1 .. Len(Tail(s)) : Head(s) < Tail(s)[i]
  BY TailAt DEF Increasing

LEMMA IncreasingAppend ==
  ASSUME NEW S \in SUBSET Int, NEW s \in Seq(S), NEW x \in S, Increasing(s),
         \A i \in 1 .. Len(s) : s[i] < x
  PROVE  Increasing(Append(s, x))
  BY AppendAt DEF Increasing

LEMMA Numbers ==
  ASSUME Numbered
  PROVE  /\ MaxCommands \in Nat /\ Len(commands) \in Nat /\ Len(written) \in Nat
         /\ 1 .. MaxCommands \in SUBSET Int
         /\ \A i \in 1 .. Len(written) : written[i] \in Int
         /\ \A i \in 1 .. Len(inbox) : inbox[i] \in Int
         /\ \A i \in 1 .. Len(replies) : replies[i] \in Jobs /\ replies[i].cmd \in Int
         /\ job.cmd \in Int /\ job.left \in 0 .. 2
<1>1. MaxCommands \in Nat /\ Len(commands) \in Nat /\ Len(written) \in Nat
  BY ControllerAssumption DEF Numbered
<1>2. 1 .. MaxCommands \in SUBSET Int
  BY <1>1
<1>3. /\ \A i \in 1 .. Len(written) : written[i] \in Int
      /\ \A i \in 1 .. Len(inbox) : inbox[i] \in Int
  BY <1>1 DEF Numbered
<1>4. \A i \in 1 .. Len(replies) : replies[i] \in Jobs /\ replies[i].cmd \in Int
  BY <1>1 DEF Numbered
<1>5. job.cmd \in Int /\ job.left \in 0 .. 2
  BY <1>1 DEF Numbered, Jobs
<1> QED BY <1>1, <1>2, <1>3, <1>4, <1>5

\* Writing a line adds one to the count of its command.
LEMMA CountAppend ==
  ASSUME NEW S, NEW lines \in Seq(S), NEW m \in S, NEW n
  PROVE  /\ Count(n, lines) \in Nat
         /\ Count(n, Append(lines, m)) = Count(n, lines) + (IF n = m THEN 1 ELSE 0)
<1> DEFINE before == {i \in 1 .. Len(lines) : lines[i] = n}
           after == {i \in 1 .. Len(Append(lines, m)) : Append(lines, m)[i] = n}
<1>1. IsFiniteSet(before)
  <2>1. IsFiniteSet(1 .. Len(lines)) /\ before \subseteq 1 .. Len(lines)
    BY FS_Interval
  <2> QED BY <2>1, FS_Subset
<1>2. after = IF n = m THEN before \union {Len(lines) + 1} ELSE before
  BY AppendAt
<1>3. Len(lines) + 1 \notin before
  OBVIOUS
<1>4. Cardinality(before) \in Nat /\ Cardinality(before \union {Len(lines) + 1}) = Cardinality(before) + 1
  <2> HIDE DEF before
  <2> QED BY <1>1, <1>3, FS_CardinalityType, FS_AddElement
<1>5. Count(n, lines) = Cardinality(before) /\ Count(n, Append(lines, m)) = Cardinality(after)
  BY DEF Count
<1> HIDE DEF before, after
<1> QED BY <1>2, <1>4, <1>5

LEMMA CountNat ==
  ASSUME NEW S, NEW lines \in Seq(S), NEW n
  PROVE  Count(n, lines) \in Nat
<1>1. IsFiniteSet(1 .. Len(lines)) /\ {i \in 1 .. Len(lines) : lines[i] = n} \subseteq 1 .. Len(lines)
  BY FS_Interval
<1> QED BY <1>1, FS_Subset, FS_CardinalityType DEF Count

LEMMA CountNone ==
  ASSUME NEW S, NEW lines \in Seq(S), NEW n, \A i \in 1 .. Len(lines) : lines[i] # n
  PROVE  Count(n, lines) = 0
<1>1. {i \in 1 .. Len(lines) : lines[i] = n} = {}
  OBVIOUS
<1> QED BY <1>1, FS_EmptySet DEF Count

LEMMA LinesOfKinds ==
  /\ \A kind \in Kinds : LinesOf(kind) \in 0 .. 2
  /\ LinesOf("single") = 1 /\ LinesOf("sequence") = 2
  /\ LinesOf("empty_sequence") = 0 /\ LinesOf("invalid") = 0
  BY DEF Kinds, LinesOf, Mistyped

--------------------------------------------------------------------------
(* What the steps do.                                                       *)

\* Steps of the connection and of the statuses leave the work alone, but may lose the inbox.
Resting ==
    /\ UNCHANGED <<job, commands, serial, replies>>
    /\ inbox' \in {inbox, <<>>}
    /\ listener' = listener \/ listener' \notin AtWork

ServingStep == \/ Receive \/ Write \/ Read \/ Publish \/ Answer
               \/ \E kind \in Kinds : SendCommand(kind)

LEMMA StepsRestOrServe == ASSUME [Next]_vars PROVE Resting \/ ServingStep
<1>1. CASE Connect \/ Advertise \/ Subscribe \/ Closed
  BY <1>1 DEF Connect, Advertise, Subscribe, Closed, Exit, Resting, AtWork
<1>2. CASE Lose \/ Notice \/ PublishStatus
  BY <1>2 DEF Lose, Notice, PublishStatus, Resting
<1>3. CASE UNCHANGED vars
  BY <1>3 DEF vars, Resting
<1> QED BY <1>1, <1>2, <1>3 DEF Next, Listen, ServingStep

LEMMA RestingKeepsAll ==
  ASSUME OrderInv, LinesInv, RoomInv, AnswersInv, Resting
  PROVE  OrderInv' /\ LinesInv' /\ RoomInv' /\ AnswersInv'
<1>1. /\ job' = job /\ commands' = commands /\ replies' = replies
      /\ written' = written /\ owed' = owed /\ line' = line
      /\ listener' \in AtWork => listener' = listener
  BY DEF Resting, serial
<1>2. inbox' = inbox \/ inbox' = <<>>
  BY DEF Resting
<1>3. inbox' \in Seq(1 .. MaxCommands) /\ \A i \in 1 .. Len(inbox') : inbox' = inbox
  <2>1. CASE inbox' = inbox
    BY <2>1 DEF OrderInv, Numbered
  <2>2. CASE inbox' = <<>>
    BY <2>2
  <2> QED BY <1>2, <2>1, <2>2
<1>4. OrderInv'
  <2>1. Numbered' /\ InOrder'
    BY <1>1, <1>3 DEF OrderInv, Numbered, InOrder, Increasing
  <2> QED BY <1>1, <1>3, <2>1 DEF OrderInv, AheadOf, InHand
<1>5. LinesInv'
  BY <1>1 DEF LinesInv, Done, AtWork
<1>6. RoomInv'
  BY <1>1, <1>3 DEF RoomInv, AtWork
<1>7. AnswersInv'
  BY <1>1 DEF AnswersInv, Reported, AnswersInOrder
<1> QED BY <1>4, <1>5, <1>6, <1>7

\* A step of the controller that does not touch the connection.
LEMMA ConnectionNext ==
  ASSUME ConnectionInv, [Next]_vars
  PROVE  ConnectionInv'
<1> USE DEF ConnectionInv, connection, WorksOnCompleteConnections
<1>1. CASE Connect
  <2>1. CASE link' = "up" /\ advertised' = {"response"} /\ used' = {} /\ listener' = "advertise"
    BY <1>1, <2>1 DEF Connect, Exit, ListenerStates, Topics
  <2>2. CASE Exit
    BY <1>1, <2>2 DEF Connect, Exit, ListenerStates
  <2> QED BY <1>1, <2>1, <2>2 DEF Connect
<1>2. CASE Advertise
  <2>1. listener = "advertise" /\ UNCHANGED <<link, losses, subscribed, used, running>>
    BY <1>2 DEF Advertise, Exit
  <2>2. CASE Exit
    BY <2>1, <2>2 DEF Exit, ListenerStates
  <2>3. CASE advertised' = (IF link = "up" THEN Topics ELSE advertised) /\ listener' = "settle"
    BY <2>1, <2>3 DEF ListenerStates
  <2> QED BY <1>2, <2>2, <2>3 DEF Advertise
<1>3. CASE Subscribe
  <2>1. CASE Exit
    BY <1>3, <2>1 DEF Subscribe, Exit, ListenerStates
  <2>2. CASE Open /\ ~ Exit
    <3>1. /\ listener = "settle" /\ UNCHANGED <<link, losses, advertised, used>>
          /\ subscribed' = (link = "up") /\ listener' = "reading" /\ running' = TRUE
      BY <1>3, <2>2 DEF Subscribe
    <3>2. subscribed' \in BOOLEAN /\ running' \in BOOLEAN /\ listener' \in ListenerStates
      BY <3>1 DEF ListenerStates
    <3>3. link' = "up" => advertised' = Topics /\ subscribed'
      BY <3>1
    <3> QED BY <3>1, <3>2, <3>3
  <2> QED BY <1>3, <2>1, <2>2 DEF Subscribe
<1>4. CASE Closed
  BY <1>4 DEF Closed, Open, ListenerStates
<1>5. CASE Receive
  <2>1. UNCHANGED connection /\ UNCHANGED running /\ listener = "reading" /\ listener' \in {"publish", "write"}
    BY <1>5 DEF Receive, Take
  <2> QED BY <2>1 DEF ListenerStates
<1>6. CASE Write
  <2>1. UNCHANGED connection /\ UNCHANGED running /\ listener = "write" /\ listener' \in {"read", "publish", "exited"}
    BY <1>6 DEF Write, WriteLine, Fail, Exit
  <2> QED BY <2>1 DEF ListenerStates
<1>7. CASE Read
  <2>1. UNCHANGED connection /\ UNCHANGED running /\ listener = "read" /\ listener' \in {"write", "publish", "exited"}
    BY <1>7 DEF Read, GotLine, NextStep, Fail, Exit
  <2> QED BY <2>1 DEF ListenerStates
<1>8. CASE Publish
  <2>1. /\ UNCHANGED <<link, losses, advertised, subscribed, running>>
        /\ listener = "publish" /\ listener' \in {"reading", "backoff"}
        /\ used' = used \/ (link = "up" /\ used' = used \union {"response"})
        /\ link = "up" => listener' = "reading"
    BY <1>8 DEF Publish, SendOn, Open
  <2>2. used' \in SUBSET Topics
    BY <2>1 DEF Topics
  <2> QED BY <2>1, <2>2 DEF ListenerStates
<1>9. CASE PublishStatus
  <2>1. UNCHANGED <<link, losses, advertised, subscribed, listener, running>>
    BY <1>9 DEF PublishStatus
  <2>2. used' = used \/ used' = used \union {"status"}
    BY <1>9 DEF PublishStatus, SendOn
  <2>3. used' \in SUBSET Topics /\ ("response" \in used' <=> "response" \in used)
    BY <2>2 DEF Topics
  <2> QED BY <2>1, <2>3
<1>10. CASE Lose
  <2>1. /\ link' \in {"dead", "ended"} /\ losses < MaxLosses /\ losses' = losses + 1
        /\ advertised' = {} /\ subscribed' = FALSE /\ used' = {} /\ UNCHANGED <<listener, running>>
    BY <1>10 DEF Lose
  <2>2. losses' \in 0 .. MaxLosses
    BY <2>1, ControllerAssumption
  <2> QED BY <2>1, <2>2
<1>11. CASE Notice
  BY <1>11 DEF Notice
<1>12. CASE Answer \/ \E kind \in Kinds : SendCommand(kind)
  BY <1>12 DEF Answer, SendCommand
<1>13. CASE UNCHANGED vars
  BY <1>13 DEF vars
<1> QED BY <1>1, <1>2, <1>3, <1>4, <1>5, <1>6, <1>7, <1>8, <1>9, <1>10, <1>11, <1>12, <1>13
        DEF Next, Listen

\* A command that is sent has the next number, above all that went before.
LEMMA SendingKeepsAll ==
  ASSUME OrderInv, LinesInv, RoomInv, AnswersInv, NEW kind \in Kinds, SendCommand(kind)
  PROVE  OrderInv' /\ LinesInv' /\ RoomInv' /\ AnswersInv'
<1>1. /\ commands' = Append(commands, kind) /\ Len(commands) < MaxCommands
      /\ inbox' = inbox \/ inbox' = Append(inbox, Len(commands) + 1)
      /\ UNCHANGED <<listener, job, written, owed, line, replies>>
  BY DEF SendCommand, serial
<1>n. Numbered /\ InOrder /\ MaxCommands \in Nat
  BY ControllerAssumption DEF OrderInv
<1>2. /\ commands' \in Seq(Kinds) /\ Len(commands') = Len(commands) + 1 /\ Len(commands) \in Nat
      /\ \A n \in 1 .. Len(commands) : commands'[n] = commands[n]
      /\ commands'[Len(commands) + 1] = kind
      /\ \A n \in 1 .. Len(commands') : n \in 1 .. Len(commands) \/ n = Len(commands) + 1
  BY <1>1, <1>n, AppendAt DEF Numbered
<1>3. /\ inbox' \in Seq(1 .. MaxCommands) /\ Increasing(inbox')
      /\ \A j \in 1 .. Len(inbox') :
            (j \in 1 .. Len(inbox) /\ inbox'[j] = inbox[j]) \/ inbox'[j] = Len(commands) + 1
  <2>1. CASE inbox' = inbox
    BY <1>n, <2>1 DEF Numbered, InOrder
  <2>2. CASE inbox' = Append(inbox, Len(commands) + 1)
    <3>1. inbox \in Seq(1 .. MaxCommands) /\ Len(commands) + 1 \in 1 .. MaxCommands
      BY <1>1, <1>2, <1>n DEF Numbered
    <3>2. \A j \in 1 .. Len(inbox) : inbox[j] < Len(commands) + 1
      BY <1>2, <1>n DEF Numbered
    <3>3. 1 .. MaxCommands \in SUBSET Int
      BY <1>n
    <3>4. Increasing(inbox')
      BY <1>n, <2>2, <3>1, <3>2, <3>3, IncreasingAppend DEF InOrder
    <3> QED BY <2>2, <3>1, <3>4, AppendAt
  <2> QED BY <1>1, <2>1, <2>2
<1>4. OrderInv'
  <2>1. Numbered'
    <3>1. 1 .. Len(commands) \subseteq 1 .. Len(commands') /\ Len(commands) + 1 \in 1 .. Len(commands')
      BY <1>2
    <3>2. \A j \in 1 .. Len(inbox') : inbox'[j] \in 1 .. Len(commands')
      BY <1>3, <1>n, <3>1 DEF Numbered
    <3>3. /\ \A i \in 1 .. Len(written') : written'[i] \in 1 .. Len(commands')
          /\ \A i \in 1 .. Len(replies') : replies'[i].cmd \in 1 .. Len(commands')
      BY <1>1, <1>n, <3>1 DEF Numbered
    <3>4. Len(commands') <= MaxCommands
      BY <1>1, <1>2, <1>n
    <3> QED BY <1>1, <1>2, <1>3, <1>n, <3>2, <3>3, <3>4 DEF Numbered
  <2>2. InOrder'
    BY <1>1, <1>3, <1>n DEF InOrder
  <2>3. AheadOf(Len(commands) + 1)
    BY <1>2, <1>n DEF Numbered, AheadOf
  <2>4. \A j \in 1 .. Len(inbox') : AheadOf(inbox'[j])
    BY <1>3, <2>3 DEF OrderInv
  <2>5. \A j \in 1 .. Len(inbox') : AheadOf(inbox[j])'
    BY <1>1, <2>4 DEF AheadOf
  <2>6. listener' \in AtWork => InHand(job.cmd)'
    <3>1. SUFFICES ASSUME listener' \in AtWork PROVE InHand(job.cmd)'
      OBVIOUS
    <3>2. InHand(job.cmd) /\ job.cmd < Len(commands) + 1
      BY <1>1, <1>2, <3>1 DEF OrderInv, InHand
    <3>3. \A j \in 1 .. Len(inbox') : job.cmd < inbox'[j]
      BY <1>3, <3>2 DEF InHand
    <3> QED BY <1>1, <1>2, <3>2, <3>3 DEF InHand
  <2> QED BY <2>1, <2>2, <2>5, <2>6 DEF OrderInv
<1>5. LinesInv'
  <2>1. Count(Len(commands) + 1, written) = 0 /\ LinesOf(kind) \in 0 .. 2
    <3>1. \A i \in 1 .. Len(written) : written[i] # Len(commands) + 1
      BY <1>2, <1>n DEF Numbered
    <3> QED BY <1>2, <1>n, <3>1, CountNone, LinesOfKinds DEF Numbered
  <2>2. \A n \in 1 .. Len(commands') : Count(n, written') <= LinesOf(commands'[n])
    BY <1>1, <1>2, <2>1 DEF LinesInv
  <2>3. \A n \in 1 .. Len(commands) : Done(n) => Done(n)'
    BY <1>1, <1>2 DEF Done
  <2>4. \A i \in 1 .. Len(replies') : replies'[i].outcome = "ok" => Done(replies[i].cmd)'
    BY <1>1, <1>n, <2>3 DEF LinesInv, Numbered
  <2>5. listener' \in AtWork => job'.cmd = job.cmd /\ job.cmd \in 1 .. Len(commands)
    BY <1>1 DEF OrderInv, InHand
  <2> QED BY <1>1, <1>2, <2>2, <2>3, <2>4, <2>5 DEF LinesInv, AtWork, Done
<1>6. RoomInv'
  <2>1. Len(written) \in Nat /\ \A j \in 1 .. Len(inbox) : inbox[j] \in Int
    BY <1>n DEF Numbered
  <2>2. /\ Len(written') <= 2 * Len(commands')
        /\ Len(written) + 2 <= 2 * (Len(commands) + 1)
    BY <1>1, <1>2, <2>1 DEF RoomInv
  <2>3. \A j \in 1 .. Len(inbox') : Len(written') + 2 <= 2 * inbox'[j]
    BY <1>1, <1>3, <2>1, <2>2 DEF RoomInv
  <2> QED BY <1>1, <2>2, <2>3 DEF RoomInv
<1>7. AnswersInv'
  BY <1>1 DEF AnswersInv, Reported, AnswersInOrder
<1> QED BY <1>4, <1>5, <1>6, <1>7

\* A command is taken: it is the first of the inbox, and ahead of all that was done.
LEMMA ReceivingKeepsAll ==
  ASSUME OrderInv, LinesInv, RoomInv, AnswersInv, Receive
  PROVE  OrderInv' /\ LinesInv' /\ RoomInv' /\ AnswersInv'
<1> DEFINE n == Head(inbox)
<1>1. /\ listener = "reading" /\ inbox # <<>> /\ inbox' = Tail(inbox)
      /\ UNCHANGED <<commands, written, owed, line, replies>>
      /\ n \in 1 .. Len(commands)
      /\ job'.cmd = n /\ job'.left = LinesOf(commands[n]) /\ job'.answer = NoAnswer
      /\ job' = [cmd |-> n, left |-> LinesOf(commands[n]), outcome |-> job'.outcome,
                 answer |-> NoAnswer]
      /\ job'.outcome \in {"none", "ok", "error"}
      /\ \/ listener' = "publish" /\ commands[n] = "empty_sequence" /\ job'.outcome = "ok"
         \/ listener' = "publish" /\ job'.outcome = "error"
         \/ /\ listener' = "write" /\ job'.outcome = "none"
            /\ commands[n] \notin {"invalid", "empty_sequence"}
  BY DEF Receive, Take, serial
<1>n. Numbered /\ InOrder /\ MaxCommands \in Nat /\ AheadOf(n)
  <2>1. Numbered /\ InOrder /\ MaxCommands \in Nat /\ inbox \in Seq(1 .. MaxCommands)
    BY ControllerAssumption DEF OrderInv, Numbered
  <2>2. n = inbox[1] /\ 1 \in 1 .. Len(inbox)
    BY <1>1, <2>1, TailAt
  <2> QED BY <2>1, <2>2 DEF OrderInv
<1>2. /\ inbox' \in Seq(1 .. MaxCommands) /\ Increasing(inbox')
      /\ \A j \in 1 .. Len(inbox') : j + 1 \in 1 .. Len(inbox) /\ inbox'[j] = inbox[j + 1]
      /\ \A j \in 1 .. Len(inbox') : n < inbox'[j]
  <2>1. inbox \in Seq(1 .. MaxCommands) /\ 1 .. MaxCommands \in SUBSET Int
    BY <1>n DEF Numbered
  <2> QED BY <1>1, <1>n, <2>1, TailAt, IncreasingTail DEF InOrder
<1>3. commands[n] \in Kinds /\ LinesOf(commands[n]) \in 0 .. 2 /\ Len(commands) \in Nat
  BY <1>1, <1>n, LinesOfKinds DEF Numbered
<1> HIDE DEF n
<1>4. OrderInv'
  <2>1. job' \in Jobs
    <3>1. n \in 0 .. MaxCommands /\ NoAnswer \in 0 .. MaxLines
      BY <1>1, <1>3, <1>n DEF Numbered, NoAnswer, MaxLines
    <3> QED BY <1>1, <1>3, <3>1 DEF Jobs
  <2>2. Numbered'
    BY <1>1, <1>2, <1>n, <2>1 DEF Numbered
  <2>3. InOrder'
    BY <1>1, <1>2, <1>n DEF InOrder
  <2>4. \A j \in 1 .. Len(inbox') : AheadOf(inbox'[j])
    BY <1>2 DEF OrderInv
  <2>5. \A j \in 1 .. Len(inbox') : AheadOf(inbox[j])'
    BY <1>1, <2>4 DEF AheadOf
  <2>6. InHand(job.cmd)'
    <3>1. \A i \in 1 .. Len(written) : written[i] <= n
      BY <1>n, <1>1 DEF AheadOf, Numbered
    <3> QED BY <1>1, <1>2, <1>n, <3>1 DEF AheadOf, InHand
  <2> QED BY <2>2, <2>3, <2>5, <2>6 DEF OrderInv
<1>5. LinesInv'
  <2>1. Count(n, written) = 0
    <3>1. \A i \in 1 .. Len(written) : written[i] # n
      BY <1>1, <1>n DEF AheadOf, Numbered
    <3> QED BY <1>n, <3>1, CountNone DEF Numbered
  <2>2. \A m \in 1 .. Len(commands') : Count(m, written') <= LinesOf(commands'[m])
    BY <1>1 DEF LinesInv
  <2>3. \A i \in 1 .. Len(replies') : replies'[i].outcome = "ok" => Done(replies[i].cmd)'
    BY <1>1 DEF LinesInv, Done
  <2>4. listener' = "publish" /\ job'.outcome = "ok" => Done(job.cmd)'
    <3>1. SUFFICES ASSUME listener' = "publish", job'.outcome = "ok" PROVE Done(job.cmd)'
      OBVIOUS
    <3>2. commands[n] = "empty_sequence"
      BY <1>1, <3>1
    <3> QED BY <1>1, <2>1, <3>2, LinesOfKinds DEF Done, Mistyped
  <2>5. listener' = "write" =>
           /\ commands[n] \in {"single", "sequence"} \union Mistyped
           /\ LinesOf(commands[n]) >= 1 \/ commands[n] \in Mistyped
    BY <1>1, <1>3, LinesOfKinds DEF Kinds
  <2>6. listener' # "read"
    BY <1>1
  <2> QED BY <1>1, <1>3, <2>1, <2>2, <2>3, <2>4, <2>5, <2>6 DEF LinesInv
<1>6. RoomInv'
  <2>1. Len(written) \in Nat /\ \A j \in 1 .. Len(inbox) : inbox[j] \in Int
    BY <1>n DEF Numbered
  <2>2. Len(written) + 2 <= 2 * n
    BY <1>1, <1>n, TailAt DEF RoomInv, Numbered, n
  <2>3. \A j \in 1 .. Len(inbox') : Len(written) + 2 <= 2 * inbox'[j]
    BY <1>2 DEF RoomInv
  <2>4. n \in Int /\ LinesOf(commands[n]) \in 0 .. 2 /\ Len(written) <= 2 * Len(commands)
    BY <1>1, <1>3 DEF RoomInv
  <2> QED BY <1>1, <2>1, <2>2, <2>3, <2>4 DEF RoomInv
<1>7. AnswersInv'
  <2>1. Reported(NoAnswer)
    BY <1>n DEF AnswersInv, NoAnswer, Numbered, Reported
  <2> QED BY <1>1, <2>1 DEF AnswersInv, Reported, AnswersInOrder
<1> QED BY <1>4, <1>5, <1>6, <1>7

\* The serial port fails: the command is answered with an error.
LEMMA FailingKeepsAll ==
  ASSUME OrderInv, LinesInv, RoomInv, AnswersInv, listener \in {"write", "read"}, Fail,
         UNCHANGED <<inbox, commands, written, owed, line, replies>>
  PROVE  OrderInv' /\ LinesInv' /\ RoomInv' /\ AnswersInv'
<1>n. Numbered /\ InOrder /\ InHand(job.cmd) /\ job \in Jobs
  BY DEF OrderInv, Numbered, AtWork
<1>1. /\ listener' = "publish" /\ job' \in Jobs /\ job'.outcome = "error"
      /\ job'.cmd = job.cmd /\ job'.left = job.left /\ job'.answer = job.answer
  BY <1>n DEF Fail, Jobs
<1>2. OrderInv'
  <2>1. Numbered' /\ InOrder'
    BY <1>1, <1>n DEF Numbered, InOrder, Increasing
  <2>2. InHand(job.cmd)'
    BY <1>1, <1>n DEF InHand
  <2> QED BY <2>1, <2>2 DEF OrderInv, AheadOf
<1>3. LinesInv'
  BY <1>1 DEF LinesInv, Done
<1>4. RoomInv'
  <2>1. /\ Len(written) \in Nat /\ job.left \in 0 .. 2 /\ job.cmd \in Int
        /\ listener = "read" => job.left >= 1
    BY <1>n DEF Numbered, Jobs, LinesInv
  <2> QED BY <1>1, <2>1 DEF RoomInv
<1>5. AnswersInv'
  BY <1>1 DEF AnswersInv, Reported, AnswersInOrder, AtWork
<1> QED BY <1>2, <1>3, <1>4, <1>5

\* A line is written: it is the last one, and of the command in hand.
LEMMA WritingKeepsAll ==
  ASSUME OrderInv, LinesInv, RoomInv, AnswersInv, Write
  PROVE  OrderInv' /\ LinesInv' /\ RoomInv' /\ AnswersInv'
<1>1. /\ listener = "write"
      /\ UNCHANGED <<inbox, commands, line, replies>>
      /\ \/ /\ written' = Append(written, job.cmd) /\ owed' = Append(owed, Len(written) + 1)
            /\ listener' = "read" /\ job' = job /\ job.left > 0
         \/ Fail /\ UNCHANGED <<written, owed>>
         \/ Exit /\ UNCHANGED <<job, written, owed>>
  BY DEF Write, WriteLine, Exit
<1>0. CASE Exit /\ UNCHANGED <<job, written, owed>>
  <2>1. Resting
    BY <1>0, <1>1 DEF Exit, Resting, AtWork, serial
  <2> QED BY <2>1, RestingKeepsAll
<1>2. CASE Fail /\ UNCHANGED <<written, owed>>
  BY <1>1, <1>2, FailingKeepsAll
<1>3. CASE /\ written' = Append(written, job.cmd) /\ owed' = Append(owed, Len(written) + 1)
           /\ listener' = "read" /\ job' = job /\ job.left > 0
  <2>n. /\ Numbered /\ InOrder /\ InHand(job.cmd) /\ job \in Jobs /\ MaxCommands \in Nat
        /\ job.cmd \in 1 .. Len(commands) /\ job.cmd \in 1 .. MaxCommands /\ Len(commands) \in Nat
    BY <1>1, ControllerAssumption DEF OrderInv, Numbered, AtWork, InHand
  <2>1. /\ written' \in Seq(1 .. MaxCommands) /\ Len(written') = Len(written) + 1
        /\ Len(written) \in Nat /\ written'[Len(written) + 1] = job.cmd
        /\ \A i \in 1 .. Len(written) : written'[i] = written[i]
        /\ \A i \in 1 .. Len(written') : i \in 1 .. Len(written) \/ i = Len(written) + 1
    BY <1>3, <2>n, AppendAt DEF Numbered
  <2>2. OrderInv'
    <3>1. Numbered'
      <4>1. \A i \in 1 .. Len(written') : written'[i] \in 1 .. Len(commands)
        BY <2>1, <2>n DEF Numbered
      <4> QED BY <1>1, <1>3, <2>1, <2>n, <4>1 DEF Numbered
    <3>2. InOrder'
      <4>1. \A i \in 1 .. Len(written) : written[i] <= job.cmd
        BY <2>n DEF InHand
      <4>2. \A i, j \in 1 .. Len(written') : i <= j => written'[i] <= written'[j]
        <5>1. SUFFICES ASSUME NEW i \in 1 .. Len(written'), NEW j \in 1 .. Len(written'), i <= j
                       PROVE  written'[i] <= written'[j]
          OBVIOUS
        <5>2. CASE j = Len(written) + 1
          <6>1. written'[j] = job.cmd
            BY <2>1, <5>2
          <6>2. CASE i \in 1 .. Len(written)
            BY <2>1, <4>1, <6>1, <6>2
          <6>3. CASE i = Len(written) + 1
            BY <2>1, <2>n, <5>2, <6>3
          <6> QED BY <2>1, <6>2, <6>3
        <5>3. CASE j \in 1 .. Len(written)
          <6>1. i \in 1 .. Len(written)
            BY <2>1, <5>1, <5>3
          <6> QED BY <2>1, <2>n, <5>1, <5>3, <6>1 DEF InOrder
        <5> QED BY <2>1, <5>2, <5>3
      <4> QED BY <1>1, <2>n, <4>2 DEF InOrder
    <3>3. \A j \in 1 .. Len(inbox') : AheadOf(inbox[j])'
      <4>1. \A j \in 1 .. Len(inbox) : \A i \in 1 .. Len(written') : written'[i] < inbox[j]
        BY <2>1, <2>n DEF OrderInv, AheadOf, InHand
      <4> QED BY <1>1, <4>1 DEF OrderInv, AheadOf
    <3>4. InHand(job.cmd)'
      BY <1>1, <1>3, <2>1, <2>n DEF InHand
    <3> QED BY <3>1, <3>2, <3>3, <3>4 DEF OrderInv
  <2>3. \A m \in 1 .. Len(commands) :
           Count(m, written') = Count(m, written) + (IF m = job.cmd THEN 1 ELSE 0)
    <3>1. /\ written \in Seq(1 .. MaxCommands)
          /\ written' = Append(written, job.cmd) /\ job.cmd \in 1 .. MaxCommands
      BY <1>3, <2>n DEF Numbered
    <3>2. ASSUME NEW m \in 1 .. Len(commands)
          PROVE  Count(m, Append(written, job.cmd)) = Count(m, written) + (IF m = job.cmd THEN 1 ELSE 0)
      BY <3>1, CountAppend
    <3> QED BY <3>1, <3>2
  <2>4. LinesInv'
    <3>1. \A m \in 1 .. Len(commands) : Count(m, written) \in Nat
      BY <2>n, CountAppend DEF Numbered
    <3>2. /\ commands[job.cmd] \in {"single", "sequence"} \union Mistyped
          /\ job.left >= 1 /\ job.left \in Int
          /\ Count(job.cmd, written) + job.left = LinesOf(commands[job.cmd])
          /\ LinesOf(commands[job.cmd]) \in 0 .. 2
      BY <1>1, <1>3, <2>n, LinesOfKinds DEF LinesInv, Jobs, Numbered
    <3>3. \A m \in 1 .. Len(commands') : Count(m, written') <= LinesOf(commands'[m])
      BY <1>1, <2>3, <2>n, <3>1, <3>2 DEF LinesInv
    <3>4. \A i \in 1 .. Len(replies) : replies[i].cmd # job.cmd /\ replies[i].cmd \in 1 .. Len(commands)
      BY <2>n DEF InHand, Numbered
    <3>5. \A i \in 1 .. Len(replies') : replies'[i].outcome = "ok" => Done(replies[i].cmd)'
      <4>1. \A m \in 1 .. Len(commands) : m # job.cmd => Count(m, written') = Count(m, written)
        BY <2>3, <3>1
      <4> QED BY <1>1, <3>4, <4>1 DEF LinesInv, Done
    <3>6. Count(job.cmd, written') + job.left = LinesOf(commands[job.cmd]) + 1
      BY <2>3, <2>n, <3>1, <3>2
    <3> QED BY <1>1, <1>3, <3>2, <3>3, <3>5, <3>6 DEF LinesInv
  <2>5. RoomInv'
    <3>1. job.left \in Int /\ job.left >= 1 /\ job.cmd \in Int /\ Len(written) + job.left <= 2 * job.cmd
      BY <1>1, <1>3, <2>n DEF Jobs, LinesInv, RoomInv
    <3>2. \A j \in 1 .. Len(inbox) : inbox[j] \in Int /\ job.cmd < inbox[j]
      BY <2>n DEF Numbered, InHand
    <3>3. Len(written') <= 2 * Len(commands) /\ \A j \in 1 .. Len(inbox) : Len(written') + 2 <= 2 * inbox[j]
      <4>1. Len(written') <= 2 * job.cmd /\ Len(written') \in Int
        BY <2>1, <3>1
      <4>2. \A j \in 1 .. Len(inbox) : Len(written') + 2 <= 2 * inbox[j]
        BY <3>1, <3>2, <4>1
      <4> QED BY <2>n, <4>1, <4>2
    <3> QED BY <1>1, <1>3, <2>1, <3>1, <3>3 DEF RoomInv
  <2>6. AnswersInv'
    <3> DEFINE new == Len(written) + 1
    <3>1. new \in 1 .. MaxLines /\ 1 .. MaxLines \in SUBSET Int
      <4>1. Len(written') <= 2 * Len(commands') /\ Len(commands') <= MaxCommands
        BY <2>2, <2>5 DEF RoomInv, OrderInv, Numbered
      <4> QED BY <1>1, <2>1, <2>n, <4>1 DEF MaxLines
    <3>2. \A i \in 1 .. Len(owed) : owed[i] \in Int /\ owed[i] < new
      BY <2>1 DEF AnswersInv
    <3> HIDE DEF new
    <3>3. /\ owed' \in Seq(1 .. MaxLines) /\ Increasing(owed')
          /\ \A i \in 1 .. Len(owed') :
                (i \in 1 .. Len(owed) /\ owed'[i] = owed[i]) \/ owed'[i] = new
      <4>1. owed' = Append(owed, new) /\ owed \in Seq(1 .. MaxLines) /\ Increasing(owed)
        BY <1>3 DEF AnswersInv, new
      <4>2. Increasing(Append(owed, new))
        BY <3>1, <3>2, <4>1, IncreasingAppend
      <4> QED BY <3>1, <4>1, <4>2, AppendAt
    <3>4. \A i \in 1 .. Len(owed') : owed'[i] \in 1 .. Len(written')
      BY <2>1, <3>3 DEF new, AnswersInv
    <3>5. \A i \in 1 .. Len(line) : /\ line[i] \in 1 .. Len(written')
                                    /\ \A j \in 1 .. Len(owed') : line[i] < owed'[j]
      <4>1. \A i \in 1 .. Len(line) : line[i] \in 1 .. Len(written')
        BY <2>1 DEF AnswersInv
      <4>2. \A i \in 1 .. Len(line) : line[i] < new
        BY <2>1 DEF AnswersInv, new
      <4>3. \A i \in 1 .. Len(line), j \in 1 .. Len(owed') : line[i] < owed'[j]
        BY <3>3, <4>2 DEF AnswersInv
      <4> QED BY <4>1, <4>3
    <3>6. ASSUME NEW a, Reported(a)
          PROVE  a \in 0 .. Len(written') /\ \A j \in 1 .. Len(owed') : a < owed'[j]
      BY <2>1, <3>3, <3>6 DEF Reported, new
    <3>7. /\ \A i \in 1 .. Len(replies') : Reported(replies[i].answer)'
          /\ Reported(job.answer)'
      <4>1. /\ \A i \in 1 .. Len(replies) : Reported(replies[i].answer)
            /\ Reported(job.answer)
        BY <1>1 DEF AnswersInv, AtWork
      <4> QED BY <1>1, <1>3, <3>6, <4>1 DEF Reported
    <3>8. AnswersInOrder'
      <4>1. \A i \in 1 .. Len(replies) : replies[i].answer # NoAnswer =>
               written'[replies[i].answer] = written[replies[i].answer]
        BY <2>1 DEF NoAnswer, AnswersInv, Reported
      <4> QED BY <1>1, <4>1 DEF AnswersInv, AnswersInOrder
    <3> QED BY <1>1, <1>3, <3>3, <3>4, <3>5, <3>7, <3>8 DEF AnswersInv, AtWork
  <2> QED BY <2>2, <2>4, <2>5, <2>6
<1> QED BY <1>0, <1>1, <1>2, <1>3

\* A line is read, or nothing after a second: the command goes on with one line less.
LEMMA ReadingKeepsAll ==
  ASSUME OrderInv, LinesInv, RoomInv, AnswersInv, listener = "read",
         NEW answer, GotLine(answer),
         \/ line # <<>> /\ answer = Head(line) /\ line' = Tail(line)
         \/ answer = NoAnswer /\ line' = line,
         UNCHANGED <<inbox, commands, written, owed, replies>>
  PROVE  OrderInv' /\ LinesInv' /\ RoomInv' /\ AnswersInv'
<1>n. /\ Numbered /\ InOrder /\ InHand(job.cmd) /\ job \in Jobs
      /\ job.cmd \in 1 .. Len(commands) /\ Len(commands) \in Nat /\ Len(written) \in Nat
      /\ \A i \in 1 .. Len(replies) : replies[i] \in Jobs
  BY Numbers DEF OrderInv, AtWork, InHand, Numbered
<1>1. /\ commands[job.cmd] \in {"single", "sequence"} \union Mistyped
      /\ job.left >= 1 /\ job.left \in 0 .. 2
      /\ Count(job.cmd, written) + job.left = LinesOf(commands[job.cmd]) + 1
      /\ Count(job.cmd, written) \in Nat /\ LinesOf(commands[job.cmd]) \in 0 .. 2
  <2>1. commands[job.cmd] \in Kinds /\ job.left \in 0 .. 2
    BY <1>n DEF Numbered, Jobs
  <2>2. Count(job.cmd, written) \in Nat
    BY <1>n, CountNat DEF Numbered
  <2> QED BY <2>1, <2>2, LinesOfKinds DEF LinesInv
<1> DEFINE left == job.left - 1
           given == IF commands[job.cmd] = "single" THEN answer ELSE NoAnswer
           outcome == IF listener' = "publish" THEN "ok" ELSE "none"
<1>2. /\ left \in 0 .. 2
      /\ Count(job.cmd, written) + left = LinesOf(commands[job.cmd])
      /\ \/ /\ outcome = "ok" /\ listener' = "publish"
            /\ left = 0 /\ commands[job.cmd] \notin {"invalid"} \union Mistyped
         \/ /\ outcome = "none" /\ listener' = "write"
            /\ left >= 1 \/ commands[job.cmd] \in Mistyped
  BY <1>1 DEF GotLine, NextStep, Mistyped
<1> DEFINE Fresh(a) == /\ a \in 0 .. Len(written)
                       /\ \A j \in 1 .. Len(line') : a < line'[j]
                       /\ \A j \in 1 .. Len(owed) : a < owed[j]
<1>3. /\ line' \in Seq(1 .. MaxLines) /\ Increasing(line')
      /\ \A i \in 1 .. Len(line') : \E j \in 1 .. Len(line) : line'[i] = line[j]
      /\ answer # NoAnswer =>
            Fresh(answer) /\ \A i \in 1 .. Len(replies) : replies[i].answer < answer
  <2>1. CASE line # <<>> /\ answer = Head(line) /\ line' = Tail(line)
    <3>1. 1 .. MaxLines \in SUBSET Int
      BY ControllerAssumption DEF MaxLines
    <3>2. line \in Seq(1 .. MaxLines) /\ Increasing(line)
      BY DEF AnswersInv
    <3>3. /\ line' \in Seq(1 .. MaxLines) /\ answer = line[1] /\ 1 \in 1 .. Len(line)
          /\ \A i \in 1 .. Len(line') : i + 1 \in 1 .. Len(line) /\ line'[i] = line[i + 1]
      BY <2>1, <3>2, TailAt
    <3>4. Increasing(Tail(line)) /\ \A i \in 1 .. Len(Tail(line)) : Head(line) < Tail(line)[i]
      BY <2>1, <3>1, <3>2, IncreasingTail
    <3>5. Fresh(answer)
      <4>1. answer \in 1 .. Len(written) /\ \A j \in 1 .. Len(owed) : answer < owed[j]
        BY <3>3 DEF AnswersInv
      <4> QED BY <1>n, <2>1, <3>4, <4>1
    <3>6. \A i \in 1 .. Len(replies) : replies[i].answer < answer
      BY <3>3 DEF AnswersInv, Reported
    <3>7. Increasing(line') /\ \A i \in 1 .. Len(line') : \E j \in 1 .. Len(line) : line'[i] = line[j]
      BY <2>1, <3>3, <3>4
    <3> HIDE DEF Fresh
    <3> QED BY <3>3, <3>5, <3>6, <3>7
  <2>2. CASE answer = NoAnswer /\ line' = line
    BY <2>2 DEF AnswersInv
  <2> QED BY <2>1, <2>2
<1>r. /\ Fresh(given)
      /\ given # NoAnswer => \A i \in 1 .. Len(replies) : replies[i].answer < given
  <2>1. Fresh(NoAnswer)
    <3>1. /\ \A j \in 1 .. Len(line') : line'[j] \in 1 .. Len(written)
          /\ \A j \in 1 .. Len(owed) : owed[j] \in 1 .. Len(written)
      BY <1>3 DEF AnswersInv
    <3> QED BY <1>n, <3>1 DEF NoAnswer
  <2>2. given = answer \/ given = NoAnswer
    OBVIOUS
  <2> HIDE DEF given, Fresh
  <2> QED BY <1>3, <2>1, <2>2
<1>4. /\ job'.cmd = job.cmd /\ job'.left = left /\ job'.outcome = outcome /\ job'.answer = given
      /\ job' = [cmd |-> job.cmd, left |-> left, outcome |-> outcome, answer |-> given]
  BY <1>n DEF GotLine, Jobs
<1> HIDE DEF left, given, outcome
<1>5. OrderInv'
  <2>1. given \in 0 .. MaxLines
    <3>1. given \in 0 .. Len(written) /\ Len(written) <= 2 * Len(commands) /\ Len(commands) <= MaxCommands
      BY <1>r, <1>n DEF RoomInv, Numbered
    <3> QED BY <3>1, <1>n, ControllerAssumption DEF MaxLines
  <2>2. job' \in Jobs
    BY <1>n, <1>2, <1>4, <2>1 DEF Jobs
  <2>3. Numbered' /\ InOrder'
    BY <1>n, <2>2 DEF Numbered, InOrder, Increasing
  <2>4. InHand(job.cmd)'
    BY <1>4, <1>n DEF InHand
  <2> QED BY <2>3, <2>4 DEF OrderInv, AheadOf
<1>6. LinesInv'
  <2>1. Done(job.cmd)' \/ listener' = "write"
    BY <1>1, <1>2, <1>4 DEF Done
  <2> QED BY <1>1, <1>2, <1>4, <2>1 DEF LinesInv, Done
<1>7. RoomInv'
  BY <1>1, <1>2, <1>4, <1>n DEF RoomInv, left
<1>8. AnswersInv'
  <2>1. \A i \in 1 .. Len(line') : /\ line'[i] \in 1 .. Len(written')
                                   /\ \A j \in 1 .. Len(owed') : line'[i] < owed'[j]
    BY <1>3 DEF AnswersInv
  <2>2. \A i \in 1 .. Len(replies') : Reported(replies[i].answer)'
    BY <1>3 DEF AnswersInv, Reported
  <2>3. Reported(job.answer)' /\ (job'.answer # NoAnswer =>
           \A i \in 1 .. Len(replies') : replies'[i].answer < job'.answer)
    BY <1>r, <1>4 DEF Reported
  <2>4. AnswersInOrder'
    BY DEF AnswersInv, AnswersInOrder
  <2> QED BY <1>3, <2>1, <2>2, <2>3, <2>4 DEF AnswersInv
<1> QED BY <1>5, <1>6, <1>7, <1>8

\* The Arduino answers the oldest line that has no answer.
LEMMA AnsweringKeepsAll ==
  ASSUME OrderInv, LinesInv, RoomInv, AnswersInv, Answer
  PROVE  OrderInv' /\ LinesInv' /\ RoomInv' /\ AnswersInv'
<1> DEFINE first == Head(owed)
<1>1. /\ owed # <<>> /\ line' = Append(line, first) /\ owed' = Tail(owed)
      /\ UNCHANGED <<inbox, listener, job, commands, written, replies>>
  BY DEF Answer
<1>2. OrderInv'
  BY <1>1 DEF OrderInv, Numbered, InOrder, AheadOf, InHand
<1>3. LinesInv' /\ RoomInv'
  BY <1>1 DEF LinesInv, Done, RoomInv
<1>4. AnswersInv'
  <2>1. 1 .. MaxLines \in SUBSET Int
    BY ControllerAssumption DEF MaxLines
  <2>2. /\ owed \in Seq(1 .. MaxLines) /\ line \in Seq(1 .. MaxLines)
        /\ Increasing(owed) /\ Increasing(line)
    BY DEF AnswersInv
  <2>3. /\ owed' \in Seq(1 .. MaxLines) /\ first \in 1 .. MaxLines
        /\ first = owed[1] /\ 1 \in 1 .. Len(owed)
        /\ \A i \in 1 .. Len(owed') : i + 1 \in 1 .. Len(owed) /\ owed'[i] = owed[i + 1]
    BY <1>1, <2>2, TailAt
  <2>4. Increasing(owed') /\ \A i \in 1 .. Len(owed') : first < owed'[i]
    BY <1>1, <2>1, <2>2, IncreasingTail
  <2>5. \A i \in 1 .. Len(line) : line[i] < first
    BY <2>3 DEF AnswersInv
  <2>6. /\ line' \in Seq(1 .. MaxLines)
        /\ \A i \in 1 .. Len(line') : (i \in 1 .. Len(line) /\ line'[i] = line[i]) \/ line'[i] = first
    BY <1>1, <2>2, <2>3, AppendAt
  <2>7. Increasing(line')
    BY <1>1, <2>1, <2>2, <2>3, <2>5, IncreasingAppend
  <2> HIDE DEF first
  <2>8. /\ \A i \in 1 .. Len(owed') : owed'[i] \in 1 .. Len(written)
        /\ \A i \in 1 .. Len(line') : /\ line'[i] \in 1 .. Len(written)
                                      /\ \A j \in 1 .. Len(owed') : line'[i] < owed'[j]
    BY <2>3, <2>4, <2>6 DEF AnswersInv
  <2>9. ASSUME NEW a, Reported(a)
        PROVE  /\ a \in 0 .. Len(written)
               /\ \A j \in 1 .. Len(line') : a < line'[j]
               /\ \A j \in 1 .. Len(owed') : a < owed'[j]
    BY <2>3, <2>6, <2>9 DEF Reported
  <2>10. /\ \A i \in 1 .. Len(replies') : Reported(replies[i].answer)'
         /\ listener' \in AtWork => Reported(job.answer)'
    BY <1>1, <2>9 DEF AnswersInv, Reported
  <2>11. AnswersInOrder'
    BY <1>1 DEF AnswersInv, AnswersInOrder
  <2> QED BY <1>1, <2>3, <2>4, <2>6, <2>7, <2>8, <2>10, <2>11 DEF AnswersInv
<1> QED BY <1>2, <1>3, <1>4

\* The response is published or lost; with it the job is done.
LEMMA PublishingKeepsAll ==
  ASSUME OrderInv, LinesInv, RoomInv, AnswersInv, Publish
  PROVE  OrderInv' /\ LinesInv' /\ RoomInv' /\ AnswersInv'
<1>1. /\ listener = "publish" /\ job' = Idle /\ listener' \in {"reading", "backoff"}
      /\ replies' = Append(replies, job) \/ replies' = replies
      /\ UNCHANGED <<inbox, commands, written, owed, line>>
  BY DEF Publish, serial
<1>n. /\ Numbered /\ InOrder /\ InHand(job.cmd) /\ job \in Jobs /\ replies \in Seq(Jobs)
      /\ Len(commands) \in Nat /\ Len(written) \in Nat
  BY <1>1, Numbers DEF OrderInv, AtWork, Numbered
<1>2. /\ replies' \in Seq(Jobs) /\ Len(replies) \in Nat /\ Len(replies') \in Nat
      /\ \A i \in 1 .. Len(replies') :
            \/ i \in 1 .. Len(replies) /\ replies'[i] = replies[i]
            \/ i = Len(replies) + 1 /\ replies'[i] = job
  <2>1. CASE replies' = replies
    BY <1>n, <2>1
  <2>2. CASE replies' = Append(replies, job)
    BY <1>n, <2>2, AppendAt
  <2> QED BY <1>1, <2>1, <2>2
<1>3. listener' \notin AtWork
  BY <1>1 DEF AtWork
<1>4. OrderInv'
  <2>1. Idle \in Jobs
    BY Numbers, <1>n DEF Idle, Jobs, NoAnswer, MaxLines
  <2>2. Numbered'
    BY <1>1, <1>2, <1>n, <2>1 DEF Numbered, InHand
  <2>3. \A i, j \in 1 .. Len(replies') : i < j => replies'[i].cmd < replies'[j].cmd
    BY <1>2, <1>n DEF InOrder, InHand
  <2>4. InOrder'
    BY <1>1, <1>n, <2>3 DEF InOrder
  <2>5. \A j \in 1 .. Len(inbox') : AheadOf(inbox[j])'
    BY <1>1, <1>2, <1>n DEF OrderInv, AheadOf, InHand
  <2> QED BY <1>3, <2>2, <2>4, <2>5 DEF OrderInv
<1>5. LinesInv'
  <2>1. \A i \in 1 .. Len(replies') : replies'[i].outcome = "ok" => Done(replies'[i].cmd)
    BY <1>1, <1>2 DEF LinesInv
  <2>2. \A i \in 1 .. Len(replies') : replies'[i].outcome = "ok" => Done(replies[i].cmd)'
    BY <1>1, <2>1 DEF Done
  <2> QED BY <1>1, <2>2 DEF LinesInv
<1>6. RoomInv'
  BY <1>1 DEF RoomInv
<1>7. AnswersInv'
  <2>1. Reported(job.answer) /\ (job.answer # NoAnswer =>
           \A i \in 1 .. Len(replies) : replies[i].answer < job.answer)
    BY <1>1 DEF AnswersInv, AtWork
  <2>2. \A i \in 1 .. Len(replies') : Reported(replies'[i].answer)
    BY <1>2, <2>1 DEF AnswersInv
  <2>3. \A i \in 1 .. Len(replies') : Reported(replies[i].answer)'
    BY <1>1, <2>2 DEF Reported
  <2>4. AnswersInOrder'
    <3>1. job.answer # NoAnswer => written[job.answer] <= job.cmd
      BY <1>n, <2>1 DEF InHand, Reported, NoAnswer
    <3>2. \A i \in 1 .. Len(replies') :
             replies'[i].answer # NoAnswer => written'[replies'[i].answer] <= replies'[i].cmd
      BY <1>1, <1>2, <3>1 DEF AnswersInv, AnswersInOrder
    <3>3. \A i, j \in 1 .. Len(replies') :
             i < j /\ replies'[i].answer # NoAnswer /\ replies'[j].answer # NoAnswer
                => replies'[i].answer < replies'[j].answer
      BY <1>2, <2>1 DEF AnswersInv, AnswersInOrder
    <3> QED BY <3>2, <3>3 DEF AnswersInOrder
  <2> QED BY <1>1, <1>3, <2>3, <2>4 DEF AnswersInv
<1> QED BY <1>4, <1>5, <1>6, <1>7

--------------------------------------------------------------------------
(* The theorems.                                                            *)

LEMMA ControllerInit == Init => ControllerInv
<1> SUFFICES ASSUME Init PROVE ControllerInv
  OBVIOUS
<1>1. ConnectionInv
  <2>1. 0 \in 0 .. MaxLosses
    BY ControllerAssumption
  <2>2. /\ link = "closed" /\ losses = 0 /\ used = {} /\ listener = "connect"
        /\ advertised = {} /\ subscribed = FALSE /\ running = FALSE
    BY DEF Init
  <2> QED BY <2>1, <2>2 DEF ConnectionInv, ListenerStates, WorksOnCompleteConnections
<1>2. /\ commands = <<>> /\ inbox = <<>> /\ written = <<>> /\ replies = <<>> /\ owed = <<>> /\ line = <<>>
      /\ listener = "connect" /\ job = Idle
  BY DEF Init
<1>3. Idle \in Jobs
  BY ControllerAssumption DEF Idle, Jobs, NoAnswer, MaxLines
<1>4. OrderInv
  BY <1>2, <1>3, ControllerAssumption DEF OrderInv, Numbered, InOrder, Increasing, AtWork
<1>5. LinesInv /\ RoomInv
  BY <1>2 DEF LinesInv, RoomInv
<1>6. AnswersInv
  BY <1>2 DEF AnswersInv, AnswersInOrder, Increasing, AtWork
<1> QED BY <1>1, <1>4, <1>5, <1>6 DEF ControllerInv

LEMMA ControllerNext == ControllerInv /\ [Next]_vars => ControllerInv'
<1> SUFFICES ASSUME ControllerInv, [Next]_vars PROVE ControllerInv'
  OBVIOUS
<1> USE DEF ControllerInv
<1>1. ConnectionInv'
  BY ConnectionNext
<1>2. CASE Resting
  BY <1>1, <1>2, RestingKeepsAll
<1>3. CASE \E kind \in Kinds : SendCommand(kind)
  BY <1>1, <1>3, SendingKeepsAll
<1>4. CASE Receive
  BY <1>1, <1>4, ReceivingKeepsAll
<1>5. CASE Write
  BY <1>1, <1>5, WritingKeepsAll
<1>6. CASE Read
  <2>1. listener = "read" /\ UNCHANGED <<running, commands, written, owed, replies>>
    BY <1>6 DEF Read
  <2>2. CASE \E answer : /\ GotLine(answer) /\ UNCHANGED inbox
                         /\ \/ line # <<>> /\ answer = Head(line) /\ line' = Tail(line)
                            \/ answer = NoAnswer /\ line' = line
    BY <1>1, <2>1, <2>2, ReadingKeepsAll
  <2>3. CASE Fail /\ UNCHANGED <<inbox, line>>
    BY <1>1, <2>1, <2>3, FailingKeepsAll
  <2>4. CASE Exit /\ UNCHANGED <<job, line>>
    <3>1. Resting
      BY <2>1, <2>4 DEF Exit, Resting, AtWork, serial
    <3> QED BY <1>1, <3>1, RestingKeepsAll
  <2> QED BY <1>6, <2>2, <2>3, <2>4 DEF Read
<1>7. CASE Answer
  BY <1>1, <1>7, AnsweringKeepsAll
<1>8. CASE Publish
  BY <1>1, <1>8, PublishingKeepsAll
<1> QED BY <1>2, <1>3, <1>4, <1>5, <1>6, <1>7, <1>8, StepsRestOrServe DEF ServingStep

\* However many commands are sent, connections lost and answers late, the job, the serial
\* line and the replies account for every line and stay in order.
THEOREM ControllerInvariant == Spec => []ControllerInv
  BY ControllerInit, ControllerNext, PTL DEF Spec

\* Every variable of the controller keeps its type, and the serial line its bound.
THEOREM ControllerTypeOK == Spec => []TypeOK
<1>1. ControllerInv => TypeOK
  <2> SUFFICES ASSUME ControllerInv PROVE TypeOK
    OBVIOUS
  <2>1. Len(written) <= MaxLines
    <3>1. Len(written) <= 2 * Len(commands) /\ Len(commands) <= MaxCommands /\ Numbered
      BY DEF ControllerInv, RoomInv, OrderInv, Numbered
    <3> QED BY <3>1, Numbers DEF MaxLines
  <2> QED BY <2>1 DEF ControllerInv, ConnectionInv, OrderInv, Numbered, AnswersInv, TypeOK
<1> QED BY <1>1, ControllerInvariant, PTL

\* No command moves the arm twice, over any number of losses and reconnections.
THEOREM CommandsRunOnce == Spec => []ExecutesAtMostOnce
<1>1. ControllerInv => ExecutesAtMostOnce
  BY DEF ControllerInv, OrderInv, InOrder, LinesInv, Count, TimesWritten, ExecutesAtMostOnce
<1> QED BY <1>1, ControllerInvariant, PTL

\* "ok" is never published for a command of which a line was not written.
THEOREM ResponsesAreTrue == Spec => []RepliesAreTrue
<1>1. ControllerInv => RepliesAreTrue
  BY DEF ControllerInv, OrderInv, InOrder, LinesInv, Done, Count, TimesWritten, RepliesAreTrue
<1> QED BY <1>1, ControllerInvariant, PTL

\* No answer of the Arduino is reported twice, nor for a command before its line.
THEOREM AnswersStayInOrder == Spec => []AnswersInOrder
<1>1. ControllerInv => AnswersInOrder
  BY DEF ControllerInv, AnswersInv
<1> QED BY <1>1, ControllerInvariant, PTL

\* After any number of losses a controller that takes or carries out commands has both
\* topics advertised and the commands subscribed, and answers on such connections only.
THEOREM ConnectionsAreComplete == Spec => []WorksOnCompleteConnections
<1>1. ControllerInv => WorksOnCompleteConnections
  BY DEF ControllerInv, ConnectionInv
<1> QED BY <1>1, ControllerInvariant, PTL

--------------------------------------------------------------------------
(* The controller implements CommandService.                                *)

Busy == IF listener \in {"write", "read", "publish"} THEN job.cmd ELSE 0

Answered(r) == [i \in 1 .. Len(r) |-> [cmd |-> r[i].cmd, outcome |-> r[i].outcome]]

LEMMA AnsweredAppend ==
  ASSUME NEW S, NEW r \in Seq(S), NEW x \in S
  PROVE  Answered(Append(r, x)) = Append(Answered(r), [cmd |-> x.cmd, outcome |-> x.outcome])
<1> DEFINE last == [cmd |-> x.cmd, outcome |-> x.outcome]
           T == {last} \union {[cmd |-> r[i].cmd, outcome |-> r[i].outcome] : i \in 1 .. Len(r)}
<1>1. Len(r) \in Nat /\ Answered(r) \in Seq(T) /\ Len(Answered(r)) = Len(r)
  BY DEF Answered
<1>2. last \in T
  OBVIOUS
<1>3. /\ Append(Answered(r), last) \in Seq(T) /\ Len(Append(Answered(r), last)) = Len(r) + 1
      /\ Append(Answered(r), last)[Len(r) + 1] = last
      /\ \A i \in 1 .. Len(r) : Append(Answered(r), last)[i] = Answered(r)[i]
  <2> HIDE DEF T, last
  <2> QED BY <1>1, <1>2, AppendAt
<1>4. /\ Len(Append(r, x)) = Len(r) + 1 /\ Append(r, x)[Len(r) + 1] = x
      /\ \A i \in 1 .. Len(r) : Append(r, x)[i] = r[i]
  BY AppendAt
<1>5. \A i \in 1 .. Len(r) + 1 : Answered(Append(r, x))[i] = Append(Answered(r), last)[i]
  BY <1>1, <1>3, <1>4 DEF Answered
<1>6. /\ Answered(Append(r, x)) = [i \in 1 .. Len(r) + 1 |-> Answered(Append(r, x))[i]]
      /\ Append(Answered(r), last) = [i \in 1 .. Len(r) + 1 |-> Append(Answered(r), last)[i]]
  BY <1>1, <1>3, <1>4 DEF Answered
<1> QED BY <1>5, <1>6

\* What the promise says of a step of the controller, one action at a time.
LEMMA ServiceState ==
  /\ Service!vars = <<commands, Busy, written, Answered(replies)>>
  /\ Service!vars' = <<commands', Busy', written', Answered(replies)'>>
  /\ \A n : Service!MovesOf(n) = Count(n, written)
  /\ \A n : Service!Complete(n) <=> Count(n, written) = [kind \in Kinds |-> LinesOf(kind)][commands[n]]
<1>1. Service!vars = <<commands, Busy, written, Answered(replies)>>
  BY DEF Service!vars, Busy, Answered
<1>2. Service!vars' = <<commands', Busy', written', Answered(replies)'>>
  BY DEF Service!vars, Busy, Answered
<1>3. \A n : Service!MovesOf(n) = Count(n, written)
  BY DEF Service!MovesOf, Count, Service!Cardinality, Cardinality
<1>4. \A n : Service!Complete(n) <=> Count(n, written) = [kind \in Kinds |-> LinesOf(kind)][commands[n]]
  BY <1>3 DEF Service!Complete
<1> QED BY <1>1, <1>2, <1>3, <1>4

LEMMA BusyIsACommand ==
  ASSUME OrderInv
  PROVE  /\ listener \in AtWork => Busy = job.cmd /\ Busy \in 1 .. Len(commands) /\ Busy # 0
         /\ listener \notin AtWork => Busy = 0
  BY Numbers DEF OrderInv, InHand, AtWork, Busy

\* A command in hand is given up when the task ends or its response is lost.
LEMMA GivingUp ==
  ASSUME OrderInv, UNCHANGED <<commands, written, replies>>, Busy' = Busy \/ Busy' = 0
  PROVE  [Service!Next]_(Service!vars)
<1>1. CASE Busy' = Busy
  BY <1>1, ServiceState
<1>2. CASE Busy # 0 /\ Busy' = 0
  BY <1>2 DEF Service!Abandon, Service!Next, Busy
<1> QED BY <1>1, <1>2

\* A response that is about to be published says how the command went.
Settled == listener = "publish" => job.outcome # "none"

LEMMA SettledNext == ControllerInv /\ Settled /\ [Next]_vars => Settled'
<1> SUFFICES ASSUME ControllerInv, Settled, [Next]_vars PROVE Settled'
  OBVIOUS
<1>n. job \in Jobs /\ job.left \in 0 .. 2
  BY Numbers DEF ControllerInv, OrderInv, Numbered
<1>1. CASE Resting
  BY <1>1 DEF Resting, AtWork, Settled
<1>2. CASE Receive
  BY <1>2 DEF Receive, Take, Settled
<1>3. CASE Write
  BY <1>n, <1>3 DEF Write, WriteLine, Fail, Exit, Settled, Jobs
<1>4. CASE Read
  <2>1. CASE Fail
    BY <1>n, <2>1 DEF Fail, Settled, Jobs
  <2>2. CASE Exit
    BY <2>2 DEF Exit, Settled
  <2>3. CASE \E answer : GotLine(answer)
    <3>1. job'.outcome = IF listener' = "publish" THEN "ok" ELSE "none"
      BY <1>n, <2>3 DEF GotLine, Jobs
    <3> QED BY <3>1 DEF Settled
  <2> QED BY <1>4, <2>1, <2>2, <2>3 DEF Read
<1>5. CASE Publish
  BY <1>5 DEF Publish, Settled
<1>6. CASE Answer \/ \E kind \in Kinds : SendCommand(kind)
  BY <1>6 DEF Answer, SendCommand, Settled
<1> QED BY <1>1, <1>2, <1>3, <1>4, <1>5, <1>6, StepsRestOrServe DEF ServingStep

LEMMA StepsKeepThePromise ==
  ASSUME ControllerInv, ControllerInv', Settled, [Next]_vars
  PROVE  [Service!Next]_(Service!vars)
<1>n. OrderInv /\ OrderInv' /\ LinesInv /\ LinesInv' /\ Numbered
  BY DEF ControllerInv, OrderInv
<1>m. /\ Len(commands) \in Nat
      /\ \A kind \in Kinds : LinesOf(kind) = [k \in Kinds |-> LinesOf(k)][kind]
  BY <1>n, Numbers
<1>1. CASE Resting
  <2>1. UNCHANGED <<commands, written, replies>>
    BY <1>1 DEF Resting, serial
  <2>2. Busy' = Busy \/ Busy' = 0
    BY <1>1 DEF Resting, Busy, AtWork
  <2> QED BY <1>n, <2>1, <2>2, GivingUp
<1>2. ASSUME NEW kind \in Kinds, SendCommand(kind) PROVE [Service!Next]_(Service!vars)
  <2>1. Service!Ask(kind)
    BY <1>2 DEF SendCommand, serial, Service!Ask
  <2> QED BY <2>1 DEF Service!Next
<1>3. CASE Receive
  <2>1. PICK n \in 1 .. Len(commands) :
           \E step \in {"publish", "write"}, outcome \in {"error", "ok", "none"} : Take(n, step, outcome)
    BY <1>3 DEF Receive
  <2>2. /\ listener = "reading" /\ inbox # <<>> /\ n = Head(inbox)
        /\ listener' \in AtWork /\ job'.cmd = n
        /\ UNCHANGED <<commands, written, replies>>
    BY <2>1 DEF Take, serial, AtWork
  <2>3. n = inbox[1] /\ 1 \in 1 .. Len(inbox)
    BY <1>n, <2>2, TailAt DEF Numbered
  <2>4. AheadOf(n)
    BY <1>n, <2>3 DEF OrderInv
  <2>5. Busy = 0 /\ Busy' = n
    BY <2>2 DEF Busy, AtWork
  <2>6. \A i \in 1 .. Len(Answered(replies)) : Answered(replies)[i].cmd < n
    BY <2>4 DEF AheadOf, Answered
  <2>7. Service!Take(n)
    BY <2>2, <2>4, <2>5, <2>6 DEF Service!Take, AheadOf, Busy, Answered
  <2> QED BY <2>7 DEF Service!Next
<1>4. CASE Write
  <2>1. listener = "write" /\ UNCHANGED <<commands, replies>>
    BY <1>4 DEF Write
  <2>2. CASE /\ written' = Append(written, job.cmd) /\ listener' = "read" /\ job' = job
             /\ job.left > 0
    <3>1. Busy # 0 /\ Busy = job.cmd /\ Busy' = Busy /\ Busy \in 1 .. Len(commands)
      BY <1>n, <2>1, <2>2, BusyIsACommand DEF Busy, AtWork
    <3>2. /\ commands[Busy] \in Kinds
          /\ Count(Busy, written) + job.left = LinesOf(commands[Busy])
      <4>1. LinesInv /\ listener = "write" /\ Busy = job.cmd
        BY <1>n, <2>1, <3>1
      <4>2. Count(Busy, written) + job.left = LinesOf(commands[Busy]) + 0
        BY <4>1 DEF LinesInv
      <4>3. commands[Busy] \in Kinds
        BY <1>n, <3>1 DEF Numbered
      <4>4. LinesOf(commands[Busy]) \in 0 .. 2
        BY <4>3, LinesOfKinds
      <4> HIDE DEF Busy
      <4> QED BY <4>2, <4>3, <4>4
    <3>3. Count(Busy, written) < LinesOf(commands[Busy])
      <4>1. Count(Busy, written) \in Nat /\ job.left \in Nat
        BY <1>n, Numbers, CountNat DEF Numbered
      <4> QED BY <2>2, <3>2, <4>1
    <3>4. Service!MovesOf(Busy) < [k \in Kinds |-> LinesOf(k)][commands[Busy]]
      BY <3>1, <3>2, <3>3, <1>m, ServiceState
    <3>5. Service!Move
      BY <2>1, <2>2, <3>1, <3>4 DEF Service!Move, Busy, Answered
    <3> QED BY <3>5 DEF Service!Next
  <2>3. CASE Fail /\ written' = written
    <3>1. Busy' = Busy
      BY <1>n, <2>1, <2>3, Numbers DEF Fail, Busy, Numbered, Jobs
    <3> QED BY <1>n, <2>1, <2>3, <3>1, GivingUp
  <2>4. CASE Exit /\ written' = written
    <3>1. Busy' = 0
      BY <2>4 DEF Exit, Busy
    <3> QED BY <1>n, <2>1, <2>4, <3>1, GivingUp
  <2> QED BY <1>4, <2>2, <2>3, <2>4 DEF Write, WriteLine
<1>5. CASE Read
  <2>1. listener = "read" /\ UNCHANGED <<commands, written, replies>>
    BY <1>5 DEF Read
  <2>2. Busy' = Busy \/ Busy' = 0
    <3>1. job \in Jobs
      BY <1>n DEF Numbered
    <3>2. CASE Exit
      BY <3>2 DEF Exit, Busy
    <3>3. CASE Fail
      BY <2>1, <3>1, <3>3 DEF Fail, Busy, Jobs
    <3>4. CASE \E answer : GotLine(answer)
      BY <2>1, <3>1, <3>4 DEF GotLine, NextStep, Busy, Jobs
    <3> QED BY <1>5, <3>2, <3>3, <3>4 DEF Read
  <2> QED BY <1>n, <2>1, <2>2, GivingUp
<1>6. CASE Answer
  <2>1. UNCHANGED <<commands, written, replies, listener, job>>
    BY <1>6 DEF Answer
  <2> QED BY <1>n, <2>1, GivingUp DEF Busy
<1>7. CASE Publish
  <2>1. /\ listener = "publish" /\ listener' \in {"reading", "backoff"}
        /\ UNCHANGED <<commands, written>>
    BY <1>7 DEF Publish, serial
  <2>2. Busy = job.cmd /\ Busy # 0 /\ Busy \in 1 .. Len(commands) /\ Busy' = 0
    BY <1>n, <2>1, BusyIsACommand DEF Busy, AtWork
  <2>3. CASE replies' = replies
    BY <1>n, <2>1, <2>2, <2>3, GivingUp
  <2>4. CASE replies' = Append(replies, job)
    <3>1. Answered(replies') = Append(Answered(replies), [cmd |-> Busy, outcome |-> job.outcome])
      BY <1>n, <2>2, <2>4, AnsweredAppend DEF Numbered
    <3>2. PICK outcome \in {"ok", "error"} : job.outcome = outcome
      BY <1>n, <2>1 DEF Settled, Numbered, Jobs
    <3>3. outcome = "ok" => /\ commands[Busy] \notin {"invalid"} \union Mistyped
                            /\ Service!Complete(Busy)
      <4>1. commands[Busy] \in Kinds
        BY <1>n, <2>2 DEF Numbered
      <4> QED BY <1>n, <2>1, <2>2, <3>2, <4>1, <1>m, ServiceState DEF LinesInv, Done
    <3>4. Service!Reply(outcome)
      BY <2>1, <2>2, <3>1, <3>2, <3>3 DEF Service!Reply, Busy, Answered
    <3> QED BY <3>4 DEF Service!Next
  <2> QED BY <1>7, <2>3, <2>4 DEF Publish
<1> QED BY <1>1, <1>2, <1>3, <1>4, <1>5, <1>6, <1>7, StepsRestOrServe DEF ServingStep

\* For any number of commands and losses and any faults, the controller is a CommandService:
\* each of its steps is one step of that promise, or none.
THEOREM ControllerKeepsItsPromise == Spec => ImplementsService
<1>1. Init => Service!Init
  BY DEF Init, Service!Init, Idle
<1>2. Init => Settled
  BY DEF Init, Settled
<1>3. ControllerInv /\ ControllerInv' /\ Settled /\ [Next]_vars => [Service!Next]_(Service!vars)
  BY StepsKeepThePromise
<1> QED BY ControllerInvariant, SettledNext, <1>1, <1>2, <1>3, PTL
        DEF Spec, ImplementsService, Service!Spec

--------------------------------------------------------------------------
(* How a controller in operation stops.                                     *)

\* The faults after which run() ends: the connection goes while it is set up again, the
\* server refuses it with what is not an OSError, or the Arduino sends bytes that are no
\* text.
FatalFaults == {"reconnect_loss", "refused", "garbled"}

\* Once running, the client only sets up a connection that is up.
StaysInv ==
    running => /\ listener # "connect"
               /\ listener \in {"advertise", "settle"} => link = "up"
               /\ listener = "exited" => EndedByCommand /\ job.cmd \in 1 .. Len(commands)

LEMMA StaysNext ==
  ASSUME Faults \cap FatalFaults = {}, OrderInv, LinesInv, StaysInv, [Next]_vars
  PROVE  StaysInv'
<1> USE DEF StaysInv
<1>f. "reconnect_loss" \notin Faults /\ "refused" \notin Faults /\ "garbled" \notin Faults
  BY DEF FatalFaults
<1>1. CASE Connect
  BY <1>1, <1>f DEF Connect, Exit, connection
<1>2. CASE Advertise
  BY <1>2 DEF Advertise, Open, Exit, connection
<1>3. CASE Subscribe
  BY <1>3 DEF Subscribe, Open, Exit, connection
<1>4. CASE Closed
  BY <1>4 DEF Closed, connection
<1>5. CASE Receive
  <2>1. UNCHANGED running /\ listener' \in {"publish", "write"}
    BY <1>5 DEF Receive, Take
  <2> QED BY <2>1
<1>6. CASE Write
  <2>1. CASE listener' \in {"read", "publish"} /\ running' = running
    BY <2>1
  <2>2. CASE job.left = 0 /\ Exit /\ UNCHANGED <<job, commands>>
    <3>1. listener = "write"
      BY <1>6 DEF Write
    <3>2. job.cmd \in 1 .. Len(commands)
      BY <3>1 DEF OrderInv, InHand, AtWork
    <3>3. commands[job.cmd] \in Mistyped
      BY <2>2, <3>1 DEF LinesInv
    <3>4. EndedByCommand'
      BY <2>2, <3>2, <3>3 DEF EndedByCommand, Exit
    <3> QED BY <2>2, <3>2, <3>4 DEF Exit
  <2> QED BY <1>6, <2>1, <2>2 DEF Write, WriteLine, Fail
<1>7. CASE Read
  BY <1>7, <1>f DEF Read, GotLine, NextStep, Fail, connection
<1>8. CASE Publish
  BY <1>8 DEF Publish
<1>9. CASE PublishStatus \/ Notice
  BY <1>9 DEF PublishStatus, Notice, EndedByCommand
<1>10. CASE Lose
  BY <1>10, <1>f DEF Lose, EndedByCommand
<1>11. CASE Answer
  BY <1>11 DEF Answer, connection, EndedByCommand
<1>12. ASSUME NEW kind \in Kinds, SendCommand(kind) PROVE StaysInv'
  <2>1. UNCHANGED <<listener, running, link, job>>
    BY <1>12 DEF SendCommand, connection
  <2>2. job.cmd \in 1 .. Len(commands) =>
           job.cmd \in 1 .. Len(commands') /\ commands'[job.cmd] = commands[job.cmd]
    BY <1>12, AppendAt DEF SendCommand, OrderInv, Numbered
  <2> QED BY <2>1, <2>2 DEF EndedByCommand
<1>13. CASE UNCHANGED vars
  BY <1>13 DEF vars, connection, EndedByCommand
<1> QED BY <1>1, <1>2, <1>3, <1>4, <1>5, <1>6, <1>7, <1>8, <1>9, <1>10, <1>11, <1>12, <1>13
        DEF Next, Listen

\* A controller that listened once goes on, however often the connection is lost and
\* whatever is sent, unless one of the three faults happens or a command is mistyped: it
\* exits only with such a command in hand.
THEOREM OnlyFaultsAndMistypedCommandsEndTheController ==
  ASSUME Faults \cap FatalFaults = {}
  PROVE  Spec => [](running /\ listener = "exited" => EndedByCommand)
<1>1. Init => StaysInv
  BY DEF Init, StaysInv
<1>2. ControllerInv /\ StaysInv /\ [Next]_vars => StaysInv'
  BY StaysNext DEF ControllerInv
<1>3. StaysInv => (running /\ listener = "exited" => EndedByCommand)
  BY DEF StaysInv
<1> QED BY <1>1, <1>2, <1>3, ControllerInvariant, PTL DEF Spec

\* The client never starts the endless loop of `async for` over an ended connection unless
\* the server closes with code 1000.
THEOREM OnlyACleanCloseSpins ==
  ASSUME "clean_close" \notin Faults
  PROVE  Spec => [](listener # "spinning")
<1> DEFINE Inv == link # "ended" /\ listener # "spinning"
<1>1. Init => Inv
  BY DEF Init
<1>2. ControllerInv /\ Inv /\ [Next]_vars => Inv'
  <2> SUFFICES ASSUME ConnectionInv, Inv, [Next]_vars PROVE Inv'
    BY DEF ControllerInv
  <2>1. CASE Connect \/ Advertise \/ Subscribe
    BY <2>1 DEF Connect, Advertise, Subscribe, Exit, connection
  <2>2. CASE Closed
    <3>1. link \in {"up", "dead", "closed", "ended"}
      BY DEF ConnectionInv
    <3> QED BY <2>2, <3>1 DEF Closed, Open, connection
  <2>3. CASE Receive
    <3>1. UNCHANGED connection /\ listener' \in {"publish", "write"}
      BY <2>3 DEF Receive, Take
    <3> QED BY <3>1 DEF connection
  <2>4. CASE Write \/ Read \/ Publish
    BY <2>4 DEF Write, WriteLine, Read, Publish, GotLine, NextStep, Fail, Exit, connection
  <2>5. CASE PublishStatus \/ Notice \/ Lose
    BY <2>5 DEF PublishStatus, Notice, Lose
  <2>6. CASE Answer \/ \E kind \in Kinds : SendCommand(kind)
    BY <2>6 DEF Answer, SendCommand, connection
  <2>7. CASE UNCHANGED vars
    BY <2>7 DEF vars, connection
  <2> QED BY <2>1, <2>2, <2>3, <2>4, <2>5, <2>6, <2>7 DEF Next, Listen
<1>3. Inv => listener # "spinning"
  OBVIOUS
<1> HIDE DEF Inv
<1> QED BY <1>1, <1>2, <1>3, ControllerInvariant, PTL DEF Spec
=============================================================================
