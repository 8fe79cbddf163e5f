------------------------- MODULE RobotRegistryProofs -------------------------
(***************************************************************************)
(* Proofs about RobotRegistry, for every number of identifiers, keys,      *)
(* passwords, names, workers and whatever statuses are typed.              *)
(***************************************************************************)
EXTENDS RobotRegistry, TLAPS

--------------------------------------------------------------------------
(* What the request a worker is in the middle of may rely on.  Nothing is   *)
(* ever deleted, so a row that was read stays stored; a decision is only    *)
(* carried out on a row that was pending when it was read.                  *)

InFlight(w) ==
    /\ worker[w].pc = "insert" => worker[w].req \in Registrations \union Creations
    /\ worker[w].pc = "update" => /\ worker[w].req \in Approvals \union Rejections
                                  /\ worker[w].id \in Stored
                                  /\ worker[w].loaded \in Row
                                  /\ worker[w].loaded.status = "pending_approval"
    /\ worker[w].pc = "refresh" => worker[w].id \in Stored
    /\ worker[w].pc = "verify" => /\ worker[w].req \in Handshakes
                                  /\ worker[w].id \in Stored
                                  /\ worker[w].loaded \in Row

WorkersInFlight == \A w \in Workers : InFlight(w)

TypeInv == TypeOK /\ WorkersInFlight

\* Proceed and Reply touch one worker and leave it a well-typed state.
LEMMA ProceedType ==
    ASSUME worker \in [Workers -> WorkerStates], NEW w \in Workers,
           NEW pc \in {"free", "insert", "update", "refresh", "verify"},
           NEW req \in Requests, NEW id \in RobotIds \union {None},
           NEW loaded \in Row \union {None},
           Proceed(w, pc, req, id, loaded)
    PROVE  /\ worker' \in [Workers -> WorkerStates]
           /\ worker'[w] = [pc |-> pc, req |-> req, id |-> id, loaded |-> loaded,
                            answer |-> None]
           /\ \A v \in Workers \ {w} : worker'[v] = worker[v]
<1>1. [pc |-> pc, req |-> req, id |-> id, loaded |-> loaded, answer |-> None]
        \in WorkerStates
  BY DEF WorkerStates
<1>2. QED
  BY <1>1 DEF Proceed

LEMMA AfterReplyIsFree ==
    ASSUME NEW req, NEW answer
    PROVE  /\ AfterReply(req, answer).pc = "free"
           /\ req.op = "register" => /\ AfterReply(req, answer).req = req
                                     /\ AfterReply(req, answer).answer = answer
           /\ req.op # "register" => AfterReply(req, answer).answer = None
  BY DEF AfterReply, FreeWorker

LEMMA ReplyType ==
    ASSUME worker \in [Workers -> WorkerStates], NEW w \in Workers,
           NEW req \in Requests, NEW answer \in RobotStatus \union {None, "error", "token"},
           Reply(w, req, answer)
    PROVE  /\ worker' \in [Workers -> WorkerStates]
           /\ worker'[w] = AfterReply(req, answer) /\ worker'[w].pc = "free"
           /\ \A v \in Workers \ {w} : worker'[v] = worker[v]
<1>1. AfterReply(req, answer) \in WorkerStates
  BY DEF AfterReply, FreeWorker, WorkerStates
<1>2. worker'[w] = AfterReply(req, answer)
  BY DEF Reply
<1>3. QED
  BY <1>1, <1>2, AfterReplyIsFree DEF Reply

\* A row that is written is stored, logged, and well typed if it was.
LEMMA WriteRowType ==
    ASSUME TypeOK, NEW r \in RobotIds, NEW row \in Row, WriteRow(r, row)
    PROVE  /\ robots' \in [RobotIds -> Row \union {None}]
           /\ history' \in [RobotIds -> Seq(RobotStatus)]
           /\ robots'[r] = row
           /\ history'[r] = Append(history[r], row.status)
           /\ \A s \in RobotIds \ {r} : robots'[s] = robots[s] /\ history'[s] = history[s]
           /\ Stored' = Stored \union {r}
<1>1. row.status \in RobotStatus
  BY DEF Row
<1>2. Append(history[r], row.status) \in Seq(RobotStatus)
  BY <1>1 DEF TypeOK
<1>3. /\ robots' \in [RobotIds -> Row \union {None}]
      /\ robots'[r] = row
      /\ \A s \in RobotIds \ {r} : robots'[s] = robots[s]
  BY DEF WriteRow, TypeOK
<1>4. /\ history' \in [RobotIds -> Seq(RobotStatus)]
      /\ history'[r] = Append(history[r], row.status)
      /\ \A s \in RobotIds \ {r} : history'[s] = history[s]
  BY <1>2 DEF WriteRow, LogStatus, TypeOK
<1>5. Stored' = Stored \union {r}
  BY <1>3, NoneAssumption DEF Stored
<1>6. QED
  BY <1>3, <1>4, <1>5

\* The columns a decision writes: the status it decided, and never the credentials.
LEMMA FlushDecision ==
    ASSUME NEW stored \in Row, NEW loaded \in Row, NEW req \in Approvals \union Rejections,
           loaded.status = "pending_approval"
    PROVE  /\ Flush(stored, loaded, Decided(req, loaded)) \in Row
           /\ Flush(stored, loaded, Decided(req, loaded)).external_identifier
                = stored.external_identifier
           /\ Flush(stored, loaded, Decided(req, loaded)).psw = stored.psw
           /\ Flush(stored, loaded, Decided(req, loaded)).status
                \in {"approved", "rejected"}
<1>1. CASE req \in Approvals
  BY <1>1 DEF Approvals, Flush, Decided, Row, RobotStatus
<1>2. CASE req \in Rejections
  BY <1>2 DEF Rejections, Flush, Decided, Row, RobotStatus
<1>3. QED
  BY <1>1, <1>2

LEMMA NewRobotType ==
    ASSUME NEW req \in Registrations \union Creations,
           NewRobot(req).status \in RobotStatus
    PROVE  NewRobot(req) \in Row /\ NewRobot(req).external_identifier = req.external_identifier
  BY DEF Registrations, Creations, NewRobot, Row

--------------------------------------------------------------------------
(* Type correctness. *)

LEMMA InitType == Init => TypeInv
  BY DEF Init, TypeInv, TypeOK, WorkersInFlight, InFlight, FreeWorker, WorkerStates

\* A step of worker w that removes no robot keeps the other workers in flight.
LEMMA OthersInFlight ==
    ASSUME TypeInv, NEW w \in Workers, Stored \subseteq Stored',
           worker' \in [Workers -> WorkerStates], InFlight(w)',
           \A v \in Workers \ {w} : worker'[v] = worker[v]
    PROVE  WorkersInFlight'
  BY DEF TypeInv, WorkersInFlight, InFlight

LEMMA NextType == TypeInv /\ [Next]_vars => TypeInv'
<1> SUFFICES ASSUME TypeInv, [Next]_vars PROVE TypeInv'
  OBVIOUS
<1> USE DEF TypeInv
<1>1. CASE UNCHANGED vars
  BY <1>1 DEF vars, TypeOK, WorkersInFlight, InFlight, Stored
<1>2. CASE Restart
  BY <1>2 DEF Restart, FreeWorker, TypeOK, WorkersInFlight, InFlight, WorkerStates
<1>3. ASSUME NEW w \in Workers, NEW req \in Registrations, Register(w, req)
      PROVE  TypeInv'
  <2>1. UNCHANGED <<robots, history, tokens>> /\ Stored' = Stored
    BY <1>3 DEF Register, Stored
  <2>2. CASE Proceed(w, "insert", req, None, None)
    <3>1. /\ worker' \in [Workers -> WorkerStates]
          /\ worker'[w].pc = "insert" /\ worker'[w].req = req
          /\ \A v \in Workers \ {w} : worker'[v] = worker[v]
      BY <2>2, ProceedType DEF TypeOK, Requests, Proceed
    <3>2. QED
      BY <2>1, <3>1, OthersInFlight DEF TypeOK, InFlight
  <2>3. ASSUME NEW r \in WithExternalId(req.external_identifier),
               Reply(w, req, robots[r].status)
        PROVE  TypeInv'
    <3>1. robots[r].status \in RobotStatus
      BY DEF WithExternalId, Stored, TypeOK, Row
    <3>2. /\ worker' \in [Workers -> WorkerStates]
          /\ worker'[w].pc = "free"
          /\ \A v \in Workers \ {w} : worker'[v] = worker[v]
      BY <2>3, <3>1, ReplyType DEF TypeOK, Requests, Reply
    <3>3. QED
      BY <2>1, <3>2, OthersInFlight DEF TypeOK, InFlight
  <2>4. QED
    BY <1>3, <2>2, <2>3 DEF Register
<1>4. ASSUME NEW w \in Workers, NEW req \in Creations, Create(w, req)
      PROVE  TypeInv'
  <2>1. UNCHANGED <<robots, history, tokens>> /\ Stored' = Stored
    BY <1>4 DEF Create, Stored
  <2>2. /\ worker' \in [Workers -> WorkerStates]
        /\ worker'[w].pc = "insert" /\ worker'[w].req = req
        /\ \A v \in Workers \ {w} : worker'[v] = worker[v]
    BY <1>4, ProceedType DEF Create, TypeOK, Requests, Proceed
  <2>3. QED
    BY <2>1, <2>2, OthersInFlight DEF TypeOK, InFlight
<1>5. ASSUME NEW w \in Workers, NEW req \in Approvals \union Rejections, Load(w, req)
      PROVE  TypeInv'
  <2>1. UNCHANGED <<robots, history, tokens>> /\ Stored' = Stored
    BY <1>5 DEF Load, Stored
  <2>2. CASE req.id \in Stored /\ robots[req.id].status = "pending_approval"
             /\ Proceed(w, "update", req, req.id, robots[req.id])
    <3>1. req.id \in RobotIds /\ robots[req.id] \in Row
      BY <2>2 DEF Stored, TypeOK
    <3>2. /\ worker' \in [Workers -> WorkerStates]
          /\ worker'[w].pc = "update" /\ worker'[w].req = req
          /\ worker'[w].id = req.id /\ worker'[w].loaded = robots[req.id]
          /\ \A v \in Workers \ {w} : worker'[v] = worker[v]
      BY <2>2, <3>1, ProceedType DEF TypeOK, Requests, Proceed
    <3>3. QED
      BY <2>1, <2>2, <3>1, <3>2, OthersInFlight DEF TypeOK, InFlight
  <2>3. CASE Reply(w, req, "error")
    <3>1. /\ worker' \in [Workers -> WorkerStates]
          /\ worker'[w].pc = "free"
          /\ \A v \in Workers \ {w} : worker'[v] = worker[v]
      BY <2>3, ReplyType DEF TypeOK, Requests, Reply
    <3>2. QED
      BY <2>1, <3>1, OthersInFlight DEF TypeOK, InFlight
  <2>4. QED
    BY <1>5, <2>2, <2>3 DEF Load
<1>6. ASSUME NEW w \in Workers, NEW req \in Handshakes, Handshake(w, req)
      PROVE  TypeInv'
  <2>1. UNCHANGED <<robots, history, tokens>> /\ Stored' = Stored
    BY <1>6 DEF Handshake, Stored
  <2>2. CASE Reply(w, req, "error")
    <3>1. /\ worker' \in [Workers -> WorkerStates]
          /\ worker'[w].pc = "free"
          /\ \A v \in Workers \ {w} : worker'[v] = worker[v]
      BY <2>2, ReplyType DEF TypeOK, Requests, Reply
    <3>2. QED
      BY <2>1, <3>1, OthersInFlight DEF TypeOK, InFlight
  <2>3. ASSUME NEW r \in WithExternalId(req.external_identifier),
               Proceed(w, "verify", req, r, robots[r])
        PROVE  TypeInv'
    <3>1. r \in Stored /\ r \in RobotIds /\ robots[r] \in Row
      BY DEF WithExternalId, Stored, TypeOK
    <3>2. /\ worker' \in [Workers -> WorkerStates]
          /\ worker'[w].pc = "verify" /\ worker'[w].req = req
          /\ worker'[w].id = r /\ worker'[w].loaded = robots[r]
          /\ \A v \in Workers \ {w} : worker'[v] = worker[v]
      BY <2>3, <3>1, ProceedType DEF TypeOK, Requests, Proceed
    <3>3. QED
      BY <2>1, <3>1, <3>2, OthersInFlight DEF TypeOK, InFlight
  <2>4. QED
    BY <1>6, <2>2, <2>3 DEF Handshake
<1>7. ASSUME NEW w \in Workers, Insert(w)
      PROVE  TypeInv'
  <2> DEFINE req == worker[w].req
  <2>1. req \in Registrations \union Creations /\ req \in Requests
    BY <1>7 DEF Insert, WorkersInFlight, InFlight, Requests
  <2>2. ASSUME Accepted(NewRobot(req)), NEW r \in RobotIds \ Stored,
               WriteRow(r, NewRobot(req)), Proceed(w, "refresh", req, r, None),
               UNCHANGED tokens
        PROVE  TypeInv'
    <3>1. NewRobot(req) \in Row
      BY <2>1, <2>2, NewRobotType DEF Accepted
    <3>2. /\ robots' \in [RobotIds -> Row \union {None}]
          /\ history' \in [RobotIds -> Seq(RobotStatus)]
          /\ Stored' = Stored \union {r}
      BY <2>2, <3>1, WriteRowType
    <3>3. /\ worker' \in [Workers -> WorkerStates]
          /\ worker'[w].pc = "refresh" /\ worker'[w].id = r
          /\ \A v \in Workers \ {w} : worker'[v] = worker[v]
      BY <2>1, <2>2, ProceedType DEF TypeOK, Proceed
    <3>4. QED
      BY <2>2, <3>2, <3>3, OthersInFlight DEF TypeOK, InFlight
  <2>3. ASSUME Reply(w, req, "error"), UNCHANGED <<robots, history, tokens>>
        PROVE  TypeInv'
    <3>1. /\ worker' \in [Workers -> WorkerStates]
          /\ worker'[w].pc = "free"
          /\ \A v \in Workers \ {w} : worker'[v] = worker[v]
      BY <2>1, <2>3, ReplyType DEF TypeOK, Reply
    <3>2. QED
      BY <2>3, <3>1, OthersInFlight DEF TypeOK, InFlight, Stored
  <2>4. QED
    BY <1>7, <2>2, <2>3 DEF Insert
<1>8. ASSUME NEW w \in Workers, Update(w)
      PROVE  TypeInv'
  <2> DEFINE me == worker[w]
             row == Flush(robots[me.id], me.loaded, Decided(me.req, me.loaded))
  <2>1. /\ me.req \in Approvals \union Rejections /\ me.req \in Requests
        /\ me.id \in Stored /\ me.id \in RobotIds /\ robots[me.id] \in Row
        /\ me.loaded \in Row /\ me.loaded.status = "pending_approval"
    BY <1>8 DEF Update, WorkersInFlight, InFlight, Requests, Stored, TypeOK
  <2>2. row \in Row
    BY <2>1, FlushDecision
  <2>3. WriteRow(me.id, row) /\ Proceed(w, "refresh", me.req, me.id, None)
        /\ UNCHANGED tokens
    BY <1>8 DEF Update
  <2>4. /\ robots' \in [RobotIds -> Row \union {None}]
        /\ history' \in [RobotIds -> Seq(RobotStatus)]
        /\ Stored' = Stored \union {me.id}
    BY <2>1, <2>2, <2>3, WriteRowType
  <2>5. /\ worker' \in [Workers -> WorkerStates]
        /\ worker'[w].pc = "refresh" /\ worker'[w].id = me.id
        /\ \A v \in Workers \ {w} : worker'[v] = worker[v]
    BY <2>1, <2>3, ProceedType DEF TypeOK, Proceed
  <2>6. QED
    BY <2>3, <2>4, <2>5, OthersInFlight DEF TypeOK, InFlight
<1>9. ASSUME NEW w \in Workers, Refresh(w)
      PROVE  TypeInv'
  <2>1. UNCHANGED <<robots, history, tokens>> /\ Stored' = Stored
    BY <1>9 DEF Refresh, Stored
  <2>2. /\ worker[w] \in WorkerStates /\ worker[w].id \in Stored
        /\ robots[worker[w].id].status \in RobotStatus
    BY <1>9 DEF Refresh, WorkersInFlight, InFlight, Stored, TypeOK, Row
  <2>3. worker' \in [Workers -> WorkerStates]
    <3>1. worker[w].req \in Requests \union {None}
      BY <2>2 DEF WorkerStates
    <3>2. AfterReply(worker[w].req, robots[worker[w].id].status) \in WorkerStates
      BY <2>2, <3>1 DEF AfterReply, FreeWorker, WorkerStates
    <3>3. QED
      BY <1>9, <3>2 DEF Refresh, Reply, TypeOK
  <2>4. /\ worker'[w].pc = "free"
        /\ \A v \in Workers \ {w} : worker'[v] = worker[v]
    BY <1>9, AfterReplyIsFree DEF Refresh, Reply, TypeOK
  <2>5. QED
    BY <2>1, <2>3, <2>4, OthersInFlight DEF TypeOK, InFlight
<1>10. ASSUME NEW w \in Workers, Verify(w)
       PROVE  TypeInv'
  <2>1. UNCHANGED <<robots, history>> /\ Stored' = Stored
    BY <1>10 DEF Verify, Stored
  <2>2. worker[w].req \in Handshakes /\ worker[w].req \in Requests
        /\ worker[w].id \in RobotIds
    BY <1>10 DEF Verify, WorkersInFlight, InFlight, Requests, Stored
  <2>3. tokens' \in SUBSET RobotIds
    BY <1>10, <2>2 DEF Verify, TypeOK
  <2>4. ASSUME NEW answer \in {"error", "token"}, Reply(w, worker[w].req, answer)
        PROVE  /\ worker' \in [Workers -> WorkerStates]
               /\ worker'[w].pc = "free"
               /\ \A v \in Workers \ {w} : worker'[v] = worker[v]
    BY <2>2, <2>4, ReplyType DEF TypeOK, Reply
  <2>5. /\ worker' \in [Workers -> WorkerStates]
        /\ worker'[w].pc = "free"
        /\ \A v \in Workers \ {w} : worker'[v] = worker[v]
    BY <1>10, <2>4 DEF Verify
  <2>6. QED
    BY <2>1, <2>3, <2>5, OthersInFlight DEF TypeOK, InFlight
<1>11. QED
  BY <1>1, <1>2, <1>3, <1>4, <1>5, <1>6, <1>7, <1>8, <1>9, <1>10
     DEF Next, Start, Continue, Approve, Reject

\* Every variable keeps its type, and a worker in the middle of a request holds
\* what its handler loaded: the robot it will write or answer is stored.
THEOREM TypeCorrect == Spec => []TypeInv
<1>1. QED
  BY InitType, NextType, PTL DEF Spec

\* The type invariant the runs check.
THEOREM RegistryTypeOK == Spec => []TypeOK
<1>1. TypeInv => TypeOK
  BY DEF TypeInv
<1>2. QED
  BY <1>1, TypeCorrect, PTL

--------------------------------------------------------------------------
(* What any step may do to the table.  Every property below follows from     *)
(* these three cases, whatever the handler the step belongs to.             *)

Wrote(r, row) ==
    /\ robots'[r] = row
    /\ history'[r] = Append(history[r], row.status)
    /\ \A s \in RobotIds \ {r} : robots'[s] = robots[s] /\ history'[s] = history[s]
    /\ Stored' = Stored \union {r}
    /\ tokens' = tokens

Inserts(r, row) ==
    /\ r \in RobotIds \ Stored
    /\ row \in Row
    /\ \A s \in Stored : robots[s].external_identifier # row.external_identifier
    /\ Wrote(r, row)

Updates(r, row) ==
    /\ r \in Stored
    /\ row \in Row
    /\ row.external_identifier = robots[r].external_identifier
    /\ row.psw = robots[r].psw
    /\ row.status \in {"approved", "rejected"}
    /\ DecisionInFlight(r)
    /\ Wrote(r, row)

TableStep ==
    \/ UNCHANGED <<robots, history>>
    \/ \E r \in RobotIds, row \in Row : Inserts(r, row)
    \/ \E r \in RobotIds, row \in Row : Updates(r, row)

LEMMA InsertStep ==
    ASSUME TypeInv, NEW w \in Workers, Insert(w)
    PROVE  \/ UNCHANGED <<robots, history, tokens>>
           \/ \E r \in RobotIds, row \in Row : Inserts(r, row)
<1> DEFINE row == NewRobot(worker[w].req)
<1>1. worker[w].req \in Registrations \union Creations
  BY DEF Insert, TypeInv, WorkersInFlight, InFlight
<1>2. ASSUME Accepted(row), NEW r \in RobotIds \ Stored, WriteRow(r, row), UNCHANGED tokens
      PROVE  Inserts(r, row) /\ row \in Row
  <2>1. row \in Row
    BY <1>1, <1>2, NewRobotType DEF Accepted
  <2>2. Wrote(r, row)
    BY <1>2, <2>1, WriteRowType DEF TypeInv, Wrote
  <2>3. \A s \in Stored : robots[s].external_identifier # row.external_identifier
    BY <1>2 DEF Accepted, WithExternalId
  <2>4. QED
    BY <1>2, <2>1, <2>2, <2>3 DEF Inserts
<1>3. QED
  BY <1>2 DEF Insert

LEMMA UpdateStep ==
    ASSUME TypeInv, NEW w \in Workers, Update(w)
    PROVE  worker[w].id \in RobotIds /\ \E row \in Row : Updates(worker[w].id, row)
<1> DEFINE me == worker[w]
           row == Flush(robots[me.id], me.loaded, Decided(me.req, me.loaded))
<1>1. /\ me.pc = "update" /\ me.req \in Approvals \union Rejections
      /\ me.id \in Stored /\ me.id \in RobotIds /\ robots[me.id] \in Row
      /\ me.loaded \in Row /\ me.loaded.status = "pending_approval"
  BY DEF Update, TypeInv, TypeOK, WorkersInFlight, InFlight, Stored
<1>2. /\ row \in Row /\ row.psw = robots[me.id].psw
      /\ row.external_identifier = robots[me.id].external_identifier
      /\ row.status \in {"approved", "rejected"}
  BY <1>1, FlushDecision
<1>3. WriteRow(me.id, row) /\ UNCHANGED tokens
  BY DEF Update
<1>4. Wrote(me.id, row)
  BY <1>1, <1>2, <1>3, WriteRowType DEF TypeInv, Wrote
<1>5. DecisionInFlight(me.id)
  BY <1>1 DEF DecisionInFlight
<1>6. Updates(me.id, row)
  BY <1>1, <1>2, <1>4, <1>5 DEF Updates
<1>7. QED
  BY <1>1, <1>2, <1>6

LEMMA NextTableStep == TypeInv /\ [Next]_vars => TableStep
<1> SUFFICES ASSUME TypeInv, [Next]_vars PROVE TableStep
  OBVIOUS
<1>1. CASE UNCHANGED vars
  BY <1>1 DEF vars, TableStep
<1>2. CASE Restart
  BY <1>2 DEF Restart, TableStep
<1>3. ASSUME NEW w \in Workers, Start(w) PROVE TableStep
  BY <1>3 DEF Start, Register, Create, Approve, Reject, Load, Handshake, TableStep
<1>4. ASSUME NEW w \in Workers, Refresh(w) \/ Verify(w) PROVE TableStep
  BY <1>4 DEF Refresh, Verify, TableStep
<1>5. ASSUME NEW w \in Workers, Insert(w) \/ Update(w) PROVE TableStep
  BY <1>5, InsertStep, UpdateStep DEF TableStep
<1>6. QED
  BY <1>1, <1>2, <1>3, <1>4, <1>5 DEF Next, Continue

--------------------------------------------------------------------------
(* Credentials, uniqueness and finality. *)

LEMMA CredentialsStep ==
    ASSUME TypeInv, TableStep, NEW r \in RobotIds, r \in Stored
    PROVE  /\ robots'[r] # None
           /\ robots'[r].external_identifier = robots[r].external_identifier
           /\ robots'[r].psw = robots[r].psw
<1>1. CASE UNCHANGED <<robots, history>>
  BY <1>1 DEF Stored
<1>2. ASSUME NEW s \in RobotIds, NEW row \in Row, Inserts(s, row)
      PROVE  robots'[r] = robots[r]
  BY <1>2 DEF Inserts, Wrote
<1>3. ASSUME NEW s \in RobotIds, NEW row \in Row, Updates(s, row)
      PROVE  \/ robots'[r] = robots[r]
             \/ /\ robots'[r] \in Row
                /\ robots'[r].external_identifier = robots[r].external_identifier
                /\ robots'[r].psw = robots[r].psw
  BY <1>3 DEF Updates, Wrote
<1>4. QED
  BY <1>1, <1>2, <1>3, NoneAssumption DEF TableStep, Stored

\* A stored robot stays stored with the identifier and password it was inserted
\* with, whatever registrations and decisions run beside each other.
THEOREM CredentialsAreKept == Spec => CredentialsNeverChange
<1>1. TypeInv /\ [Next]_vars =>
        [\A r \in RobotIds :
           r \in Stored =>
              /\ robots'[r] # None
              /\ robots'[r].external_identifier = robots[r].external_identifier
              /\ robots'[r].psw = robots[r].psw]_vars
  BY CredentialsStep, NextTableStep
<1>2. QED
  BY <1>1, TypeCorrect, PTL DEF Spec, CredentialsNeverChange

\* Two robots never share an identifier, however the look-ups and INSERTs of
\* registrations and creations interleave.
THEOREM IdentifiersAreUnique == Spec => []UniqueExternalIds
<1>1. Init => UniqueExternalIds
  BY DEF Init, UniqueExternalIds, Stored
<1>2. ASSUME TypeInv, UniqueExternalIds, TableStep
      PROVE  UniqueExternalIds'
  <2>1. CASE UNCHANGED <<robots, history>>
    BY <1>2, <2>1 DEF UniqueExternalIds, Stored
  <2>2. ASSUME NEW r \in RobotIds, NEW row \in Row, Inserts(r, row)
        PROVE  UniqueExternalIds'
    <3>1. SUFFICES ASSUME NEW a \in Stored', NEW b \in Stored',
                          robots'[a].external_identifier = robots'[b].external_identifier
                   PROVE  a = b
      BY DEF UniqueExternalIds
    <3>2. \A s \in Stored : s # r /\ robots'[s] = robots[s]
      BY <2>2 DEF Inserts, Wrote, Stored
    <3>3. QED
      BY <1>2, <2>2, <3>1, <3>2 DEF UniqueExternalIds, Inserts, Wrote
  <2>3. ASSUME NEW r \in RobotIds, NEW row \in Row, Updates(r, row)
        PROVE  UniqueExternalIds'
    <3>1. Stored' = Stored
      BY <2>3 DEF Updates, Wrote
    <3>2. \A s \in Stored : robots'[s].external_identifier = robots[s].external_identifier
      BY <2>3 DEF Updates, Wrote, Stored
    <3>3. QED
      BY <1>2, <3>1, <3>2 DEF UniqueExternalIds
  <2>4. QED
    BY <1>2, <2>1, <2>2, <2>3 DEF TableStep
<1>3. TypeInv /\ UniqueExternalIds /\ [Next]_vars => UniqueExternalIds'
  BY <1>2, NextTableStep
<1>4. QED
  BY <1>1, <1>3, TypeCorrect, PTL DEF Spec

\* Only Load brings a worker to the point of writing, and only for a pending robot.
LEMMA DecisionStarts ==
    ASSUME TypeInv, [Next]_vars, NEW r \in RobotIds, DecisionInFlight(r)'
    PROVE  DecisionInFlight(r) \/ (r \in Stored /\ robots[r].status = "pending_approval")
<1>0. PICK v \in Workers : worker'[v].pc = "update" /\ worker'[v].id = r
  BY DEF DecisionInFlight
<1>1. CASE worker'[v] = worker[v]
  BY <1>0, <1>1 DEF DecisionInFlight
<1>2. CASE Restart
  BY <1>0, <1>2 DEF Restart, FreeWorker
<1>3. ASSUME NEW w \in Workers, NEW req \in Approvals \union Rejections, Load(w, req),
             worker'[v] # worker[v]
      PROVE  r \in Stored /\ robots[r].status = "pending_approval"
  BY <1>0, <1>3, AfterReplyIsFree DEF Load, Proceed, Reply, TypeInv, TypeOK
<1>4. ASSUME NEW w \in Workers, worker'[v] # worker[v],
             \/ \E req \in Registrations : Register(w, req)
             \/ \E req \in Creations : Create(w, req)
             \/ \E req \in Handshakes : Handshake(w, req)
             \/ Continue(w)
      PROVE  FALSE
  BY <1>0, <1>4, AfterReplyIsFree DEF Register, Create, Handshake, Continue, Insert, Update, Refresh,
                    Verify, Proceed, Reply, TypeInv, TypeOK
<1>5. CASE UNCHANGED vars
  BY <1>1, <1>5 DEF vars
<1>6. QED
  BY <1>1, <1>2, <1>3, <1>4, <1>5 DEF Next, Start, Approve, Reject

\* Once a robot is decided and the decisions that were in flight are through, its
\* status is final: the race of two administrators is the only way round a decision.
THEOREM SettledRobotsStaySettled == Spec => SettledIsFinal
<1>1. ASSUME TypeInv, [Next]_vars, TableStep, NEW r \in RobotIds, Settled(r)
      PROVE  Settled(r)' /\ robots'[r].status = robots[r].status
  <2>1. ASSUME NEW s \in RobotIds, NEW row \in Row, Inserts(s, row)
        PROVE  robots'[r] = robots[r]
    BY <1>1, <2>1 DEF Settled, Inserts, Wrote
  <2>2. ASSUME NEW s \in RobotIds, NEW row \in Row, Updates(s, row)
        PROVE  robots'[r] = robots[r]
    BY <1>1, <2>2 DEF Settled, Updates, Wrote
  <2>3. robots'[r] = robots[r]
    BY <1>1, <2>1, <2>2 DEF TableStep
  <2>4. ~ DecisionInFlight(r)'
    BY <1>1, DecisionStarts DEF Settled
  <2>5. QED
    BY <1>1, <2>3, <2>4 DEF Settled, Stored
<1>2. TypeInv /\ [Next]_vars =>
        [\A r \in RobotIds :
           Settled(r) => Settled(r)' /\ robots'[r].status = robots[r].status]_vars
  BY <1>1, NextTableStep
<1>3. QED
  BY <1>2, TypeCorrect, PTL DEF Spec, SettledIsFinal

--------------------------------------------------------------------------
(* The history and the tokens. *)

\* The history of every robot ends in its status: the trigger's INSERT and the row's
\* write are one step, in each of the ways a row is written.
THEOREM HistoryFollows == Spec => []HistoryFollowsRow
<1>1. Init => HistoryFollowsRow
  BY DEF Init, HistoryFollowsRow, Stored
<1>2. ASSUME TypeInv, HistoryFollowsRow, TableStep
      PROVE  HistoryFollowsRow'
  <2>1. CASE UNCHANGED <<robots, history>>
    BY <1>2, <2>1 DEF HistoryFollowsRow, Stored
  <2>2. ASSUME NEW r \in RobotIds, NEW row \in Row, Wrote(r, row)
        PROVE  HistoryFollowsRow'
    <3>1. /\ history[r] \in Seq(RobotStatus) /\ row.status \in RobotStatus
          /\ Len(history'[r]) = Len(history[r]) + 1
          /\ history'[r][Len(history'[r])] = row.status
      BY <1>2, <2>2 DEF TypeInv, TypeOK, Row, Wrote
    <3>2. r \in Stored' /\ robots'[r].status = row.status
      BY <2>2 DEF Wrote
    <3>3. \A s \in RobotIds \ {r} :
            /\ robots'[s] = robots[s] /\ history'[s] = history[s]
            /\ s \in Stored' <=> s \in Stored
      BY <2>2 DEF Wrote
    <3>4. Len(history[r]) \in Nat
      BY <3>1
    <3>5. QED
      BY <1>2, <3>1, <3>2, <3>3, <3>4 DEF HistoryFollowsRow
  <2>3. QED
    BY <1>2, <2>1, <2>2 DEF TableStep, Inserts, Updates
<1>3. TypeInv /\ HistoryFollowsRow /\ [Next]_vars => HistoryFollowsRow'
  BY <1>2, NextTableStep
<1>4. QED
  BY <1>1, <1>3, TypeCorrect, PTL DEF Spec

\* After its first entry a history holds decisions only, so nothing puts a robot back
\* to pending.
THEOREM PendingIsNeverReentered == Spec => []NothingReturnsToPending
<1>1. Init => NothingReturnsToPending
  BY DEF Init, NothingReturnsToPending
<1>2. ASSUME TypeInv, HistoryFollowsRow, NothingReturnsToPending, TableStep
      PROVE  NothingReturnsToPending'
  <2>1. CASE UNCHANGED <<robots, history>>
    BY <1>2, <2>1 DEF NothingReturnsToPending
  <2>2. ASSUME NEW r \in RobotIds, NEW row \in Row, Wrote(r, row),
               \/ history[r] = <<>>
               \/ row.status \in {"approved", "rejected"}
        PROVE  NothingReturnsToPending'
    <3>1. /\ history[r] \in Seq(RobotStatus) /\ row.status \in RobotStatus
          /\ history'[r] = Append(history[r], row.status)
      BY <1>2, <2>2 DEF TypeInv, TypeOK, Row, Wrote
    <3>2. ASSUME NEW i \in 2 .. Len(history'[r])
          PROVE  history'[r][i] \in {"approved", "rejected"}
      <4>1. CASE i \in 1 .. Len(history[r])
        BY <1>2, <3>1, <3>2, <4>1 DEF NothingReturnsToPending
      <4>2. CASE i = Len(history[r]) + 1
        BY <2>2, <3>1, <3>2, <4>2
      <4>3. QED
        BY <3>1, <3>2, <4>1, <4>2
    <3>3. \A s \in RobotIds \ {r} : history'[s] = history[s]
      BY <2>2 DEF Wrote
    <3>4. QED
      BY <1>2, <3>2, <3>3 DEF NothingReturnsToPending
  <2>3. ASSUME NEW r \in RobotIds, NEW row \in Row, Inserts(r, row)
        PROVE  NothingReturnsToPending'
    BY <1>2, <2>2, <2>3 DEF Inserts, HistoryFollowsRow
  <2>4. ASSUME NEW r \in RobotIds, NEW row \in Row, Updates(r, row)
        PROVE  NothingReturnsToPending'
    BY <2>2, <2>4 DEF Updates
  <2>5. QED
    BY <1>2, <2>1, <2>3, <2>4 DEF TableStep
<1>3. TypeInv /\ HistoryFollowsRow /\ NothingReturnsToPending /\ [Next]_vars
        => NothingReturnsToPending'
  BY <1>2, NextTableStep
<1>4. QED
  BY <1>1, <1>3, TypeCorrect, HistoryFollows, PTL DEF Spec

WasApproved(r) == \E i \in 1 .. Len(history[r]) : history[r][i] = "approved"

\* A handshake that may still succeed works on a row that was approved once.
VerifyingApproved ==
    \A w \in Workers :
        worker[w].pc = "verify" /\ worker[w].loaded.status = "approved"
            => WasApproved(worker[w].id)

\* Histories only grow.
LEMMA ApprovalIsRemembered ==
    ASSUME TypeInv, TableStep, NEW r \in RobotIds, WasApproved(r)
    PROVE  WasApproved(r)'
<1>1. CASE UNCHANGED <<robots, history>>
  BY <1>1 DEF WasApproved
<1>2. ASSUME NEW s \in RobotIds, NEW row \in Row, Wrote(s, row)
      PROVE  WasApproved(r)'
  <2>1. CASE s = r
    <3>1. /\ history[r] \in Seq(RobotStatus) /\ row.status \in RobotStatus
          /\ history'[r] = Append(history[r], row.status)
      BY <1>2, <2>1 DEF TypeInv, TypeOK, Row, Wrote
    <3>2. PICK i \in 1 .. Len(history[r]) : history[r][i] = "approved"
      BY DEF WasApproved
    <3>3. i \in 1 .. Len(history'[r]) /\ history'[r][i] = "approved"
      BY <3>1, <3>2
    <3>4. QED
      BY <3>3 DEF WasApproved
  <2>2. CASE s # r
    BY <1>2, <2>2 DEF WasApproved, Wrote
  <2>3. QED
    BY <2>1, <2>2
<1>3. QED
  BY <1>1, <1>2 DEF TableStep, Inserts, Updates

\* A stored approved row was approved by some entry of its history: the last one.
LEMMA ApprovedRowWasApproved ==
    ASSUME TypeInv, HistoryFollowsRow, NEW r \in Stored, robots[r].status = "approved"
    PROVE  WasApproved(r)
<1>1. /\ Len(history[r]) > 0 /\ history[r][Len(history[r])] = "approved"
      /\ history[r] \in Seq(RobotStatus)
  BY DEF HistoryFollowsRow, TypeInv, TypeOK, Stored
<1>2. Len(history[r]) \in 1 .. Len(history[r])
  BY <1>1
<1>3. QED
  BY <1>1, <1>2 DEF WasApproved

\* A worker verifies a handshake only after it loaded the row in Handshake.
LEMMA VerifyStarts ==
    ASSUME TypeInv, [Next]_vars, NEW v \in Workers, worker'[v].pc = "verify"
    PROVE  \/ worker'[v] = worker[v]
           \/ /\ worker'[v].id \in Stored
              /\ worker'[v].loaded = robots[worker'[v].id]
<1>1. CASE Restart
  BY <1>1 DEF Restart, FreeWorker
<1>2. ASSUME NEW w \in Workers, NEW req \in Handshakes, Handshake(w, req)
      PROVE  \/ worker'[v] = worker[v]
             \/ /\ worker'[v].id \in Stored
                /\ worker'[v].loaded = robots[worker'[v].id]
  BY <1>2, AfterReplyIsFree DEF Handshake, Proceed, Reply, TypeInv, TypeOK, WithExternalId
<1>3. ASSUME NEW w \in Workers, worker'[v] # worker[v],
             \/ \E req \in Registrations : Register(w, req)
             \/ \E req \in Creations : Create(w, req)
             \/ \E req \in Approvals \union Rejections : Load(w, req)
             \/ Continue(w)
      PROVE  FALSE
  BY <1>3, AfterReplyIsFree DEF Register, Create, Load, Continue, Insert, Update, Refresh, Verify,
              Proceed, Reply, TypeInv, TypeOK
<1>4. CASE UNCHANGED vars
  BY <1>4 DEF vars
<1>5. QED
  BY <1>1, <1>2, <1>3, <1>4 DEF Next, Start, Approve, Reject

\* A token is only ever issued to a robot that some committed decision (or the
\* administrator who created it) approved, although the handshake works on a copy.
THEOREM TokensNeedAnApproval == Spec => []TokenOnlyIfEverApproved
<1> DEFINE Inv == TokenOnlyIfEverApproved /\ VerifyingApproved
<1>1. Init => Inv
  BY DEF Init, TokenOnlyIfEverApproved, VerifyingApproved, FreeWorker
<1>2. ASSUME TypeInv, HistoryFollowsRow, Inv, [Next]_vars, TableStep
      PROVE  Inv'
  <2>1. \A r \in RobotIds : WasApproved(r) => WasApproved(r)'
    BY <1>2, ApprovalIsRemembered
  <2>2. VerifyingApproved'
    <3>1. ASSUME NEW v \in Workers, NEW r \in RobotIds, worker'[v].pc = "verify",
                 worker'[v].loaded.status = "approved", worker'[v].id = r
          PROVE  WasApproved(r)'
      <4>1. CASE worker'[v] = worker[v]
        BY <1>2, <2>1, <3>1, <4>1 DEF VerifyingApproved
      <4>2. CASE r \in Stored /\ worker'[v].loaded = robots[r]
        BY <1>2, <2>1, <3>1, <4>2, ApprovedRowWasApproved
      <4>3. QED
        BY <1>2, <3>1, <4>1, <4>2, VerifyStarts
    <3>2. \A v \in Workers : worker'[v].pc = "verify" => worker'[v].id \in RobotIds
      BY <1>2, NextType DEF TypeInv, WorkersInFlight, InFlight, Stored
    <3>3. QED
      BY <3>1, <3>2 DEF VerifyingApproved, WasApproved
  <2>3. \A r \in tokens' : r \in RobotIds /\ (r \in tokens \/ WasApproved(r))
    <3>1. CASE tokens' = tokens
      BY <1>2, <3>1 DEF TypeInv, TypeOK
    <3>2. ASSUME NEW w \in Workers, Verify(w)
          PROVE  \A r \in tokens' : r \in RobotIds /\ (r \in tokens \/ WasApproved(r))
      BY <1>2, <3>2 DEF Verify, VerifyingApproved, TypeInv, TypeOK, WorkersInFlight,
                        InFlight, Stored
    <3>3. QED
      BY <1>2, <3>1, <3>2 DEF Next, Start, Continue, Restart, Register, Create, Approve,
                              Reject, Load, Handshake, Insert, Update, Refresh, vars
  <2>4. TokenOnlyIfEverApproved'
    BY <1>2, <2>1, <2>3 DEF TokenOnlyIfEverApproved, WasApproved
  <2>5. QED
    BY <2>2, <2>4
<1>3. TypeInv /\ HistoryFollowsRow /\ Inv /\ [Next]_vars => Inv'
  BY <1>2, NextTableStep
<1>4. QED
  BY <1>1, <1>3, TypeCorrect, HistoryFollows, PTL DEF Spec

--------------------------------------------------------------------------
(* Registrations that were answered. *)

\* The row a registration inserted is the one its answer will be read from.
RefreshesItsOwn ==
    \A w \in Workers :
        worker[w].pc = "refresh" /\ worker[w].req \in Registrations
            => robots[worker[w].id].external_identifier = worker[w].req.external_identifier

LEMMA RegisterIsNoDecision ==
    (Approvals \union Rejections \union Handshakes \union Creations) \cap Registrations = {}
  BY DEF Approvals, Rejections, Handshakes, Creations, Registrations

\* An answered registration has its robot in the table, also when the answer was the
\* error of another request inserting it first.
THEOREM RegistrationsAreStored == Spec => []AnsweredRegistrationIsStored
<1> DEFINE Inv == AnsweredRegistrationIsStored /\ RefreshesItsOwn
           Answered(v) == /\ worker[v].pc = "free"
                          /\ worker[v].req \in Registrations
                          /\ worker[v].answer # None
           Known(v) == WithExternalId(worker[v].req.external_identifier) # {}
           Own(v) == /\ worker[v].pc = "refresh"
                     /\ worker[v].req \in Registrations
                     => robots[worker[v].id].external_identifier
                          = worker[v].req.external_identifier
<1>1. Init => Inv
  BY DEF Init, AnsweredRegistrationIsStored, RefreshesItsOwn, FreeWorker
<1>2. ASSUME TypeInv, Inv, [Next]_vars, TableStep
      PROVE  Inv'
  <2>1. \A e : WithExternalId(e) # {} => WithExternalId(e)' # {}
    BY <1>2, CredentialsStep DEF WithExternalId, Stored
  <2>2. ASSUME NEW v \in Workers, worker'[v] = worker[v]
        PROVE  (Answered(v)' => Known(v)') /\ Own(v)'
    <3>1. Answered(v)' => Known(v)'
      BY <1>2, <2>1, <2>2 DEF AnsweredRegistrationIsStored, Free
    <3>2. worker[v].pc = "refresh" => worker[v].id \in Stored /\ worker[v].id \in RobotIds
      BY <1>2 DEF TypeInv, WorkersInFlight, InFlight, Stored
    <3>3. Own(v)'
      BY <1>2, <2>2, <3>2, CredentialsStep DEF RefreshesItsOwn
    <3>4. QED
      BY <3>1, <3>3
  <2>3. CASE Restart
    BY <2>3 DEF Restart, FreeWorker, AnsweredRegistrationIsStored, RefreshesItsOwn
  <2>4. ASSUME NEW w \in Workers, NEW req \in Registrations, Register(w, req)
        PROVE  (Answered(w)' => Known(w)') /\ Own(w)'
    <3>1. req.op = "register"
      BY DEF Registrations
    <3>2. CASE Proceed(w, "insert", req, None, None)
      BY <1>2, <3>2 DEF Proceed, TypeInv, TypeOK
    <3>3. ASSUME NEW r \in WithExternalId(req.external_identifier), Reply(w, req, robots[r].status)
          PROVE  (Answered(w)' => Known(w)') /\ Own(w)'
      <4>1. worker'[w] = AfterReply(req, robots[r].status)
        BY <1>2, <3>3 DEF Reply, TypeInv, TypeOK
      <4>2. worker'[w].pc = "free" /\ worker'[w].req = req
        BY <3>1, <4>1, AfterReplyIsFree
      <4>3. QED
        BY <2>1, <4>2
    <3>4. QED
      BY <2>4, <3>2, <3>3 DEF Register
  <2>5. ASSUME NEW w \in Workers, Insert(w)
        PROVE  (Answered(w)' => Known(w)') /\ Own(w)'
    <3> DEFINE req == worker[w].req
    <3>1. req \in Registrations \union Creations /\ req \notin Creations \cap Registrations
      BY <1>2, <2>5, RegisterIsNoDecision DEF Insert, TypeInv, WorkersInFlight, InFlight
    <3>2. req \in Registrations =>
            /\ NewRobot(req).external_identifier = req.external_identifier
            /\ NewRobot(req).status = "pending_approval"
      BY DEF Registrations, NewRobot
    <3>3. ASSUME Accepted(NewRobot(req)), NEW r \in RobotIds \ Stored,
                 WriteRow(r, NewRobot(req)), Proceed(w, "refresh", req, r, None)
          PROVE  (Answered(w)' => Known(w)') /\ Own(w)'
      <4>1. robots'[r] = NewRobot(req)
        BY <1>2, <3>3 DEF WriteRow, TypeInv, TypeOK
      <4>2. worker'[w].pc = "refresh" /\ worker'[w].req = req /\ worker'[w].id = r
        BY <1>2, <3>3 DEF Proceed, TypeInv, TypeOK
      <4>3. QED
        BY <3>2, <4>1, <4>2
    <3>4. ASSUME ~ Accepted(NewRobot(req)), Reply(w, req, "error"), UNCHANGED robots
          PROVE  (Answered(w)' => Known(w)') /\ Own(w)'
      <4>1. worker'[w] = AfterReply(req, "error")
        BY <1>2, <3>4 DEF Reply, TypeInv, TypeOK
      <4>2. req \in Registrations => WithExternalId(req.external_identifier) # {}
        BY <3>2, <3>4 DEF Accepted, RobotStatus
      <4>3. CASE req.op = "register"
        <5>1. req \in Registrations /\ worker'[w].req = req /\ worker'[w].pc = "free"
          BY <3>1, <4>1, <4>3, AfterReplyIsFree DEF Creations
        <5>2. QED
          BY <2>1, <4>2, <5>1
      <4>4. CASE req.op # "register"
        BY <4>1, <4>4, AfterReplyIsFree
      <4>5. QED
        BY <4>3, <4>4
    <3>5. QED
      BY <2>5, <3>3, <3>4 DEF Insert
  <2>6. ASSUME NEW w \in Workers, Refresh(w)
        PROVE  (Answered(w)' => Known(w)') /\ Own(w)'
    BY <1>2, <2>6, AfterReplyIsFree DEF Refresh, Reply, RefreshesItsOwn, WithExternalId, Stored, TypeInv,
                      TypeOK, WorkersInFlight, InFlight
  <2>7. ASSUME NEW w \in Workers,
               \/ \E req \in Creations : Create(w, req)
               \/ \E req \in Approvals \union Rejections : Load(w, req)
               \/ \E req \in Handshakes : Handshake(w, req)
               \/ Update(w) \/ Verify(w)
        PROVE  (Answered(w)' => Known(w)') /\ Own(w)'
    <3>1. ASSUME NEW req \in Creations \union Approvals \union Rejections \union Handshakes,
                 \/ \E answer : Reply(w, req, answer)
                 \/ \E pc \in {"insert", "update", "refresh", "verify"} : \E id, loaded :
                       Proceed(w, pc, req, id, loaded)
          PROVE  (Answered(w)' => Known(w)') /\ Own(w)'
      <4>1. req \notin Registrations /\ req.op # "register"
        BY RegisterIsNoDecision DEF Creations, Approvals, Rejections, Handshakes
      <4>2. ASSUME NEW answer, Reply(w, req, answer)
            PROVE  worker'[w].pc = "free" /\ worker'[w].answer = None
        <5>1. worker'[w] = AfterReply(req, answer)
          BY <1>2, <4>2 DEF Reply, TypeInv, TypeOK
        <5>2. QED
          BY <4>1, <5>1, AfterReplyIsFree
      <4>3. ASSUME NEW pc \in {"insert", "update", "refresh", "verify"}, NEW id, NEW loaded,
                   Proceed(w, pc, req, id, loaded)
            PROVE  worker'[w].pc # "free" /\ worker'[w].req = req
        BY <1>2, <4>3 DEF Proceed, TypeInv, TypeOK
      <4>4. QED
        BY <3>1, <4>1, <4>2, <4>3
    <3>2. /\ worker[w].pc = "update" => worker[w].req \in Approvals \union Rejections
          /\ worker[w].pc = "verify" => worker[w].req \in Handshakes
      BY <1>2 DEF TypeInv, WorkersInFlight, InFlight
    <3>3. CASE \/ \E req \in Creations : Create(w, req)
               \/ \E req \in Approvals \union Rejections : Load(w, req)
               \/ \E req \in Handshakes : Handshake(w, req)
      BY <3>1, <3>3 DEF Create, Load, Handshake
    <3>4. CASE Update(w) \/ Verify(w)
      BY <3>1, <3>2, <3>4 DEF Update, Verify
    <3>5. QED
      BY <2>7, <3>3, <3>4
  <2>8. \A w \in Workers : Start(w) \/ Continue(w) =>
          \A v \in Workers \ {w} : worker'[v] = worker[v]
    BY <1>2 DEF Start, Continue, Register, Create, Approve, Reject, Load, Handshake,
                Insert, Update, Refresh, Verify, Proceed, Reply, TypeInv, TypeOK
  <2>9. ASSUME NEW w \in Workers, Start(w) \/ Continue(w), NEW v \in Workers
        PROVE  (Answered(v)' => Known(v)') /\ Own(v)'
    <3>1. CASE v # w
      BY <2>2, <2>8, <2>9, <3>1
    <3>2. CASE v = w
      BY <2>4, <2>5, <2>6, <2>7, <2>9, <3>2 DEF Start, Continue, Approve, Reject
    <3>3. QED
      BY <3>1, <3>2
  <2>10. CASE UNCHANGED vars
    BY <2>2, <2>10 DEF vars, AnsweredRegistrationIsStored, RefreshesItsOwn, Free
  <2>11. QED
    BY <1>2, <2>3, <2>9, <2>10
       DEF Next, AnsweredRegistrationIsStored, RefreshesItsOwn, Free
<1>3. TypeInv /\ Inv /\ [Next]_vars => Inv'
  BY <1>2, NextTableStep
<1>4. QED
  BY <1>1, <1>3, TypeCorrect, PTL DEF Spec

--------------------------------------------------------------------------
(* The documented lifecycle, when requests do not overlap.  The argument:   *)
(* a lone worker decides on a row nobody changed since it was read, so every *)
(* write starts from the state the handler's guard saw.                     *)

OneWorker == \A v, w \in Workers : v = w

LoadedIsCurrent ==
    \A w \in Workers :
        worker[w].pc \in {"update", "verify"} => worker[w].loaded = robots[worker[w].id]

LEMMA LoadedStaysCurrent ==
    ASSUME OneWorker, TypeInv, LoadedIsCurrent, [Next]_vars
    PROVE  LoadedIsCurrent'
<1>1. CASE UNCHANGED vars
  BY <1>1 DEF vars, LoadedIsCurrent
<1>2. CASE Restart
  BY <1>2 DEF Restart, FreeWorker, LoadedIsCurrent
<1>3. ASSUME NEW w \in Workers,
             \/ \E req \in Registrations : Register(w, req)
             \/ \E req \in Creations : Create(w, req)
             \/ Insert(w) \/ Update(w) \/ Refresh(w) \/ Verify(w)
      PROVE  worker'[w].pc \notin {"update", "verify"}
  BY <1>3, AfterReplyIsFree DEF Register, Create, Insert, Update, Refresh, Verify, Proceed, Reply,
              TypeInv, TypeOK
<1>4. ASSUME NEW w \in Workers,
             \/ \E req \in Approvals \union Rejections : Load(w, req)
             \/ \E req \in Handshakes : Handshake(w, req)
      PROVE  /\ UNCHANGED robots
             /\ worker'[w].pc \in {"update", "verify"}
                  => worker'[w].loaded = robots[worker'[w].id]
  BY <1>4, AfterReplyIsFree DEF Load, Handshake, Proceed, Reply, TypeInv, TypeOK
<1>5. ASSUME NEW w \in Workers, Start(w) \/ Continue(w)
      PROVE  LoadedIsCurrent'
  BY <1>3, <1>4, <1>5 DEF OneWorker, Start, Continue, Approve, Reject, LoadedIsCurrent
<1>6. QED
  BY <1>1, <1>2, <1>5 DEF Next

\* What the refinement mapping shows of a stored robot.
LEMMA StatusOfStored ==
    ASSUME UniqueExternalIds, NEW r \in Stored
    PROVE  /\ WithExternalId(robots[r].external_identifier) = {r}
           /\ StatusOf(robots[r].external_identifier) = robots[r].status
<1>1. WithExternalId(robots[r].external_identifier) = {r}
  BY DEF UniqueExternalIds, WithExternalId
<1>2. QED
  BY <1>1 DEF StatusOf

\* Writing one row changes the status of its identifier and of no other.
LEMMA WriteChangesOneStatus ==
    ASSUME TypeInv, UniqueExternalIds, UniqueExternalIds', HistoryFollowsRow,
           TokenOnlyIfEverApproved, NEW r \in RobotIds, NEW row \in Row,
           Inserts(r, row) \/ Updates(r, row)
    PROVE  LET e == row.external_identifier
           IN /\ e \in ExternalIds
              /\ [i \in ExternalIds |-> StatusOf(i)]'
                   = [[i \in ExternalIds |-> StatusOf(i)] EXCEPT ![e] = row.status]
              /\ {i \in ExternalIds : WithExternalId(i) \cap tokens # {}}'
                   = {i \in ExternalIds : WithExternalId(i) \cap tokens # {}}
<1> DEFINE e == row.external_identifier
<1>1. e \in ExternalIds
  BY DEF Row
<1>2. r \in Stored' /\ robots'[r] = row
  BY DEF Inserts, Updates, Wrote
<1>3. WithExternalId(e)' = {r} /\ StatusOf(e)' = row.status
  <2>1. (r \in Stored /\ robots[r].external_identifier = e)'
    BY <1>2
  <2>2. WithExternalId(e)' = {r}
    BY <1>2 DEF UniqueExternalIds, WithExternalId
  <2>3. QED
    BY <1>2, <2>2 DEF StatusOf
<1>4. WithExternalId(e) = {r} \/ (WithExternalId(e) = {} /\ r \notin Stored)
  <2>1. CASE Inserts(r, row)
    BY <2>1 DEF Inserts, WithExternalId
  <2>2. CASE Updates(r, row)
    BY <2>2, StatusOfStored DEF Updates
  <2>3. QED
    BY <2>1, <2>2
<1>5. ASSUME NEW i \in ExternalIds, i # e
      PROVE  WithExternalId(i)' = WithExternalId(i) /\ StatusOf(i)' = StatusOf(i)
  <2>1. r \in Stored => robots[r].external_identifier = e
    BY DEF Inserts, Updates
  <2>2. /\ Stored' = Stored \union {r}
        /\ \A s \in RobotIds \ {r} : robots'[s] = robots[s]
    BY DEF Inserts, Updates, Wrote
  <2>3. WithExternalId(i)' = WithExternalId(i) /\ r \notin WithExternalId(i)
    BY <1>2, <1>5, <2>1, <2>2 DEF WithExternalId, Stored
  <2>4. CASE WithExternalId(i) = {}
    BY <2>3, <2>4 DEF StatusOf
  <2>5. CASE WithExternalId(i) # {}
    <3>1. PICK s \in WithExternalId(i) : TRUE
      BY <2>5
    <3>2. WithExternalId(i) = {s} /\ robots'[s] = robots[s]
      BY <2>2, <2>3, <3>1 DEF UniqueExternalIds, WithExternalId, Stored
    <3>3. StatusOf(i) = robots[s].status
      BY <3>2 DEF StatusOf
    <3>4. WithExternalId(i)' = {s}
      BY <2>3, <3>2
    <3>5. StatusOf(i)' = robots'[s].status
      BY <3>4 DEF StatusOf
    <3>6. QED
      BY <2>3, <3>2, <3>3, <3>5
  <2>6. QED
    BY <2>3, <2>4, <2>5
<1>6. tokens' = tokens /\ (r \notin Stored => r \notin tokens)
  <2>1. tokens' = tokens
    BY DEF Inserts, Updates, Wrote
  <2>2. r \notin Stored => history[r] = <<>>
    BY DEF HistoryFollowsRow
  <2>3. QED
    BY <2>1, <2>2 DEF TokenOnlyIfEverApproved
<1>7. \A i \in ExternalIds :
        (WithExternalId(i) \cap tokens # {})' <=> (WithExternalId(i) \cap tokens # {})
  BY <1>3, <1>4, <1>5, <1>6
<1>8. QED
  BY <1>1, <1>3, <1>5, <1>7

\* One worker at a time, the registry implements the lifecycle that the handshake
\* document tabulates: every committed write is one of its transitions, and a token
\* is issued only while the robot is approved.
THEOREM SequentialRegistryImplementsLifecycle ==
    ASSUME OneWorker
    PROVE  Spec => DocumentedLifecycle
<1> DEFINE Inv == /\ TypeInv /\ UniqueExternalIds /\ HistoryFollowsRow
                  /\ TokenOnlyIfEverApproved /\ LoadedIsCurrent
<1>1. Init => Lifecycle!Init
  BY DEF Init, Lifecycle!Init, StatusOf, WithExternalId, Stored
<1>2. ASSUME Inv, Inv', [Next]_vars
      PROVE  [Lifecycle!Next]_(Lifecycle!lifecycle)
  <2>1. CASE UNCHANGED <<robots, tokens>>
    BY <2>1 DEF Lifecycle!lifecycle, StatusOf, WithExternalId, Stored
  <2>2. ASSUME NEW r \in RobotIds, NEW row \in Row, Inserts(r, row)
        PROVE  Lifecycle!Appear(row.external_identifier)
               /\ row.external_identifier \in ExternalIds
    <3>1. StatusOf(row.external_identifier) = "unknown"
      BY <2>2 DEF Inserts, StatusOf, WithExternalId
    <3>2. row.status \in RobotStatus
      BY DEF Row
    <3>3. QED
      BY <1>2, <2>2, <3>1, <3>2, WriteChangesOneStatus
         DEF Lifecycle!Appear, Lifecycle!LifecycleStatus, RobotStatus
  <2>3. ASSUME NEW r \in RobotIds, NEW row \in Row, Updates(r, row)
        PROVE  Lifecycle!Decide(row.external_identifier)
               /\ row.external_identifier \in ExternalIds
    <3>1. robots[r].status = "pending_approval"
      BY <1>2, <2>3 DEF Updates, DecisionInFlight, LoadedIsCurrent, TypeInv,
                        WorkersInFlight, InFlight
    <3>2. StatusOf(row.external_identifier) = "pending_approval"
      BY <1>2, <2>3, <3>1, StatusOfStored DEF Updates
    <3>3. row.status \in {"approved", "rejected"}
      BY <2>3 DEF Updates
    <3>4. row.status \in Lifecycle!Transitions["pending_approval"]
      BY <3>3 DEF Lifecycle!Transitions
    <3>5. QED
      BY <1>2, <2>3, <3>2, <3>4, WriteChangesOneStatus
         DEF Lifecycle!Decide, Lifecycle!LifecycleStatus
  <2>4. ASSUME NEW w \in Workers, Verify(w), tokens' # tokens
        PROVE  \E e \in ExternalIds : Lifecycle!GrantToken(e)
    <3> DEFINE r == worker[w].id
               e == robots[r].external_identifier
    <3>1. /\ r \in Stored /\ robots[r].status = "approved"
          /\ tokens' = tokens \union {r} /\ UNCHANGED robots
      BY <1>2, <2>4 DEF Verify, LoadedIsCurrent, TypeInv, WorkersInFlight, InFlight
    <3>2. e \in ExternalIds
      BY <1>2, <3>1 DEF TypeInv, TypeOK, Stored, Row
    <3>3. WithExternalId(e) = {r} /\ StatusOf(e) = "approved"
      BY <1>2, <3>1, StatusOfStored
    <3>4. \A i : WithExternalId(i)' = WithExternalId(i) /\ StatusOf(i)' = StatusOf(i)
      BY <3>1 DEF WithExternalId, Stored, StatusOf
    <3>5. \A i \in ExternalIds : i # e => r \notin WithExternalId(i)
      BY DEF WithExternalId
    <3>6. QED
      BY <3>1, <3>2, <3>3, <3>4, <3>5 DEF Lifecycle!GrantToken
  <2>5. UNCHANGED <<robots, history>> =>
          UNCHANGED tokens \/ \E w \in Workers : Verify(w)
    BY <1>2 DEF Next, Start, Continue, Restart, Register, Create, Approve, Reject, Load,
                Handshake, Insert, Update, Refresh, vars
  <2>6. QED
    BY <1>2, <2>1, <2>2, <2>3, <2>4, <2>5, NextTableStep DEF TableStep, Lifecycle!Next
<1>3. Init => LoadedIsCurrent
  BY DEF Init, LoadedIsCurrent, FreeWorker
<1>4. TypeInv /\ LoadedIsCurrent /\ [Next]_vars => LoadedIsCurrent'
  BY LoadedStaysCurrent
<1>5. Spec => []Inv
  BY <1>3, <1>4, TypeCorrect, IdentifiersAreUnique, HistoryFollows, TokensNeedAnApproval,
     PTL DEF Spec
<1>6. QED
  BY <1>1, <1>2, <1>5, PTL DEF Spec, DocumentedLifecycle, Lifecycle!Spec

--------------------------------------------------------------------------
(* What is left of the lifecycle when requests overlap: any number of       *)
(* workers implement OverlappingLifecycle.  A step of a worker changes what *)
(* it alone has in hand, because no one changes the identifier of a row.    *)

Shown == [e \in ExternalIds |-> StatusOf(e)]
Granted == {e \in ExternalIds : WithExternalId(e) \cap tokens # {}}
Held == [w \in Workers |-> Hand(w)]
Empty == [does |-> "nothing", about |-> None]

LEMMA OverlappingState ==
    /\ Overlapping!overlapping = <<Shown, Granted, Held>>
    /\ Overlapping!Nothing = Empty
  BY DEF Overlapping!overlapping, Overlapping!Nothing, Shown, Granted, Held, Empty

LEMMA HandWhen ==
    ASSUME NEW w \in Workers
    PROVE  /\ worker[w].pc \notin {"update", "verify"} => Hand(w) = Empty
           /\ worker[w].pc = "verify" /\ worker[w].loaded.status # "approved" => Hand(w) = Empty
           /\ worker[w].pc = "update" =>
                 Hand(w) = [does |-> "decide",
                            about |-> robots[worker[w].id].external_identifier]
           /\ worker[w].pc = "verify" /\ worker[w].loaded.status = "approved" =>
                 Hand(w) = [does |-> "grant",
                            about |-> robots[worker[w].id].external_identifier]
  BY DEF Hand, Empty

LEMMA HandKept ==
    ASSUME TypeInv, TableStep, NEW v \in Workers, worker'[v] = worker[v]
    PROVE  Hand(v)' = Hand(v)
<1>1. worker[v].pc \in {"update", "verify"} =>
        robots'[worker[v].id].external_identifier = robots[worker[v].id].external_identifier
  <2>1. worker[v].pc \in {"update", "verify"} =>
          worker[v].id \in Stored /\ worker[v].id \in RobotIds
    BY DEF TypeInv, WorkersInFlight, InFlight, Stored
  <2>2. QED
    BY <2>1, CredentialsStep
<1>2. CASE worker[v].pc = "update"
  BY <1>1, <1>2 DEF Hand
<1>3. CASE worker[v].pc = "verify"
  BY <1>1, <1>3 DEF Hand
<1>4. CASE worker[v].pc \notin {"update", "verify"}
  BY <1>4 DEF Hand
<1>5. QED
  BY <1>2, <1>3, <1>4

LEMMA OthersKeepTheirs ==
    ASSUME TypeInv, NEW w \in Workers, Start(w) \/ Continue(w)
    PROVE  \A v \in Workers \ {w} : worker'[v] = worker[v]
  BY DEF Start, Continue, Register, Create, Approve, Reject, Load, Handshake,
         Insert, Update, Refresh, Verify, Proceed, Reply, TypeInv, TypeOK

LEMMA OneHandChanges ==
    ASSUME TypeInv, TableStep, NEW w \in Workers, Start(w) \/ Continue(w), NEW x, Hand(w)' = x
    PROVE  Held' = [Held EXCEPT ![w] = x]
<1>1. \A v \in Workers \ {w} : Hand(v)' = Hand(v)
  BY OthersKeepTheirs, HandKept
<1>2. QED
  BY <1>1 DEF Held

LEMMA TableRests ==
    UNCHANGED <<robots, tokens>> => Shown' = Shown /\ Granted' = Granted
  BY DEF Shown, Granted, StatusOf, WithExternalId, Stored

\* A step that leaves the table and the tokens alone and its worker with nothing in hand.
LEMMA WorkerLetsGo ==
    ASSUME TypeInv, TableStep, NEW w \in Workers, Start(w) \/ Continue(w),
           UNCHANGED <<robots, tokens>>, Hand(w)' = Empty
    PROVE  Overlapping!Next
<1>1. Held' = [Held EXCEPT ![w] = Empty]
  BY OneHandChanges
<1>2. Held' = [v \in Workers |-> IF v \in {w} THEN Empty ELSE Held[v]]
  BY <1>1 DEF Held
<1>3. Overlapping!LetGo({w})
  BY <1>2, TableRests, OverlappingState
     DEF Overlapping!LetGo, Shown, Granted, Held
<1>4. QED
  BY <1>3 DEF Overlapping!Next

\* Starting on a robot: it was in the state that the decision, or the token, needs.
LEMMA WorkerLooks ==
    ASSUME TypeInv, TableStep, UniqueExternalIds, NEW w \in Workers, Start(w), Free(w),
           UNCHANGED <<robots, tokens>>, NEW r \in Stored, NEW does \in {"decide", "grant"},
           robots[r].status = IF does = "decide" THEN "pending_approval" ELSE "approved",
           Hand(w)' = [does |-> does, about |-> robots[r].external_identifier]
    PROVE  Overlapping!Next
<1> DEFINE e == robots[r].external_identifier
<1>1. e \in ExternalIds
  BY DEF TypeInv, TypeOK, Stored, Row
<1>2. PICK i \in ExternalIds : i = e
  BY <1>1
<1>3. Shown[i] = robots[r].status
  BY <1>2, StatusOfStored DEF Shown
<1>4. Held[w] = Empty
  BY HandWhen DEF Held, Free
<1>5. Held' = [Held EXCEPT ![w] = [does |-> does, about |-> i]]
  BY <1>2, OneHandChanges
<1>6. Overlapping!Look(w, i, does)
  BY <1>3, <1>4, <1>5, TableRests, OverlappingState
     DEF Overlapping!Look, Shown, Granted, Held
<1>7. QED
  BY <1>6 DEF Overlapping!Next

LEMMA StartOverlaps ==
    ASSUME TypeInv, TableStep, UniqueExternalIds, NEW w \in Workers, Start(w)
    PROVE  Overlapping!Next
<1>1. worker \in [Workers -> WorkerStates] /\ Free(w) /\ UNCHANGED <<robots, tokens>>
  BY DEF Start, Register, Create, Approve, Reject, Load, Handshake, TypeInv, TypeOK
<1>2. ASSUME worker'[w].pc \in {"free", "insert"} PROVE Overlapping!Next
  <2>1. Hand(w)' = Empty
    BY <1>2 DEF Hand, Empty
  <2>2. QED
    BY <1>1, <2>1, WorkerLetsGo
<1>3. ASSUME NEW req, NEW answer, Reply(w, req, answer) PROVE Overlapping!Next
  BY <1>1, <1>2, <1>3, AfterReplyIsFree DEF Reply
<1>4. ASSUME NEW req, Proceed(w, "insert", req, None, None) PROVE Overlapping!Next
  BY <1>1, <1>2, <1>4 DEF Proceed
<1>5. ASSUME NEW req \in Approvals \union Rejections, Load(w, req) PROVE Overlapping!Next
  <2>1. CASE /\ req.id \in Stored /\ robots[req.id].status = "pending_approval"
             /\ Proceed(w, "update", req, req.id, robots[req.id])
    <3>1. worker'[w].pc = "update" /\ worker'[w].id = req.id
      BY <1>1, <2>1 DEF Proceed
    <3>2. Hand(w)' = [does |-> "decide", about |-> robots[req.id].external_identifier]
      BY <1>1, <3>1 DEF Hand
    <3>3. QED
      BY <1>1, <2>1, <3>2, WorkerLooks
  <2>2. QED
    BY <1>3, <1>5, <2>1 DEF Load
<1>6. ASSUME NEW req \in Handshakes, Handshake(w, req) PROVE Overlapping!Next
  <2>1. ASSUME NEW r \in WithExternalId(req.external_identifier),
               Proceed(w, "verify", req, r, robots[r])
        PROVE  Overlapping!Next
    <3>1. worker'[w].pc = "verify" /\ worker'[w].id = r /\ worker'[w].loaded = robots[r]
      BY <1>1, <2>1 DEF Proceed
    <3>2. r \in Stored
      BY DEF WithExternalId
    <3>3. CASE robots[r].status = "approved"
      <4>1. Hand(w)' = [does |-> "grant", about |-> robots[r].external_identifier]
        BY <1>1, <3>1, <3>3 DEF Hand
      <4>2. QED
        BY <1>1, <3>2, <3>3, <4>1, WorkerLooks
    <3>4. CASE robots[r].status # "approved"
      <4>1. Hand(w)' = Empty
        BY <3>1, <3>4 DEF Hand, Empty
      <4>2. QED
        BY <1>1, <4>1, WorkerLetsGo
    <3>5. QED
      BY <3>3, <3>4
  <2>2. QED
    BY <1>3, <1>6, <2>1 DEF Handshake
<1>7. QED
  BY <1>3, <1>4, <1>5, <1>6 DEF Start, Register, Create, Approve, Reject

\* What the lemmas below assume of a state: the invariants proved above.
Good == TypeInv /\ UniqueExternalIds /\ HistoryFollowsRow /\ TokenOnlyIfEverApproved

\* Going on leaves nothing in hand, whatever the worker was about to do.
LEMMA ContinueEmptiesTheHand ==
    ASSUME TypeInv, NEW w \in Workers, Continue(w)
    PROVE  Hand(w)' = Empty
<1>1. worker'[w].pc \in {"free", "refresh"}
  BY AfterReplyIsFree DEF Continue, Insert, Update, Refresh, Verify, Proceed, Reply,
                          TypeInv, TypeOK
<1>2. QED
  BY <1>1 DEF Hand, Empty

\* A committed INSERT is an identifier that appears.
LEMMA InsertOverlaps ==
    ASSUME Good, UniqueExternalIds', TableStep, NEW w \in Workers, Insert(w)
    PROVE  Overlapping!Next
<1>1. Continue(w) /\ Hand(w)' = Empty /\ Hand(w) = Empty
  BY ContinueEmptiesTheHand, HandWhen DEF Good, Continue, Insert
<1>2. CASE UNCHANGED <<robots, history, tokens>>
  BY <1>1, <1>2, WorkerLetsGo DEF Good
<1>3. ASSUME NEW r \in RobotIds, NEW row \in Row, Inserts(r, row) PROVE Overlapping!Next
  <2>1. PICK e \in ExternalIds : e = row.external_identifier
    BY DEF Row
  <2>2. Shown' = [Shown EXCEPT ![e] = row.status] /\ Granted' = Granted
    BY <1>3, <2>1, WriteChangesOneStatus DEF Good, Shown, Granted
  <2>3. Shown[e] = "unknown"
    BY <1>3, <2>1 DEF Inserts, Shown, StatusOf, WithExternalId
  <2>4. Held' = [Held EXCEPT ![w] = Empty]
    BY <1>1, OneHandChanges DEF Good
  <2>5. Held' = Held
    BY <1>1, <2>4 DEF Held
  <2>6. row.status \in Overlapping!LifecycleStatus
    BY DEF Row, RobotStatus, Overlapping!LifecycleStatus
  <2>7. Overlapping!Appear(e)
    BY <2>2, <2>3, <2>5, <2>6 DEF Overlapping!Appear, Shown, Granted, Held
  <2>8. QED
    BY <2>7 DEF Overlapping!Next
<1>4. QED
  BY <1>2, <1>3, InsertStep DEF Good

\* A committed UPDATE is the decision its worker had in hand.
LEMMA UpdateOverlaps ==
    ASSUME Good, UniqueExternalIds', TableStep, NEW w \in Workers, Update(w)
    PROVE  Overlapping!Next
<1> DEFINE r == worker[w].id
<1>1. Continue(w) /\ Hand(w)' = Empty /\ worker[w].pc = "update"
  BY ContinueEmptiesTheHand DEF Good, Continue, Update
<1>2. PICK row \in Row : Updates(r, row) /\ r \in RobotIds
  BY UpdateStep DEF Good
<1>3. PICK e \in ExternalIds : e = row.external_identifier
  BY DEF Row
<1>4. Held[w] = [does |-> "decide", about |-> e]
  BY <1>1, <1>2, <1>3, HandWhen DEF Updates, Held
<1>5. Held' = [Held EXCEPT ![w] = Empty]
  BY <1>1, OneHandChanges DEF Good
<1>6. Shown' = [Shown EXCEPT ![e] = row.status] /\ Granted' = Granted
  BY <1>2, <1>3, WriteChangesOneStatus DEF Good, Shown, Granted
<1>7. row.status \in {"approved", "rejected"}
  BY <1>2 DEF Updates
<1>8. Overlapping!Decide(w, e)
  BY <1>4, <1>5, <1>6, <1>7, OverlappingState
     DEF Overlapping!Decide, Shown, Granted, Held
<1>9. QED
  BY <1>8 DEF Overlapping!Next

\* A token goes out only from a hand that holds it.
LEMMA VerifyOverlaps ==
    ASSUME Good, TableStep, NEW w \in Workers, Verify(w)
    PROVE  Overlapping!Next
<1> DEFINE r == worker[w].id
<1>1. Continue(w) /\ Hand(w)' = Empty /\ worker[w].pc = "verify" /\ UNCHANGED robots
  BY ContinueEmptiesTheHand DEF Good, Continue, Verify
<1>2. CASE UNCHANGED tokens
  BY <1>1, <1>2, WorkerLetsGo DEF Good
<1>3. CASE worker[w].loaded.status = "approved" /\ tokens' = tokens \union {r}
  <2>1. r \in Stored
    BY <1>1 DEF Good, TypeInv, WorkersInFlight, InFlight
  <2>2. PICK e \in ExternalIds : e = robots[r].external_identifier
    BY <2>1 DEF Good, TypeInv, TypeOK, Stored, Row
  <2>3. WithExternalId(e) = {r}
    BY <2>1, <2>2, StatusOfStored DEF Good
  <2>4. /\ Shown' = Shown
        /\ \A i \in ExternalIds : WithExternalId(i)' = WithExternalId(i)
    BY <1>1 DEF Shown, StatusOf, WithExternalId, Stored
  <2>5. \A i \in ExternalIds : i # e => r \notin WithExternalId(i)
    BY <2>2 DEF WithExternalId
  <2>6. Granted' = Granted \union {e}
    BY <1>3, <2>3, <2>4, <2>5 DEF Granted
  <2>7. Held[w] = [does |-> "grant", about |-> e]
    BY <1>1, <1>3, <2>2, HandWhen DEF Held
  <2>8. Held' = [Held EXCEPT ![w] = Empty]
    BY <1>1, OneHandChanges DEF Good
  <2>9. Overlapping!GrantToken(w, e)
    BY <2>4, <2>6, <2>7, <2>8, OverlappingState
       DEF Overlapping!GrantToken, Shown, Granted, Held
  <2>10. QED
    BY <2>9 DEF Overlapping!Next
<1>4. QED
  BY <1>2, <1>3 DEF Verify

\* Whatever the number of workers and however their requests overlap, the registry
\* implements the overlapping lifecycle: a robot is decided only by who saw it pending,
\* and gets a token only from who saw it approved.
THEOREM RegistryImplementsOverlappingLifecycle == Spec => LifecycleUnderRaces
<1>1. Init => Overlapping!Init
  BY DEF Init, Overlapping!Init, Overlapping!Nothing, StatusOf, WithExternalId, Stored,
         Hand, FreeWorker
<1>2. ASSUME Good, Good', [Next]_vars
      PROVE  [Overlapping!Next]_(Overlapping!overlapping)
  <2>1. TableStep
    BY <1>2, NextTableStep DEF Good
  <2>2. CASE UNCHANGED vars
    BY <2>2 DEF vars, Overlapping!overlapping, StatusOf, WithExternalId, Stored, Hand
  <2>3. CASE Restart
    <3>1. \A w \in Workers : Hand(w)' = Empty
      BY <2>3 DEF Restart, Hand, FreeWorker, Empty
    <3>2. Held' = [w \in Workers |-> IF w \in Workers THEN Empty ELSE Held[w]]
      BY <3>1 DEF Held
    <3>3. Overlapping!LetGo(Workers)
      BY <2>3, <3>2, TableRests, OverlappingState
         DEF Restart, Overlapping!LetGo, Shown, Granted, Held
    <3>4. QED
      BY <3>3 DEF Overlapping!Next
  <2>4. ASSUME NEW w \in Workers, Start(w) PROVE Overlapping!Next
    BY <1>2, <2>1, <2>4, StartOverlaps DEF Good
  <2>5. ASSUME NEW w \in Workers, Refresh(w) PROVE Overlapping!Next
    <3>1. Continue(w) /\ UNCHANGED <<robots, tokens>>
      BY <2>5 DEF Continue, Refresh
    <3>2. QED
      BY <1>2, <2>1, <3>1, ContinueEmptiesTheHand, WorkerLetsGo DEF Good
  <2>6. ASSUME NEW w \in Workers, Continue(w) PROVE Overlapping!Next
    BY <1>2, <2>1, <2>5, <2>6, InsertOverlaps, UpdateOverlaps, VerifyOverlaps
       DEF Continue, Good
  <2>7. QED
    BY <1>2, <2>2, <2>3, <2>4, <2>6 DEF Next
<1>3. Spec => []Good
  BY TypeCorrect, IdentifiersAreUnique, HistoryFollows, TokensNeedAnApproval, PTL DEF Good
<1>4. QED
  BY <1>1, <1>2, <1>3, PTL DEF Spec, LifecycleUnderRaces, Overlapping!Spec
=============================================================================
