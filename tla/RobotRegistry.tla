---------------------------- MODULE RobotRegistry ----------------------------
(***************************************************************************)
(* The robot registry of the API: POST /m2m/robot/register and /handshake, *)
(* POST /admin/robot/create, /approve and /reject, over the robots table,  *)
(* its constraints and the trigger that fills robot_status_history.        *)
(*                                                                         *)
(* The endpoints are plain `def`, so FastAPI runs each request in a thread *)
(* of its pool: a Worker.  A request reads through its own session, decides *)
(* on the object it loaded, and commits in a later transaction (READ       *)
(* COMMITTED, no lock), so requests of several workers interleave between  *)
(* the read and the commit.                                                *)
(***************************************************************************)
EXTENDS Naturals, Sequences

CONSTANTS ExternalIds,    \* identifiers the controllers generate
          RobotIds,       \* primary keys gen_random_uuid() may draw
          Passwords,      \* passwords; a hash is its password
          Names,          \* names an administrator types (a description is
                          \* handled as the name is, and left out)
          InputStatus,    \* what an administrator types as a status: any string
          Workers,        \* threads that serve requests
          None            \* SQL NULL, and "nothing" in a worker

RobotStatus == {"pending_approval", "approved", "rejected", "disabled"}

Row == [external_identifier : ExternalIds, psw : Passwords,
        name : Names \union {None}, status : RobotStatus]

ASSUME NoneAssumption == /\ None \notin Row /\ None \notin RobotIds
                         /\ None \notin Names /\ None \notin RobotStatus

VARIABLES robots,         \* table robots: id -> row, or None
          history,        \* table robot_status_history: id -> statuses, in order
          tokens,         \* robots a token was issued to
          worker          \* the request each thread serves

vars == <<robots, history, tokens, worker>>

--------------------------------------------------------------------------
(* What a request carries and what a worker remembers of it. *)

Registrations == [op : {"register"}, external_identifier : ExternalIds, psw : Passwords]
Creations == [op : {"create"}, external_identifier : ExternalIds, psw : Passwords,
              name : Names, status : InputStatus]
Approvals == [op : {"approve"}, id : RobotIds, name : Names]
Rejections == [op : {"reject"}, id : RobotIds]
Handshakes == [op : {"handshake"}, external_identifier : ExternalIds, psw : Passwords]

Requests == Registrations \union Creations \union Approvals \union Rejections
            \union Handshakes

WorkerStates == [pc : {"free", "insert", "update", "refresh", "verify"},
                 req : Requests \union {None}, id : RobotIds \union {None},
                 loaded : Row \union {None},
                 answer : RobotStatus \union {None, "error", "token"}]

FreeWorker == [pc |-> "free", req |-> None, id |-> None, loaded |-> None,
               answer |-> None]

\* The request stops at `pc`, holding the row it loaded (None if none).
Proceed(w, pc, req, id, loaded) ==
    worker' = [worker EXCEPT ![w] = [pc |-> pc, req |-> req, id |-> id,
                                     loaded |-> loaded, answer |-> None]]

\* The response leaves and the thread is free.  What it answered is gone, but the last
\* answer to a registration is kept for AnsweredRegistrationIsStored.
AfterReply(req, answer) ==
    IF req.op = "register" THEN [FreeWorker EXCEPT !.req = req, !.answer = answer]
    ELSE FreeWorker

Reply(w, req, answer) == worker' = [worker EXCEPT ![w] = AfterReply(req, answer)]

TypeOK ==
    /\ robots \in [RobotIds -> Row \union {None}]
    /\ history \in [RobotIds -> Seq(RobotStatus)]
    /\ tokens \in SUBSET RobotIds
    /\ worker \in [Workers -> WorkerStates]

Init ==
    /\ robots = [r \in RobotIds |-> None]
    /\ history = [r \in RobotIds |-> <<>>]
    /\ tokens = {}
    /\ worker = [w \in Workers |-> FreeWorker]

--------------------------------------------------------------------------
(* The database. *)

Stored == {r \in RobotIds : robots[r] # None}

WithExternalId(e) == {r \in Stored : robots[r].external_identifier = e}

\* Variants with one of the two constraints missing.
NoUniqueKey(row) == row.status \in RobotStatus
NoStatusCheck(row) == WithExternalId(row.external_identifier) = {}

\* robots_external_identifier_key and robots_status_check.
Accepted(row) == row.status \in RobotStatus /\ WithExternalId(row.external_identifier) = {}

\* A variant that records approvals only.
LogApprovals(r, row) ==
    history' = IF row.status = "approved"
               THEN [history EXCEPT ![r] = Append(@, row.status)]
               ELSE history

\* log_robot_status_change_trigger, AFTER INSERT OR UPDATE, same transaction.
LogStatus(r, row) == history' = [history EXCEPT ![r] = Append(@, row.status)]

WriteRow(r, row) == robots' = [robots EXCEPT ![r] = row] /\ LogStatus(r, row)

\* The unit of work flushes only the attributes whose value differs from the one
\* loaded: the other columns keep what is in the table by then.
Flush(stored, loaded, assigned) ==
    [stored EXCEPT
        !.name = IF assigned.name = loaded.name THEN stored.name ELSE assigned.name,
        !.status = IF assigned.status = loaded.status THEN stored.status
                   ELSE assigned.status]
--------------------------------------------------------------------------
(* The objects the services build from a request. *)

\* A variant that still registers robots with the status the migration removed.
NewRobotInit(req) ==
    [external_identifier |-> req.external_identifier, psw |-> req.psw,
     name |-> None, status |-> "Init"]

NewRobot(req) ==
    IF req.op = "create"
    THEN [external_identifier |-> req.external_identifier, psw |-> req.psw,
          name |-> req.name, status |-> req.status]
    ELSE [external_identifier |-> req.external_identifier, psw |-> req.psw,
          name |-> None, status |-> "pending_approval"]

Decided(req, loaded) ==
    IF req.op = "approve"
    THEN [loaded EXCEPT !.name = req.name, !.status = "approved"]
    ELSE [loaded EXCEPT !.status = "rejected"]

--------------------------------------------------------------------------
(* The handlers.  Each starts on a free worker. *)

Free(w) == worker[w].pc = "free"

\* A variant whose re-registration takes the password of the newcomer.
RegisterOverwrites(w, req) ==
    /\ Free(w)
    /\ \/ /\ WithExternalId(req.external_identifier) = {}
          /\ Proceed(w, "insert", req, None, None)
          /\ UNCHANGED <<robots, history, tokens>>
       \/ \E r \in WithExternalId(req.external_identifier) :
             /\ WriteRow(r, [robots[r] EXCEPT !.psw = req.psw])
             /\ Reply(w, req, robots[r].status)
             /\ UNCHANGED tokens

\* register_robot: an existing robot is answered as it is, a new one is inserted.
Register(w, req) ==
    /\ Free(w)
    /\ \/ /\ WithExternalId(req.external_identifier) = {}
          /\ Proceed(w, "insert", req, None, None)
       \/ \E r \in WithExternalId(req.external_identifier) :
             Reply(w, req, robots[r].status)
    /\ UNCHANGED <<robots, history, tokens>>

\* create_robot: hashes the password and inserts, asking nothing first.
Create(w, req) ==
    /\ Free(w)
    /\ Proceed(w, "insert", req, None, None)
    /\ UNCHANGED <<robots, history, tokens>>

\* RobotRepository.save of a new object: INSERT and commit, or IntegrityError.
Insert(w) ==
    LET req == worker[w].req
        row == NewRobot(req)
    IN /\ worker[w].pc = "insert"
       /\ \/ /\ Accepted(row)
             /\ \E r \in RobotIds \ Stored :
                   /\ WriteRow(r, row)
                   /\ Proceed(w, "refresh", req, r, None)
          \/ /\ ~ Accepted(row)
             /\ Reply(w, req, "error")
             /\ UNCHANGED <<robots, history>>
       /\ UNCHANGED tokens

\* A variant that does not ask for a pending robot.
LoadAny(w, req) ==
    /\ Free(w)
    /\ \/ /\ req.id \in Stored
          /\ Proceed(w, "update", req, req.id, robots[req.id])
       \/ /\ req.id \notin Stored
          /\ Reply(w, req, "error")
    /\ UNCHANGED <<robots, history, tokens>>

\* approve_robot and reject_robot up to the assignments: load the robot, and
\* answer an error unless it exists and was pending when it was read.
Load(w, req) ==
    /\ Free(w)
    /\ \/ /\ req.id \in Stored
          /\ robots[req.id].status = "pending_approval"
          /\ Proceed(w, "update", req, req.id, robots[req.id])
       \/ /\ req.id \in Stored => robots[req.id].status # "pending_approval"
          /\ Reply(w, req, "error")
    /\ UNCHANGED <<robots, history, tokens>>

Approve(w, req) == req.op = "approve" /\ Load(w, req)
Reject(w, req) == req.op = "reject" /\ Load(w, req)

\* RobotRepository.save of a loaded object: UPDATE ... WHERE id, and commit.
Update(w) ==
    LET me == worker[w]
    IN /\ me.pc = "update"
       /\ WriteRow(me.id, Flush(robots[me.id], me.loaded, Decided(me.req, me.loaded)))
       /\ Proceed(w, "refresh", me.req, me.id, None)
       /\ UNCHANGED tokens

\* save ends in a SELECT of its own: the answer is the row as it is by then.
Refresh(w) ==
    /\ worker[w].pc = "refresh"
    /\ Reply(w, worker[w].req, robots[worker[w].id].status)
    /\ UNCHANGED <<robots, history, tokens>>

\* create_access_token_by_basic_credentials, first query.
Handshake(w, req) ==
    /\ Free(w)
    /\ \/ /\ WithExternalId(req.external_identifier) = {}
          /\ Reply(w, req, "error")
       \/ \E r \in WithExternalId(req.external_identifier) :
             Proceed(w, "verify", req, r, robots[r])
    /\ UNCHANGED <<robots, history, tokens>>

\* A variant that forgets the status.
VerifyPasswordOnly(w) ==
    LET me == worker[w]
    IN /\ me.pc = "verify"
       /\ \/ /\ me.req.psw = me.loaded.psw
             /\ tokens' = tokens \union {me.id}
             /\ Reply(w, me.req, "token")
          \/ /\ me.req.psw # me.loaded.psw
             /\ Reply(w, me.req, "error")
             /\ UNCHANGED tokens
       /\ UNCHANGED <<robots, history>>

\* ... and the rest of it: the password and the status of the loaded row, and the token.
Verify(w) ==
    LET me == worker[w]
        granted == me.req.psw = me.loaded.psw /\ me.loaded.status = "approved"
    IN /\ me.pc = "verify"
       /\ \/ /\ granted
             /\ tokens' = tokens \union {me.id}
             /\ Reply(w, me.req, "token")
          \/ /\ ~ granted
             /\ Reply(w, me.req, "error")
             /\ UNCHANGED tokens
       /\ UNCHANGED <<robots, history>>

\* The container stops and starts again: open transactions roll back.
Restart ==
    /\ worker' = [w \in Workers |-> FreeWorker]
    /\ UNCHANGED <<robots, history, tokens>>

Start(w) == \/ \E req \in Registrations : Register(w, req)
            \/ \E req \in Creations : Create(w, req)
            \/ \E req \in Approvals : Approve(w, req)
            \/ \E req \in Rejections : Reject(w, req)
            \/ \E req \in Handshakes : Handshake(w, req)

Continue(w) == Insert(w) \/ Update(w) \/ Refresh(w) \/ Verify(w)

Next == Restart \/ \E w \in Workers : Start(w) \/ Continue(w)

Spec == Init /\ [][Next]_vars

--------------------------------------------------------------------------
(* Properties. *)

\* However registrations and creations interleave between their look-up and
\* their INSERT, an identifier has at most one robot (re-registration is
\* idempotent: register_robot checks first, and the constraint settles races).
UniqueExternalIds ==
    \A r, s \in Stored :
        robots[r].external_identifier = robots[s].external_identifier => r = s

\* The history of a robot starts with its row and ends in the row's status, in
\* every state another transaction can see: the trigger runs in the transaction.
HistoryFollowsRow ==
    \A r \in RobotIds :
        IF r \in Stored
        THEN Len(history[r]) > 0 /\ history[r][Len(history[r])] = robots[r].status
        ELSE history[r] = <<>>

\* Once a registration was answered, even with the error of losing the race to
\* insert, its identifier is in the table: the controller need not register again.
AnsweredRegistrationIsStored ==
    \A w \in Workers :
        /\ Free(w)
        /\ worker[w].req \in Registrations
        /\ worker[w].answer # None
        => WithExternalId(worker[w].req.external_identifier) # {}

\* Nothing but the first entry of a history is ever pending or disabled: neither a
\* re-registration nor a late write takes a decision back.
NothingReturnsToPending ==
    \A r \in RobotIds :
        \A i \in 2 .. Len(history[r]) : history[r][i] \in {"approved", "rejected"}

\* A robot holds a token only if some committed decision approved it, although
\* the handshake decides on a row it loaded before checking the password.
TokenOnlyIfEverApproved ==
    \A r \in tokens : \E i \in 1 .. Len(history[r]) : history[r][i] = "approved"

\* Someone decided on the row of r as it was and has not committed yet.
DecisionInFlight(r) == \E w \in Workers : worker[w].pc = "update" /\ worker[w].id = r

Settled(r) == /\ r \in Stored
              /\ robots[r].status # "pending_approval"
              /\ ~ DecisionInFlight(r)

\* A decided robot can still be overturned, but only by decisions already in flight
\* when the first one committed; once those are through it never changes again.
SettledIsFinal ==
    [][\A r \in RobotIds :
         Settled(r) => Settled(r)' /\ robots'[r].status = robots[r].status]_vars

\* A stored robot is never removed, and no request, a registration with another
\* password included, changes the credentials its controller signs in with.
CredentialsNeverChange ==
    [][\A r \in RobotIds :
         r \in Stored =>
            /\ robots'[r] # None
            /\ robots'[r].external_identifier = robots[r].external_identifier
            /\ robots'[r].psw = robots[r].psw]_vars

--------------------------------------------------------------------------
(* The documented life of a robot, seen through the table. *)

StatusOf(e) == LET own == WithExternalId(e)
               IN IF own = {} THEN "unknown" ELSE robots[CHOOSE r \in own : TRUE].status

Lifecycle == INSTANCE RobotLifecycle WITH
    status <- [e \in ExternalIds |-> StatusOf(e)],
    tokens <- {e \in ExternalIds : WithExternalId(e) \cap tokens # {}}

\* Every committed step is a transition of the table in Documents/handshake.md, and
\* tokens go to approved robots only.
DocumentedLifecycle == Lifecycle!Spec

\* What a worker is about to do to which identifier, seen from outside.
Hand(w) ==
    CASE worker[w].pc = "update" ->
            [does |-> "decide", about |-> robots[worker[w].id].external_identifier]
      [] worker[w].pc = "verify" /\ worker[w].loaded.status = "approved" ->
            [does |-> "grant", about |-> robots[worker[w].id].external_identifier]
      [] OTHER -> [does |-> "nothing", about |-> None]

Overlapping == INSTANCE OverlappingLifecycle WITH
    status <- [e \in ExternalIds |-> StatusOf(e)],
    tokens <- {e \in ExternalIds : WithExternalId(e) \cap tokens # {}},
    hand <- [w \in Workers |-> Hand(w)]

\* However requests overlap, no more than this is lost of the documented life: a robot is
\* decided only by who saw it pending, and gets a token only from who saw it approved.
LifecycleUnderRaces == Overlapping!Spec
=============================================================================
