-------------------------- MODULE CommandGateway ---------------------------
(***************************************************************************)
(* How an operator's line becomes a message on the command topic:          *)
(* backend/ (login, the two routes of BackendAPI), control/ (registry,     *)
(* authorization, sessions, gateway) and the session and audit tables of   *)
(* core/database.py.                                                       *)
(*                                                                         *)
(* Each client is a process of its own (an operator terminal, a scenario)  *)
(* with its own gateway; they share the database and the bus.  A step is   *)
(* one database transaction or one publication with the local computation  *)
(* around it.  A client may stop at any of them: by a kill, or because the *)
(* database raises, which no caller catches.                               *)
(***************************************************************************)
EXTENDS Integers, Sequences, FiniteSets

CONSTANTS
    Clients,        \* client processes
    Users,          \* rows of the users table
    RoleOf,         \* the role column, a function on Users
    Lines,          \* command lines that can be typed, [cmd, arg]
    Attached,       \* clients whose gateway has an MQTT client to publish with
    SecurityMode,   \* ICSC_SECURITY_MODE of each client's environment
    UserTTL,        \* lifetime of a login session, in clock ticks
    TempTTL,        \* lifetime of a delegated session, in clock ticks
    MaxTime,        \* bound of the model on the clock
    MaxCalls,       \* bound of the model on the number of calls
    MaxLogins,      \* bound of the model: no login once there are so many sessions
    None            \* no value

Roles == {"OPERATOR", "ENGINEER", "SUPERVISOR", "SECURITY_ANALYST", "GUEST"}
Vocabulary == {"pump", "valve", "setpoint", "estop", "reset", "maintenance"}

\* What a line's argument can be: a number that is 0, another number in
\* range, a word of maintenance, or anything the command does not take.
Arguments == {"zero", "some", "on", "off", "bad"}

\* The EventTypes this code logs
Events == {"LOGIN", "AUTH_FAILURE", "AUTHORIZATION_FAILURE", "BACKEND_ACCESS",
           "COMMAND_ACCEPTED", "COMMAND_REJECTED", "ATTACK_BLOCKED"}

ASSUME GatewayAssumption ==
    /\ RoleOf \in [Users -> Roles]
    /\ Lines \subseteq [cmd : Vocabulary \cup {"unknown"}, arg : Arguments]
    /\ Attached \subseteq Clients
    /\ SecurityMode \in [Clients -> {"ADVISORY", "ACTIVE"}]
    /\ UserTTL \in Nat /\ TempTTL \in Nat
    /\ MaxTime \in Nat /\ MaxCalls \in Nat /\ MaxLogins \in Nat
    /\ None \notin Nat /\ None \notin Users /\ None \notin Events

VARIABLES
    sessions,   \* the sessions table, a sequence of rows; a token is an index
    audit,      \* audit_events, a set of [event, call, user]
    published,  \* the messages published on the command topic
    client,     \* the control state and locals of each client process
    last_row,   \* what the newest telemetry row says: see Rows
    now,        \* time.time(), in ticks
    calls,      \* history: number of calls made so far
    orphans,    \* history: temporary tokens whose client died
    offline     \* history: calls made at a gateway with no MQTT client

history == <<calls, orphans, offline>>
vars == <<sessions, audit, published, client, last_row, now, history>>
database == <<sessions, audit>>

-----------------------------------------------------------------------------
(* core/config.py ROLES and control/authorization.py *)

\* Mutant of Capabilities: OPERATOR may configure.
CapabilitiesWide(role) ==
    IF role \in {"OPERATOR", "ENGINEER", "SUPERVISOR"}
    THEN {"pump_control", "valve_control", "setpoint_control", "estop", "configure"}
    ELSE {}

Capabilities(role) ==
    LET operate == {"view_telemetry", "pump_control", "valve_control",
                    "setpoint_control", "estop"}
    IN  CASE role = "OPERATOR" -> operate
          [] role = "ENGINEER" -> operate \cup {"reset", "configure"}
          [] role = "SUPERVISOR" -> operate \cup {"reset", "configure", "admin"}
          [] role = "SECURITY_ANALYST" ->
                {"view_telemetry", "view_alerts", "view_audit_logs"}
          [] OTHER -> {}

RequiredCapability ==
    [cmd \in Vocabulary |->
        CASE cmd = "pump" -> "pump_control"
          [] cmd = "valve" -> "valve_control"
          [] cmd = "setpoint" -> "setpoint_control"
          [] cmd = "estop" -> "estop"
          [] cmd = "reset" -> "reset"
          [] cmd = "maintenance" -> "configure"]

IsActionAllowed(role, cmd) == RequiredCapability[cmd] \in Capabilities(role)

-----------------------------------------------------------------------------
(* control/command_registry.py and core/models.py *)

ParseOK(line) ==
    \/ line.cmd \in {"pump", "valve", "setpoint"} /\ line.arg \in {"zero", "some"}
    \/ line.cmd = "maintenance" /\ line.arg \in {"on", "off"}
    \/ line.cmd \in {"estop", "reset"}

\* CommandMessage carries a value, a setpoint and a label.  It has no field
\* for the mode of maintenance, so the published dictionary has no "mode".
ValueOf(line) ==
    CASE line.cmd \in {"pump", "valve", "setpoint"} -> line.arg
      [] line.cmd = "estop" -> "zero"
      [] OTHER -> None

\* call, by and line are history: which call, whose terminal, what was typed.
Message(c, session) ==
    [call |-> client[c].call, by |-> client[c].user, line |-> client[c].line,
     token |-> session.token, user |-> session.user, role |-> session.role,
     cmd |-> client[c].line.cmd, value |-> ValueOf(client[c].line), mode |-> None]

\* The operating mode a delivered message asks of the plant
\* (plant/controller.py reads payload.get("mode", "on")).
ModeOnDelivery(m) ==
    IF m.cmd = "maintenance"
    THEN IF m.mode \in {None, "on"} THEN "MAINTENANCE" ELSE "RUNNING"
    ELSE IF m.cmd = "reset" THEN "RUNNING"
    ELSE IF m.cmd = "estop" THEN "EMERGENCY"
    ELSE None

-----------------------------------------------------------------------------
(* core/database.py, sessions *)

\* A row of sessions; temp is history, it marks a delegated session.
Session(user, role, ttl, temp) ==
    [user |-> user, role |-> role, expires |-> now + ttl, active |-> TRUE,
     temp |-> temp]

IsLive(t) == sessions[t].active
Expired(t) == now > sessions[t].expires

\* validate_session: a live session past its end is closed by the attempt.
ValidSession(t) == IsLive(t) /\ ~ Expired(t)
Close(t) == sessions' = [sessions EXCEPT ![t].active = FALSE]
\* Mutant of CloseIfExpired: an expired session is prolonged by its use.
CloseIfExpiredRenewing(t) ==
    IF IsLive(t) /\ Expired(t)
    THEN sessions' = [sessions EXCEPT ![t].expires = now + UserTTL]
    ELSE UNCHANGED sessions

CloseIfExpired(t) ==
    IF IsLive(t) /\ Expired(t) THEN Close(t) ELSE UNCHANGED sessions

\* Mutant of FreshToken: the caller is told the token of another row.
FreshTokenOff == Len(sessions) + 2

\* create_session: the token is random, so it is never one used before
FreshToken == Len(sessions) + 1
Create(user, role, ttl, temp) ==
    sessions' = Append(sessions, Session(user, role, ttl, temp))

\* log_audit_event
Log(event, call, user) ==
    audit' = audit \cup {[event |-> event, call |-> call, user |-> user]}

-----------------------------------------------------------------------------
(* The telemetry row and the interlock *)

\* What the newest row of telemetry_logs says: there is none; it is unsafe for
\* pump power (level or pressure at its limit, or the outlet shut above
\* RULE_A_HEIGHT); or it is safe.
Rows == {"none", "safe", "unsafe"}

\* Mutant of Blocked: the test of the mode is inverted.
BlockedInAdvisory(c, line, row) ==
    /\ SecurityMode[c] # "ACTIVE"
    /\ line.cmd = "pump" /\ line.arg = "some"
    /\ row = "unsafe"

\* evaluate_command_pre_actuation.  Without a row the gateway's own detector
\* answers, whose state is still that of its construction: safe.
Blocked(c, line, row) ==
    /\ SecurityMode[c] = "ACTIVE"
    /\ line.cmd = "pump" /\ line.arg = "some"
    /\ row = "unsafe"

-----------------------------------------------------------------------------
Stopped == [pc |-> "out", user |-> None, token |-> None, line |-> None,
            call |-> 0, temp |-> None, session |-> None, event |-> None,
            moved |-> FALSE]

Init ==
    /\ sessions = <<>>
    /\ audit = {}
    /\ published = {}
    /\ client = [c \in Clients |-> Stopped]
    /\ last_row = "none"
    /\ now = 0
    /\ calls = 0
    /\ orphans = {}
    /\ offline = {}

At(c, pc) == client[c].pc = pc
GoTo(c, pc) == client' = [client EXCEPT ![c].pc = pc]

\* A terminal between two lines keeps its login and nothing else.
Waiting(c) == [Stopped EXCEPT !.pc = "idle", !.user = client[c].user,
                              !.token = client[c].token]

-----------------------------------------------------------------------------
(* backend/auth.py: login, then the terminal's loop *)

\* Wrong name or password: the refusal is logged and the terminal exits.
LoginFails(c) ==
    /\ At(c, "out") /\ Len(sessions) < MaxLogins
    /\ Log("AUTH_FAILURE", 0, None)
    /\ UNCHANGED <<sessions, published, client, last_row, now, history>>

Login(c, u) ==
    /\ At(c, "out") /\ Len(sessions) < MaxLogins
    /\ Create(u, RoleOf[u], UserTTL, FALSE)
    /\ client' = [client EXCEPT ![c].pc = "login", ![c].user = u,
                                ![c].token = FreshToken]
    /\ UNCHANGED <<audit, published, last_row, now, history>>

AuditLogin(c) ==
    /\ At(c, "login")
    /\ Log("LOGIN", 0, client[c].user)
    /\ GoTo(c, "idle")
    /\ UNCHANGED <<sessions, published, last_row, now, history>>

\* quit, exit and logout leave the loop; the session is not invalidated
Logout(c) ==
    /\ At(c, "idle")
    /\ client' = [client EXCEPT ![c] = Stopped]
    /\ UNCHANGED <<database, published, last_row, now, history>>

\* A line is submitted to one of BackendAPI's routes: to the gateway, or to
\* the endpoint that delegates to it (exploit_submit_command).
Submit(c, line, pc) ==
    /\ At(c, "idle") /\ calls < MaxCalls
    /\ calls' = calls + 1
    /\ offline' = IF c \in Attached THEN offline ELSE offline \cup {calls'}
    /\ client' = [client EXCEPT ![c].pc = pc, ![c].line = line, ![c].call = calls']
    /\ UNCHANGED <<database, published, last_row, now, orphans>>

SubmitCommand(c, line) == Submit(c, line, "validate")
SubmitDelegated(c, line) == Submit(c, line, "delegate")

-----------------------------------------------------------------------------
(* backend/vulnerability.py: exploit_submit_command *)

\* Mutant of ValidateCaller: the access is not logged.
ValidateCallerUntraced(c) ==
    LET t == client[c].token IN
    /\ At(c, "delegate")
    /\ CloseIfExpired(t)
    /\ client' = [client EXCEPT ![c] =
                    IF ValidSession(t) THEN [@ EXCEPT !.pc = "elevate"] ELSE Waiting(c)]
    /\ UNCHANGED <<audit, published, last_row, now, history>>

\* The caller's own session is validated; a refusal is not audited.
ValidateCaller(c) ==
    LET t == client[c].token IN
    /\ At(c, "delegate")
    /\ CloseIfExpired(t)
    /\ client' = [client EXCEPT ![c] =
                    IF ValidSession(t) THEN [@ EXCEPT !.pc = "trace"] ELSE Waiting(c)]
    /\ UNCHANGED <<audit, published, last_row, now, history>>

AuditAccess(c) ==
    /\ At(c, "trace")
    /\ Log("BACKEND_ACCESS", client[c].call, sessions[client[c].token].user)
    /\ GoTo(c, "elevate")
    /\ UNCHANGED <<sessions, published, last_row, now, history>>

\* A temporary OPERATOR session in the caller's name
CreateTemp(c) ==
    /\ At(c, "elevate")
    /\ Create(sessions[client[c].token].user, "OPERATOR", TempTTL, TRUE)
    /\ client' = [client EXCEPT ![c].pc = "validate", ![c].temp = FreshToken]
    /\ UNCHANGED <<audit, published, last_row, now, history>>

\* Mutant of InvalidateTemp: the row is left as it is.
InvalidateTempForgotten(c) ==
    /\ At(c, "cleanup")
    /\ client' = [client EXCEPT ![c] = Waiting(c)]
    /\ UNCHANGED <<database, published, last_row, now, history>>

InvalidateTemp(c) ==
    /\ At(c, "cleanup")
    /\ Close(client[c].temp)
    /\ client' = [client EXCEPT ![c] = Waiting(c)]
    /\ UNCHANGED <<audit, published, last_row, now, history>>

-----------------------------------------------------------------------------
(* control/command_gateway.py: process_raw_command *)

TokenUsed(c) == IF client[c].temp = None THEN client[c].token ELSE client[c].temp

\* Mutant of Refusal: the role is not checked.
RefusalWithoutRBAC(t, line) ==
    IF ~ ValidSession(t) THEN "AUTH_FAILURE"
    ELSE IF ~ ParseOK(line) THEN "COMMAND_REJECTED"
    ELSE None

\* What steps 1 to 3 decide: the event to be logged, or None to go on.
Refusal(t, line) ==
    IF ~ ValidSession(t) THEN "AUTH_FAILURE"
    ELSE IF ~ ParseOK(line) THEN "COMMAND_REJECTED"
    ELSE IF ~ IsActionAllowed(sessions[t].role, line.cmd)
         THEN "AUTHORIZATION_FAILURE"
    ELSE None

\* The session row as it was read: what the rest of the call works with
Snapshot(t) ==
    IF ValidSession(t)
    THEN [token |-> t, user |-> sessions[t].user, role |-> sessions[t].role]
    ELSE None

Validate(c) ==
    LET t == TokenUsed(c)
        event == Refusal(t, client[c].line)
    IN  /\ At(c, "validate")
        /\ CloseIfExpired(t)
        /\ client' = [client EXCEPT ![c].pc = IF event = None THEN "inspect" ELSE "refuse",
                                    ![c].event = event,
                                    ![c].session = Snapshot(t)]
        /\ UNCHANGED <<audit, published, last_row, now, history>>

\* Mutant of Return: the endpoint does not come to its cleanup.
ReturnToTerminal(c) == client' = [client EXCEPT ![c] = Waiting(c)]

\* The call returns: to the terminal, or to the endpoint that delegated it.
Return(c) ==
    client' = [client EXCEPT ![c] =
                 IF @.temp = None THEN Waiting(c) ELSE [@ EXCEPT !.pc = "cleanup"]]

AuditRefusal(c) ==
    LET s == client[c].session IN
    /\ At(c, "refuse")
    /\ Log(client[c].event, client[c].call, IF s = None THEN None ELSE s.user)
    /\ Return(c)
    /\ UNCHANGED <<sessions, published, last_row, now, history>>

\* The newest telemetry row is read and the command judged by it.
Inspect(c) ==
    /\ At(c, "inspect")
    /\ client' = [client EXCEPT
                    ![c].pc = IF Blocked(c, client[c].line, last_row)
                              THEN "block" ELSE "publish",
                    ![c].moved = FALSE]
    /\ UNCHANGED <<database, published, last_row, now, history>>

\* Mutant of AuditBlocked: the block is recorded and the command goes on.
AuditBlockedOnly(c) ==
    /\ At(c, "block")
    /\ Log("ATTACK_BLOCKED", client[c].call, client[c].session.user)
    /\ GoTo(c, "publish")
    /\ UNCHANGED <<sessions, published, last_row, now, history>>

\* A block is recorded; the alerts published after it are not modelled here.
AuditBlocked(c) ==
    /\ At(c, "block")
    /\ Log("ATTACK_BLOCKED", client[c].call, client[c].session.user)
    /\ Return(c)
    /\ UNCHANGED <<sessions, published, last_row, now, history>>

\* Mutant of Publish: the test for a client to publish with is inverted.
PublishInverted(c) ==
    /\ At(c, "publish")
    /\ published' = IF c \in Attached THEN published
                    ELSE published \cup {Message(c, client[c].session)}
    /\ GoTo(c, "accept")
    /\ UNCHANGED <<database, last_row, now, history>>

\* Without an MQTT client nothing is sent, and the call goes on as if it were.
Publish(c) ==
    /\ At(c, "publish")
    /\ published' = IF c \in Attached
                    THEN published \cup {Message(c, client[c].session)}
                    ELSE published
    /\ GoTo(c, "accept")
    /\ UNCHANGED <<database, last_row, now, history>>

AuditAccepted(c) ==
    /\ At(c, "accept")
    /\ Log("COMMAND_ACCEPTED", client[c].call, client[c].session.user)
    /\ Return(c)
    /\ UNCHANGED <<sessions, published, last_row, now, history>>

-----------------------------------------------------------------------------
(* The surroundings *)

\* The process is killed, or the database raised and nothing caught it.
Crash(c) ==
    /\ ~ At(c, "out")
    /\ client' = [client EXCEPT ![c] = Stopped]
    /\ orphans' = orphans \cup ({client[c].temp} \ {None})
    /\ UNCHANGED <<database, published, last_row, now, calls, offline>>

\* The plant controller logs a new telemetry row.
PlantLogs(row) ==
    /\ row \in Rows \ {"none"} /\ row # last_row
    /\ last_row' = row
    /\ client' = [c \in Clients |-> [client[c] EXCEPT !.moved = At(c, "publish")]]
    /\ UNCHANGED <<database, published, now, history>>

Tick ==
    /\ now < MaxTime
    /\ now' = now + 1
    /\ UNCHANGED <<database, published, client, last_row, history>>

\* What a client does by itself once a line has been submitted
Step(c) ==
    \/ AuditLogin(c)
    \/ ValidateCaller(c) \/ AuditAccess(c) \/ CreateTemp(c)
    \/ Validate(c) \/ AuditRefusal(c) \/ Inspect(c) \/ AuditBlocked(c)
    \/ Publish(c) \/ AuditAccepted(c) \/ InvalidateTemp(c)

Operator(c) ==
    \/ LoginFails(c) \/ Logout(c)
    \/ \E u \in Users : Login(c, u)
    \/ \E line \in Lines : SubmitCommand(c, line) \/ SubmitDelegated(c, line)

Next ==
    \/ \E c \in Clients : Step(c) \/ Operator(c) \/ Crash(c)
    \/ \E row \in Rows : PlantLogs(row)
    \/ Tick

\* A client that has begun a call goes on with it; nobody has to log in or
\* type a line, and the clock and the plant may stand still.
Fairness == \A c \in Clients : WF_vars(Step(c))

Spec == Init /\ [][Next]_vars /\ Fairness

-----------------------------------------------------------------------------
(* Properties *)

Messages ==
    [call : Nat, by : Users, line : Lines, token : Nat, user : Users,
     role : Roles, cmd : Vocabulary, value : {"zero", "some", None}, mode : {None}]

SessionRows ==
    [user : Users, role : Roles, expires : Nat, active : BOOLEAN, temp : BOOLEAN]

ClientStates ==
    [pc : {"out", "login", "idle", "delegate", "trace", "elevate", "validate",
           "refuse", "inspect", "block", "publish", "accept", "cleanup"},
     user : Users \cup {None}, token : Nat \cup {None},
     line : Lines \cup {None}, call : Nat, temp : Nat \cup {None},
     session : [token : Nat, user : Users, role : Roles] \cup {None},
     event : Events \cup {None}, moved : BOOLEAN]

\* Every variable has the values its code can give it.
TypeOK ==
    /\ sessions \in Seq(SessionRows)
    /\ audit \subseteq [event : Events, call : 0..calls, user : Users \cup {None}]
    /\ published \subseteq Messages
    /\ client \in [Clients -> ClientStates]
    /\ \A c \in Clients : client[c].token # None => client[c].token <= Len(sessions)
    /\ \A c \in Clients : client[c].temp # None => client[c].temp <= Len(sessions)
    /\ last_row \in Rows
    /\ now \in 0..MaxTime /\ calls \in 0..MaxCalls
    /\ orphans \subseteq 1..Len(sessions) /\ offline \subseteq 1..calls

\* A message reaches the plant only with the capability its command needs,
\* held by the session it names, and it names the person whose terminal sent
\* it, on either route and whatever happened to the sessions since.
PublishedAuthorised ==
    \A m \in published :
        /\ IsActionAllowed(m.role, m.cmd)
        /\ m.role = sessions[m.token].role
        /\ m.user = sessions[m.token].user /\ m.user = m.by

\* The delegating route lends OPERATOR capabilities only: reset and
\* maintenance reach the plant only for a person whose own role has them.
PrivilegedOnlyByOwner ==
    \A m \in published :
        m.cmd \in {"reset", "maintenance"} => IsActionAllowed(RoleOf[m.by], m.cmd)

\* A person whose own role does not allow the command has left a
\* BACKEND_ACCESS record before the message, even if the client died since.
DelegationTraced ==
    \A m \in published :
        IsActionAllowed(RoleOf[m.by], m.cmd)
        \/ [event |-> "BACKEND_ACCESS", call |-> m.call, user |-> m.by] \in audit

Accepted(call) == \E a \in audit : a.event = "COMMAND_ACCEPTED" /\ a.call = call
Refusals == {"AUTH_FAILURE", "COMMAND_REJECTED", "AUTHORIZATION_FAILURE",
             "ATTACK_BLOCKED"}
Refused(call) == \E a \in audit : a.call = call /\ a.event \in Refusals
OnBus(call) == \E m \in published : m.call = call

\* The audit trail and the bus tell one story, but for calls made where there
\* is nothing to publish with: what is recorded as accepted was published or
\* could not be, what is recorded as refused was not published, and no call
\* is recorded as both.
AuditTellsTheTruth ==
    \A n \in 1..calls : /\ Accepted(n) => OnBus(n) \/ n \in offline
                        /\ Refused(n) \/ n \in offline => ~ OnBus(n)
                        /\ ~ (Accepted(n) /\ Refused(n))

\* A temporary session is live only while its client works on the one call it
\* was created for, or if that client died before the cleanup; and it carries
\* one message at most.
TempSessionConfined ==
    \A t \in 1..Len(sessions) : sessions[t].temp =>
        /\ IsLive(t) => t \in orphans \/ \E c \in Clients : client[c].temp = t
        /\ Cardinality({m \in published : m.token = t}) <= 1

\* A closed session never becomes valid again, and no row is ever lost or
\* handed to another person or role.
SessionsOnlyEnd ==
    [][ \A t \in 1..Len(sessions) :
          sessions'[t] = sessions[t] \/ sessions'[t] = [sessions[t] EXCEPT !.active = FALSE]
      ]_vars

\* ACTIVE mode: pump power is about to be published against an unsafe newest
\* row only if that row arrived after the command was inspected.
InterlockMissesOnlyLateRows ==
    \A c \in Clients :
        /\ At(c, "publish") /\ SecurityMode[c] = "ACTIVE"
        /\ client[c].line.cmd = "pump" /\ client[c].line.arg = "some"
        /\ last_row = "unsafe"
        => client[c].moved

\* What of the tables and the bus plays the part of ReferenceMonitor's state
OwnRights == {p \in Users \X Vocabulary : IsActionAllowed(RoleOf[p[1]], p[2])}
LentCommands == {cmd \in Vocabulary : IsActionAllowed("OPERATOR", cmd)}
TracesSeen ==
    {[call |-> a.call, by |-> a.user] : a \in {e \in audit : e.event = "BACKEND_ACCESS"}}
OrdersSeen == {[call |-> m.call, by |-> m.by, cmd |-> m.cmd] : m \in published}
IsVerdict(e) == e.call # 0 /\ e.event \in Refusals \cup {"COMMAND_ACCEPTED"}
VerdictsSeen ==
    {[call |-> a.call,
      verdict |-> IF a.event = "COMMAND_ACCEPTED" THEN "accepted" ELSE "refused"] :
        a \in {e \in audit : IsVerdict(e)}}

Monitor == INSTANCE ReferenceMonitor WITH
    Persons <- Users, Commands <- Vocabulary, Rights <- OwnRights,
    Lendable <- LentCommands, opened <- calls, traces <- TracesSeen,
    orders <- OrdersSeen, verdicts <- VerdictsSeen, offline <- offline

\* What the plant and an auditor can see of the command path, the messages
\* and the audit table, is a behaviour of ReferenceMonitor: one order and one
\* verdict for each call at most, in the right order, each order entitled.
ImplementsMonitor == Monitor!Spec

\* Unless its client dies, a delegated session comes to an end.
TempLive(t) == t \in DOMAIN sessions /\ sessions[t].temp /\ sessions[t].active
TempSessionEnds ==
    \A t \in 1..(MaxLogins + MaxCalls) :
        TempLive(t) ~> (~ TempLive(t) \/ t \in orphans)

-----------------------------------------------------------------------------
(* What the repository says of the program and the code does not do *)

\* "Exit MAINTENANCE mode back to RUNNING", of the line "maintenance off"
\* (scenarios/legitimate_maintenance.py).
MaintenanceOffLeavesMaintenance ==
    \A m \in published :
        m.line.cmd = "maintenance" /\ m.line.arg = "off"
        => ModeOnDelivery(m) = "RUNNING"
=============================================================================
