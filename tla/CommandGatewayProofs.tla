------------------------ MODULE CommandGatewayProofs ------------------------
(***************************************************************************)
(* Safety of CommandGateway for any number of clients, people and calls,   *)
(* proved from GatewayAssumption, and the proof that it implements         *)
(* ReferenceMonitor.                                                       *)
(*                                                                         *)
(* A call is decided in one step and acted upon in a later one, while      *)
(* other clients change the same tables.  The invariant therefore says, of *)
(* each client, what its local variables still guarantee at the point its  *)
(* control has reached (Knows), and, of the tables, what their rows tell   *)
(* of each other.  It survives the steps of others because rows only grow  *)
(* in number and only lose their active flag, and because a call number    *)
(* belongs to one client.                                                  *)
(***************************************************************************)
EXTENDS CommandGateway, FiniteSetTheorems, TLAPS

USE DEF history

Before == {"delegate", "trace", "elevate", "validate", "refuse", "inspect",
           "block", "publish"}
Approved == {"inspect", "block", "publish", "accept"}
Busy == Before \cup {"accept", "cleanup"}

Traced(n, u) == [event |-> "BACKEND_ACCESS", call |-> n, user |-> u] \in audit

\* The row of a login session has its owner's role, that of a delegated one
\* the role OPERATOR.
SessionInv ==
    \A t \in 1..Len(sessions) :
        sessions[t].role = IF sessions[t].temp THEN "OPERATOR"
                           ELSE RoleOf[sessions[t].user]

LoggedIn(c) ==
    client[c].pc # "out" =>
        /\ client[c].user \in Users
        /\ client[c].token \in 1..Len(sessions)
        /\ sessions[client[c].token].user = client[c].user
        /\ ~ sessions[client[c].token].temp

InCall(c) ==
    IF client[c].pc \in Busy
    THEN /\ client[c].call \in 1..calls /\ client[c].line \in Lines
         /\ client[c].call \in offline <=> c \notin Attached
    ELSE client[c].call = 0 /\ client[c].temp = None

Delegates(c) ==
    /\ client[c].temp # None =>
          /\ client[c].temp \in 1..Len(sessions)
          /\ sessions[client[c].temp].temp
          /\ sessions[client[c].temp].user = client[c].user
          /\ Traced(client[c].call, client[c].user)
    /\ client[c].pc \in {"delegate", "trace", "elevate"} => client[c].temp = None
    /\ client[c].pc = "elevate" => Traced(client[c].call, client[c].user)
    /\ client[c].pc = "cleanup" => client[c].temp # None

\* After its validation a call works with a copy of its session that is still
\* true, and with a command that session's role allows.
Approves(c) ==
    client[c].pc \in Approved =>
        /\ ParseOK(client[c].line)
        /\ TokenUsed(c) \in 1..Len(sessions)
        /\ client[c].session = [token |-> TokenUsed(c), user |-> client[c].user,
                                role |-> sessions[TokenUsed(c)].role]
        /\ IsActionAllowed(sessions[TokenUsed(c)].role, client[c].line.cmd)

Refuses(c) ==
    client[c].pc = "refuse" => client[c].event \in Refusals

\* What bus and audit table say of the call in progress.
Untold(c) ==
    /\ client[c].pc \in Before =>
          ~ OnBus(client[c].call) /\ ~ Accepted(client[c].call)
          /\ ~ Refused(client[c].call)
    /\ client[c].pc = "accept" =>
          /\ OnBus(client[c].call) \/ client[c].call \in offline
          /\ ~ Accepted(client[c].call) /\ ~ Refused(client[c].call)

Knows(c) ==
    /\ LoggedIn(c) /\ InCall(c) /\ Delegates(c) /\ Approves(c) /\ Refuses(c)
    /\ Untold(c)

ClientInv == \A c \in Clients : Knows(c)

\* A call, and a delegated session, belong to one client.
UniqueInv ==
    \A c, d \in Clients : c # d =>
        /\ client[c].call = client[d].call => client[c].call = 0
        /\ client[c].temp = client[d].temp => client[c].temp = None

MessageInv ==
    \A m \in published :
        /\ m.call \in 1..calls /\ m.token \in 1..Len(sessions)
        /\ m.user = m.by /\ m.user = sessions[m.token].user
        /\ m.role = sessions[m.token].role /\ IsActionAllowed(m.role, m.cmd)
        /\ sessions[m.token].temp => Traced(m.call, m.by)

Inv ==
    /\ TypeOK /\ SessionInv /\ ClientInv /\ UniqueInv /\ MessageInv
    /\ AuditTellsTheTruth

-----------------------------------------------------------------------------
(* Lemmas about steps *)

\* Rows are appended or deactivated, records and messages are added, and call
\* numbers only rise.
Grows ==
    /\ Len(sessions') \in Nat /\ Len(sessions) <= Len(sessions')
    /\ \A t \in 1..Len(sessions) :
          /\ sessions'[t].user = sessions[t].user
          /\ sessions'[t].role = sessions[t].role
          /\ sessions'[t].temp = sessions[t].temp
    /\ audit \subseteq audit' /\ published \subseteq published'
    /\ calls' \in Nat /\ calls <= calls'
    /\ \A n \in 1..calls : n \in offline' <=> n \in offline

\* What a step may do to the sessions table.
OnlyEnds ==
    \A t \in 1..Len(sessions) :
        \/ sessions'[t] = sessions[t]
        \/ sessions'[t] = [sessions[t] EXCEPT !.active = FALSE]

\* The client d has done nothing but, perhaps, see a row arrive.
Same(d) ==
    /\ client'[d].pc = client[d].pc /\ client'[d].user = client[d].user
    /\ client'[d].token = client[d].token /\ client'[d].line = client[d].line
    /\ client'[d].call = client[d].call /\ client'[d].temp = client[d].temp
    /\ client'[d].session = client[d].session /\ client'[d].event = client[d].event

\* Nothing new is said of the call n.
Silent(n) ==
    /\ \A m \in published' : m \in published \/ m.call # n
    /\ \A a \in audit' : a \in audit \/ a.call # n

\* Closing a session changes one flag of one row.
LEMMA CloseFrame ==
  ASSUME sessions \in Seq(SessionRows), NEW t \in 1..Len(sessions), Close(t)
  PROVE  /\ sessions' \in Seq(SessionRows) /\ Len(sessions') = Len(sessions)
         /\ \A s \in 1..Len(sessions) :
               sessions'[s] = IF s = t THEN [sessions[s] EXCEPT !.active = FALSE]
                              ELSE sessions[s]
<1> DEFINE row == [sessions[t] EXCEPT !.active = FALSE]
<1>1. row \in SessionRows
  <2>1. sessions[t] \in SessionRows
    OBVIOUS
  <2> QED
    BY <2>1 DEF SessionRows
<1>2. sessions' = [sessions EXCEPT ![t] = row]
  BY DEF Close
<1> HIDE DEF row
<1>3. /\ sessions' \in Seq(SessionRows) /\ Len(sessions') = Len(sessions)
      /\ \A s \in 1..Len(sessions) :
            sessions'[s] = IF s = t THEN row ELSE sessions[s]
  BY <1>1, <1>2
<1> QED
  BY <1>3 DEF row

\* Creating one appends a row that was not there.
LEMMA CreateFrame ==
  ASSUME sessions \in Seq(SessionRows), now \in Nat, NEW u \in Users,
         NEW r \in Roles, NEW ttl \in Nat, NEW temp \in BOOLEAN,
         Create(u, r, ttl, temp)
  PROVE  /\ sessions' \in Seq(SessionRows) /\ Len(sessions') = Len(sessions) + 1
         /\ \A s \in 1..Len(sessions) : sessions'[s] = sessions[s]
         /\ sessions'[Len(sessions) + 1] = Session(u, r, ttl, temp)
         /\ sessions'[Len(sessions) + 1].user = u
         /\ sessions'[Len(sessions) + 1].temp <=> temp
<1>1. Session(u, r, ttl, temp) \in SessionRows
  BY DEF Session, SessionRows
<1>2. sessions'[Len(sessions) + 1] = Session(u, r, ttl, temp)
  BY <1>1 DEF Create
<1>3. Session(u, r, ttl, temp).user = u /\ Session(u, r, ttl, temp).temp = temp
  BY DEF Session
<1>4. /\ sessions'[Len(sessions) + 1].user = u
      /\ sessions'[Len(sessions) + 1].temp <=> temp
  BY <1>2, <1>3
<1> QED
  BY <1>1, <1>2, <1>4 DEF Create

\* What a client knows is untouched by a step that only adds to the tables
\* and says nothing of its call.
LEMMA KnowsFrame ==
  ASSUME TypeOK, NEW d \in Clients, Knows(d), Grows, Same(d),
         client[d].call # 0 => Silent(client[d].call)
  PROVE  Knows(d)'
<1>1. LoggedIn(d)'
  BY DEF Knows, LoggedIn, Grows, Same, TypeOK
<1>2. InCall(d)'
  BY DEF Knows, InCall, Grows, Same, TypeOK
<1>3. Delegates(d)'
  BY DEF Knows, Delegates, Grows, Same, Traced, TypeOK
<1>4. Approves(d)'
  <2>1. TokenUsed(d)' = TokenUsed(d)
    BY DEF TokenUsed, Same
  <2>2. CASE client[d].pc \in Approved
    <3>1. TokenUsed(d) \in 1..Len(sessions)
      BY <2>2 DEF Knows, Approves
    <3>2. sessions'[TokenUsed(d)].role = sessions[TokenUsed(d)].role
      BY <3>1 DEF Grows
    <3> QED
      BY <2>1, <2>2, <3>1, <3>2 DEF Knows, Approves, Same, Grows, TypeOK
  <2> QED
    BY <2>2 DEF Approves, Same
<1>5. Refuses(d)'
  BY DEF Knows, Refuses, Same
<1>6. Untold(d)'
  <2>1. client[d].pc \in Before \cup {"accept"} =>
           client[d].call # 0 /\ client[d].call \in 1..calls
    BY DEF Knows, InCall, Busy
  <2>2. CASE client[d].call # 0 /\ client[d].call \in 1..calls
    <3>1. /\ OnBus(client[d].call)' <=> OnBus(client[d].call)
          /\ Accepted(client[d].call)' <=> Accepted(client[d].call)
          /\ Refused(client[d].call)' <=> Refused(client[d].call)
      BY <2>2 DEF Same, Silent, Grows, OnBus, Accepted, Refused
    <3>2. client[d].call \in offline' <=> client[d].call \in offline
      BY <2>2 DEF Grows
    <3> QED
      BY <3>1, <3>2 DEF Knows, Untold, Same
  <2> QED
    BY <2>1, <2>2 DEF Untold, Same
<1> QED
  BY <1>1, <1>2, <1>3, <1>4, <1>5, <1>6 DEF Knows

\* Either way, validation leaves a table with the same rows, one perhaps ended.
LEMMA ValidateFrame ==
  ASSUME sessions \in Seq(SessionRows), NEW t \in 1..Len(sessions),
         CloseIfExpired(t) \/ Close(t)
  PROVE  /\ sessions' \in Seq(SessionRows) /\ Len(sessions') = Len(sessions)
         /\ OnlyEnds
         /\ \A s \in 1..Len(sessions) :
               /\ sessions'[s].user = sessions[s].user
               /\ sessions'[s].role = sessions[s].role
               /\ sessions'[s].temp = sessions[s].temp
<1>1. CASE UNCHANGED sessions
  BY <1>1 DEF OnlyEnds
<1>2. CASE Close(t)
  <2>1. \A s \in 1..Len(sessions) : sessions[s] \in SessionRows
    OBVIOUS
  <2> QED
    BY <1>2, <2>1, CloseFrame DEF OnlyEnds, SessionRows
<1> QED
  BY <1>1, <1>2 DEF CloseIfExpired

\* The steps that write to the sessions table, and how.
LEMMA SessionsStep ==
  ASSUME TypeOK, ClientInv, [Next]_vars
  PROVE  /\ sessions' \in Seq(SessionRows)
         /\ Len(sessions') \in Nat /\ Len(sessions) <= Len(sessions')
         /\ OnlyEnds
         /\ \A s \in 1..Len(sessions) :
               /\ sessions'[s].user = sessions[s].user
               /\ sessions'[s].role = sessions[s].role
               /\ sessions'[s].temp = sessions[s].temp
<1> USE DEF TypeOK
<1>1. CASE UNCHANGED sessions
  BY <1>1 DEF OnlyEnds
<1>2. ASSUME NEW t \in 1..Len(sessions), CloseIfExpired(t) \/ Close(t)
      PROVE  /\ sessions' \in Seq(SessionRows) /\ Len(sessions') = Len(sessions)
             /\ OnlyEnds
             /\ \A s \in 1..Len(sessions) :
                   /\ sessions'[s].user = sessions[s].user
                   /\ sessions'[s].role = sessions[s].role
                   /\ sessions'[s].temp = sessions[s].temp
  BY <1>2, ValidateFrame
<1>3. ASSUME NEW u \in Users, NEW r \in Roles, NEW ttl \in Nat,
             NEW temp \in BOOLEAN, Create(u, r, ttl, temp)
      PROVE  /\ sessions' \in Seq(SessionRows)
             /\ Len(sessions') = Len(sessions) + 1
             /\ OnlyEnds
             /\ \A s \in 1..Len(sessions) :
                   /\ sessions'[s].user = sessions[s].user
                   /\ sessions'[s].role = sessions[s].role
                   /\ sessions'[s].temp = sessions[s].temp
  BY <1>3, CreateFrame DEF OnlyEnds
<1>4. ASSUME NEW c \in Clients, ValidateCaller(c) \/ Validate(c) \/ InvalidateTemp(c)
      PROVE \E t \in 1..Len(sessions) : CloseIfExpired(t) \/ Close(t)
  <2>1. CASE ValidateCaller(c)
    BY <2>1 DEF ValidateCaller, At, ClientInv, Knows, LoggedIn
  <2>2. CASE Validate(c)
    BY <2>2 DEF Validate, At, ClientInv, Knows, LoggedIn, Delegates, TokenUsed
  <2>3. CASE InvalidateTemp(c)
    BY <2>3 DEF InvalidateTemp, At, ClientInv, Knows, Delegates
  <2> QED
    BY <1>4, <2>1, <2>2, <2>3
<1>5. ASSUME NEW c \in Clients, CreateTemp(c) \/ \E u \in Users : Login(c, u)
      PROVE \E u \in Users, r \in Roles, ttl \in Nat, temp \in BOOLEAN :
               Create(u, r, ttl, temp)
  <2>1. CASE CreateTemp(c)
    BY <2>1, GatewayAssumption
    DEF CreateTemp, At, ClientInv, Knows, LoggedIn, Roles
  <2>2. CASE \E u \in Users : Login(c, u)
    BY <2>2, GatewayAssumption DEF Login
  <2> QED
    BY <1>5, <2>1, <2>2
<1>6. ASSUME NEW c \in Clients, Step(c) \/ Operator(c) \/ Crash(c),
             ~ (ValidateCaller(c) \/ Validate(c) \/ InvalidateTemp(c)),
             ~ (CreateTemp(c) \/ \E u \in Users : Login(c, u))
      PROVE UNCHANGED sessions
  BY <1>6 DEF Step, Operator, Crash, AuditLogin, AuditAccess, AuditRefusal,
     Inspect, AuditBlocked, Publish, AuditAccepted, LoginFails, Logout,
     SubmitCommand, SubmitDelegated, Submit, database
<1>7. (\E row \in Rows : PlantLogs(row)) \/ Tick \/ UNCHANGED vars
      => UNCHANGED sessions
  BY DEF PlantLogs, Tick, vars, database
<1> QED
  <2>1. CASE \E c \in Clients : ValidateCaller(c) \/ Validate(c) \/ InvalidateTemp(c)
    BY <2>1, <1>2, <1>4
  <2>2. CASE \E c \in Clients : CreateTemp(c) \/ \E u \in Users : Login(c, u)
    <3>1. PICK u \in Users, r \in Roles, ttl \in Nat, temp \in BOOLEAN :
             Create(u, r, ttl, temp)
      BY <2>2, <1>5
    <3> QED
      BY <3>1, <1>3
  <2>3. CASE UNCHANGED sessions
    BY <2>3, <1>1
  <2> QED
    BY <1>6, <1>7, <2>1, <2>2, <2>3 DEF Next

\* Audit records, messages and call numbers are only ever added.
LEMMA GrowsStep == TypeOK /\ ClientInv /\ [Next]_vars => Grows
<1> SUFFICES ASSUME TypeOK, ClientInv, [Next]_vars PROVE Grows
  OBVIOUS
<1>1. /\ audit \subseteq audit' /\ published \subseteq published'
      /\ calls' \in Nat /\ calls <= calls'
      /\ \A n \in 1..calls : n \in offline' <=> n \in offline
  <2> USE GatewayAssumption DEF TypeOK, database
  <2>1. ASSUME NEW c \in Clients, Step(c)
        PROVE audit \subseteq audit' /\ published \subseteq published'
              /\ calls' = calls /\ offline' = offline
    BY <2>1 DEF Step, AuditLogin, ValidateCaller, AuditAccess, CreateTemp,
       Validate, AuditRefusal, Inspect, AuditBlocked, Publish, AuditAccepted,
       InvalidateTemp, Log
  <2>2. ASSUME NEW c \in Clients, Operator(c) \/ Crash(c)
        PROVE audit \subseteq audit' /\ published' = published
              /\ (calls' = calls \/ calls' = calls + 1)
              /\ offline' \in {offline, offline \cup {calls + 1}}
    BY <2>2 DEF Operator, Crash, LoginFails, Logout, Login, SubmitCommand,
       SubmitDelegated, Submit, Log
  <2>3. (\E row \in Rows : PlantLogs(row)) \/ Tick \/ UNCHANGED vars
        => UNCHANGED <<audit, published, calls, offline>>
    BY DEF PlantLogs, Tick, vars
  <2> QED
    BY <2>1, <2>2, <2>3 DEF Next
<1> QED
  BY <1>1, SessionsStep DEF Grows

\* A published message is made of the session copied when it was validated
\* and of a line that parsed.
LEMMA MessageType ==
  ASSUME TypeOK, NEW c \in Clients, Knows(c), client[c].pc \in Approved
  PROVE  Message(c, client[c].session) \in Messages
<1>1. /\ client[c].session \in [token : Nat, user : Users, role : Roles]
      /\ client[c].user \in Users /\ client[c].call \in Nat
      /\ client[c].line \in Lines /\ ParseOK(client[c].line)
  <2>1. client[c] \in ClientStates
    BY DEF TypeOK
  <2>2. client[c].session = [token |-> TokenUsed(c), user |-> client[c].user,
                             role |-> sessions[TokenUsed(c)].role]
    BY DEF Knows, Approves
  <2>3. TokenUsed(c) \in 1..Len(sessions) /\ sessions[TokenUsed(c)] \in SessionRows
    BY DEF Knows, Approves, TypeOK
  <2>4. client[c].user \in Users
    BY DEF Knows, LoggedIn, Approved
  <2>5. client[c].session \in [token : Nat, user : Users, role : Roles]
    BY <2>2, <2>3, <2>4 DEF SessionRows
  <2>6. client[c].line \in Lines /\ client[c].call \in Nat
    BY <2>1 DEF Knows, InCall, Approved, Busy, Before, ClientStates
  <2> QED
    BY <2>4, <2>5, <2>6 DEF Knows, Approves
<1>2. client[c].line.cmd \in Vocabulary
  BY <1>1 DEF ParseOK, Vocabulary
<1>3. ValueOf(client[c].line) \in {"zero", "some", None}
  BY <1>1 DEF ParseOK, ValueOf
<1> QED
  BY <1>1, <1>2, <1>3 DEF Message, Messages

\* Every step keeps every type.
LEMMA TypeStep == TypeOK /\ ClientInv /\ [Next]_vars => TypeOK'
<1> SUFFICES ASSUME TypeOK, ClientInv, [Next]_vars PROVE TypeOK'
  OBVIOUS
<1>0. /\ sessions' \in Seq(SessionRows) /\ Grows
  BY SessionsStep, GrowsStep
<1>1. published' \subseteq Messages
  <2>1. ASSUME NEW c \in Clients, Publish(c) PROVE published' \subseteq Messages
    <3>1. Knows(c) /\ client[c].pc \in Approved
      BY <2>1 DEF ClientInv, Publish, At, Approved
    <3> QED
      BY <2>1, <3>1, MessageType DEF Publish, TypeOK
  <2>2. ASSUME ~ \E c \in Clients : Publish(c) PROVE UNCHANGED published
    BY <2>2 DEF Next, Step, Operator, Crash, AuditLogin, ValidateCaller,
       AuditAccess, CreateTemp, Validate, AuditRefusal, Inspect, AuditBlocked,
       AuditAccepted, InvalidateTemp, LoginFails, Logout, Login, SubmitCommand,
       SubmitDelegated, Submit, PlantLogs, Tick, vars
  <2> QED
    BY <2>1, <2>2 DEF TypeOK
<1> DEFINE AuditType ==
      audit' \subseteq [event : Events, call : 0..calls', user : Users \cup {None}]
<1>2. AuditType
  <2>1. ASSUME NEW e \in Events, NEW n \in 0..calls, NEW u \in Users \cup {None},
               Log(e, n, u)
        PROVE AuditType
    BY <2>1, <1>0 DEF Log, TypeOK, Grows
  <2>2. ASSUME NEW c \in Clients,
               LoginFails(c) \/ AuditLogin(c) \/ AuditAccess(c) \/ AuditRefusal(c)
               \/ AuditBlocked(c) \/ AuditAccepted(c)
        PROVE \E e \in Events, n \in 0..calls, u \in Users \cup {None} : Log(e, n, u)
    <3> USE DEF Events, TypeOK
    <3>1. Knows(c) /\ client[c] \in ClientStates
      BY DEF ClientInv
    <3>2. client[c].pc \in Busy => client[c].call \in 0..calls
      BY <3>1 DEF Knows, InCall
    <3>3. CASE LoginFails(c)
      BY <3>3 DEF LoginFails
    <3>4. CASE AuditLogin(c)
      BY <3>1, <3>4 DEF AuditLogin, At, Knows, LoggedIn
    <3>5. CASE AuditAccess(c)
      BY <3>1, <3>2, <3>5 DEF AuditAccess, At, Knows, LoggedIn, Busy, Before
    <3>6. CASE AuditRefusal(c)
      <4>1. client[c].session = None \/ client[c].session.user \in Users
        BY <3>1 DEF ClientStates
      <4>2. client[c].event \in Events /\ client[c].call \in 0..calls
        BY <3>1, <3>2, <3>6
        DEF AuditRefusal, At, Knows, Refuses, Refusals, Busy, Before
      <4> QED
        BY <3>6, <4>1, <4>2 DEF AuditRefusal
    <3>7. CASE AuditBlocked(c) \/ AuditAccepted(c)
      <4>1. client[c].pc \in Approved /\ client[c].pc \in Busy
        BY <3>7 DEF AuditBlocked, AuditAccepted, At, Approved, Busy, Before
      <4>2. client[c].session.user \in Users
        BY <3>1, <4>1 DEF Knows, Approves, LoggedIn, Approved
      <4> QED
        BY <3>2, <3>7, <4>1, <4>2 DEF AuditBlocked, AuditAccepted
    <3> QED
      BY <2>2, <3>3, <3>4, <3>5, <3>6, <3>7
  <2>3. ASSUME ~ \E c \in Clients :
                  LoginFails(c) \/ AuditLogin(c) \/ AuditAccess(c) \/ AuditRefusal(c)
                  \/ AuditBlocked(c) \/ AuditAccepted(c)
        PROVE UNCHANGED audit
    BY <2>3 DEF Next, Step, Operator, Crash, ValidateCaller, CreateTemp,
       Validate, Inspect, Publish, InvalidateTemp, Logout, Login, SubmitCommand,
       SubmitDelegated, Submit, PlantLogs, Tick, vars, database
  <2> QED
    BY <1>0, <2>1, <2>2, <2>3 DEF TypeOK, Grows
<1> DEFINE Good(r) ==
      /\ r \in ClientStates
      /\ r.token # None => r.token <= Len(sessions')
      /\ r.temp # None => r.temp <= Len(sessions')
<1> DEFINE GoodClients ==
      client' \in [Clients -> ClientStates] /\ \A c \in Clients : Good(client'[c])
<1>3. GoodClients
  <2>1. \A c \in Clients : client[c] \in ClientStates /\ Good(client[c])
    BY <1>0 DEF TypeOK, Grows, ClientStates
  <2>2. ASSUME NEW c \in Clients, NEW r, client' = [client EXCEPT ![c] = r], Good(r)
        PROVE GoodClients
    BY <2>1, <2>2 DEF TypeOK
  <2>3. Good(Stopped) /\ \A c \in Clients : Good(Waiting(c))
    BY <2>1 DEF Stopped, Waiting, ClientStates
  <2>4. ASSUME NEW c \in Clients, Logout(c) \/ Crash(c) \/ InvalidateTemp(c)
        PROVE GoodClients
    BY <2>2, <2>3, <2>4 DEF Logout, Crash, InvalidateTemp
  <2>5. ASSUME NEW c \in Clients, NEW pc, GoTo(c, pc),
               pc \in {"idle", "elevate", "accept", "publish", "block"}
        PROVE GoodClients
    <3>1. Good([client[c] EXCEPT !.pc = pc])
      BY <2>1, <2>5 DEF ClientStates
    <3>2. client' = [client EXCEPT ![c] = [client[c] EXCEPT !.pc = pc]]
      BY <2>5 DEF GoTo
    <3> QED
      BY <2>2, <3>1, <3>2
  <2>6. ASSUME NEW c \in Clients, Return(c) PROVE GoodClients
    <3>1. Good([client[c] EXCEPT !.pc = "cleanup"])
      BY <2>1 DEF ClientStates
    <3>2. client' = [client EXCEPT ![c] = IF client[c].temp = None THEN Waiting(c)
                                          ELSE [client[c] EXCEPT !.pc = "cleanup"]]
      BY <2>6 DEF Return
    <3> QED
      BY <2>2, <2>3, <3>1, <3>2
  <2>7. ASSUME NEW c \in Clients, \E u \in Users : Login(c, u) PROVE GoodClients
    <3>1. PICK u \in Users : Login(c, u)
      BY <2>7
    <3>2. RoleOf[u] \in Roles /\ UserTTL \in Nat /\ now \in Nat
      BY GatewayAssumption DEF TypeOK
    <3>3. Len(sessions') = Len(sessions) + 1
      BY <3>1, <3>2, CreateFrame DEF Login, TypeOK
    <3>4. FreshToken \in Nat /\ FreshToken <= Len(sessions')
      BY <3>3 DEF FreshToken, TypeOK
    <3>5. Good([client[c] EXCEPT !.pc = "login", !.user = u, !.token = FreshToken])
      BY <2>1, <3>4 DEF ClientStates
    <3>6. client' = [client EXCEPT ![c] = [client[c] EXCEPT
                        !.pc = "login", !.user = u, !.token = FreshToken]]
      BY <3>1 DEF Login
    <3> QED
      BY <2>2, <3>5, <3>6
  <2>8. ASSUME NEW c \in Clients, CreateTemp(c) PROVE GoodClients
    <3>1. sessions[client[c].token].user \in Users
      BY <2>8 DEF CreateTemp, ClientInv, Knows, LoggedIn, At
    <3>2. TempTTL \in Nat /\ now \in Nat /\ "OPERATOR" \in Roles
      BY GatewayAssumption DEF TypeOK, Roles
    <3>3. Len(sessions') = Len(sessions) + 1
      BY <2>8, <3>1, <3>2, CreateFrame DEF CreateTemp, TypeOK
    <3>4. FreshToken \in Nat /\ FreshToken <= Len(sessions')
      BY <3>3 DEF FreshToken, TypeOK
    <3>5. Good([client[c] EXCEPT !.pc = "validate", !.temp = FreshToken])
      BY <2>1, <3>4 DEF ClientStates
    <3>6. client' = [client EXCEPT ![c] = [client[c] EXCEPT
                        !.pc = "validate", !.temp = FreshToken]]
      BY <2>8 DEF CreateTemp
    <3> QED
      BY <2>2, <3>5, <3>6
  <2>9. ASSUME NEW c \in Clients, NEW line \in Lines, NEW pc \in {"validate", "delegate"},
               Submit(c, line, pc)
        PROVE GoodClients
    <3>1. Good([client[c] EXCEPT !.pc = pc, !.line = line, !.call = calls'])
      BY <2>1, <1>0 DEF ClientStates, Grows
    <3>2. client' = [client EXCEPT ![c] = [client[c] EXCEPT
                        !.pc = pc, !.line = line, !.call = calls']]
      BY <2>9 DEF Submit
    <3> QED
      BY <2>2, <3>1, <3>2
  <2>10. ASSUME NEW c \in Clients, ValidateCaller(c) PROVE GoodClients
    <3>1. Good([client[c] EXCEPT !.pc = "trace"])
      BY <2>1 DEF ClientStates
    <3> QED
      BY <2>2, <2>3, <2>10, <3>1 DEF ValidateCaller
  <2>11. ASSUME NEW c \in Clients, Validate(c) PROVE GoodClients
    <3> DEFINE event == Refusal(TokenUsed(c), client[c].line)
               pc == IF event = None THEN "inspect" ELSE "refuse"
               copy == Snapshot(TokenUsed(c))
    <3>1. event \in Events \cup {None}
      BY DEF Refusal, Events
    <3>2. TokenUsed(c) \in 1..Len(sessions)
      BY <2>11 DEF Validate, At, ClientInv, Knows, LoggedIn, Delegates, TokenUsed
    <3>3. copy \in [token : Nat, user : Users, role : Roles] \cup {None}
      <4>1. sessions[TokenUsed(c)] \in SessionRows
        BY <3>2 DEF TypeOK
      <4> QED
        BY <3>2, <4>1 DEF Snapshot, SessionRows
    <3>4. client' = [client EXCEPT ![c] = [client[c] EXCEPT
                        !.pc = pc, !.event = event, !.session = copy]]
      BY <2>11 DEF Validate
    <3>5. pc \in {"inspect", "refuse"}
      OBVIOUS
    <3> HIDE DEF event, pc, copy
    <3>6. Good([client[c] EXCEPT !.pc = pc, !.event = event, !.session = copy])
      BY <2>1, <3>1, <3>3, <3>5 DEF ClientStates
    <3> QED
      BY <2>2, <3>4, <3>6
  <2>12. ASSUME NEW c \in Clients, Inspect(c) PROVE GoodClients
    <3> DEFINE pc == IF Blocked(c, client[c].line, last_row) THEN "block" ELSE "publish"
    <3>1. client' = [client EXCEPT ![c] = [client[c] EXCEPT !.pc = pc, !.moved = FALSE]]
      BY <2>12 DEF Inspect
    <3>2. pc \in {"block", "publish"}
      OBVIOUS
    <3> HIDE DEF pc
    <3>3. Good([client[c] EXCEPT !.pc = pc, !.moved = FALSE])
      BY <2>1, <3>2 DEF ClientStates
    <3> QED
      BY <2>2, <3>1, <3>3
  <2>13. ASSUME NEW row \in Rows, PlantLogs(row) PROVE GoodClients
    <3>1. \A c \in Clients : Good([client[c] EXCEPT !.moved = At(c, "publish")])
      BY <2>1 DEF ClientStates, At
    <3> QED
      BY <2>13, <3>1 DEF PlantLogs
  <2>14. CASE UNCHANGED client
    BY <2>1, <2>14 DEF TypeOK
  <2>15. ASSUME NEW c \in Clients, Step(c) PROVE GoodClients
    BY <2>4, <2>5, <2>6, <2>8, <2>10, <2>11, <2>12, <2>15
    DEF Step, AuditLogin, AuditAccess, AuditRefusal, AuditBlocked, Publish,
        AuditAccepted
  <2>16. ASSUME NEW c \in Clients, Operator(c) \/ Crash(c) PROVE GoodClients
    BY <2>4, <2>7, <2>9, <2>14, <2>16
    DEF Operator, LoginFails, SubmitCommand, SubmitDelegated
  <2> QED
    BY <2>13, <2>14, <2>15, <2>16 DEF Next, Tick, vars
<1>4. /\ last_row' \in Rows /\ now' \in 0..MaxTime /\ calls' \in 0..MaxCalls
      /\ orphans' \subseteq 1..Len(sessions') /\ offline' \subseteq 1..calls'
  <2> DEFINE Others(c) == Step(c) \/ LoginFails(c) \/ Logout(c) \/ Crash(c)
                          \/ \E u \in Users : Login(c, u)
  <2>1. ASSUME NEW c \in Clients, Others(c) PROVE UNCHANGED <<last_row, now, calls, offline>>
    BY <2>1 DEF Step, Crash, AuditLogin, ValidateCaller, AuditAccess, CreateTemp,
       Validate, AuditRefusal, Inspect, AuditBlocked, Publish, AuditAccepted,
       InvalidateTemp, LoginFails, Logout, Login
  <2>2. ASSUME NEW c \in Clients, NEW line \in Lines,
               SubmitCommand(c, line) \/ SubmitDelegated(c, line)
        PROVE /\ UNCHANGED <<last_row, now>> /\ calls' \in 0..MaxCalls
              /\ offline' \subseteq 1..calls'
    BY <2>2, GatewayAssumption DEF SubmitCommand, SubmitDelegated, Submit, TypeOK
  <2>a. ASSUME (\E row \in Rows : PlantLogs(row)) \/ Tick \/ UNCHANGED vars
        PROVE last_row' \in Rows /\ now' \in 0..MaxTime /\ UNCHANGED <<calls, offline>>
    BY <2>a, GatewayAssumption DEF PlantLogs, Tick, vars, TypeOK
  <2>b. /\ last_row' \in Rows /\ now' \in 0..MaxTime /\ calls' \in 0..MaxCalls
        /\ offline' \subseteq 1..calls'
    BY <2>1, <2>2, <2>a DEF Next, Operator, TypeOK
  <2>c. 1..Len(sessions) \subseteq 1..Len(sessions')
    BY <1>0 DEF Grows, TypeOK
  <2>3. ASSUME NEW c \in Clients, Crash(c) PROVE orphans' \subseteq 1..Len(sessions')
    <3>1. client[c].temp # None => client[c].temp \in 1..Len(sessions)
      BY DEF ClientInv, Knows, Delegates
    <3>2. orphans' \subseteq orphans \cup ({client[c].temp} \ {None})
      BY <2>3 DEF Crash
    <3> QED
      BY <2>c, <3>1, <3>2 DEF TypeOK
  <2>4. ASSUME ~ \E c \in Clients : Crash(c) PROVE UNCHANGED orphans
    BY <2>4 DEF Next, Step, Operator, AuditLogin,
       ValidateCaller, AuditAccess, CreateTemp, Validate, AuditRefusal, Inspect,
       AuditBlocked, Publish, AuditAccepted, InvalidateTemp, LoginFails, Logout,
       Login, SubmitCommand, SubmitDelegated, Submit, PlantLogs, Tick, vars
  <2> QED
    BY <2>b, <2>c, <2>3, <2>4 DEF TypeOK
<1> QED
  BY <1>0, <1>1, <1>2, <1>3, <1>4 DEF TypeOK

-----------------------------------------------------------------------------
(* What a client knows, after its own steps *)

\* A new login session belongs to its owner, with the owner's role; a
\* delegated one to the caller, with OPERATOR.
LEMMA SessionInvStep ==
  TypeOK /\ ClientInv /\ SessionInv /\ [Next]_vars => SessionInv'
<1> SUFFICES ASSUME TypeOK, ClientInv, SessionInv, [Next]_vars PROVE SessionInv'
  OBVIOUS
<1>1. ASSUME NEW u \in Users, NEW r \in Roles, NEW ttl \in Nat,
             NEW temp \in BOOLEAN, Create(u, r, ttl, temp),
             r = IF temp THEN "OPERATOR" ELSE RoleOf[u]
      PROVE SessionInv'
  <2>1. now \in Nat /\ sessions \in Seq(SessionRows)
    BY GatewayAssumption DEF TypeOK
  <2>2. /\ Len(sessions') = Len(sessions) + 1
        /\ \A s \in 1..Len(sessions) : sessions'[s] = sessions[s]
        /\ sessions'[Len(sessions) + 1] = Session(u, r, ttl, temp)
    BY <1>1, <2>1, CreateFrame
  <2> QED
    BY <1>1, <2>1, <2>2 DEF SessionInv, Session
<1>2. ASSUME NEW c \in Clients, CreateTemp(c) PROVE SessionInv'
  <2>1. sessions[client[c].token].user \in Users
    BY <1>2 DEF CreateTemp, ClientInv, Knows, LoggedIn, At
  <2> QED
    BY <1>1, <1>2, <2>1, GatewayAssumption DEF CreateTemp, Roles
<1>3. ASSUME NEW c \in Clients, NEW u \in Users, Login(c, u) PROVE SessionInv'
  <2>1. RoleOf[u] \in Roles /\ UserTTL \in Nat
    BY GatewayAssumption
  <2> QED
    BY <1>1, <1>3, <2>1 DEF Login
<1>4. ASSUME Len(sessions') = Len(sessions) PROVE SessionInv'
  BY <1>4, SessionsStep DEF SessionInv
<1>5. ASSUME NEW c \in Clients, ValidateCaller(c) \/ Validate(c) \/ InvalidateTemp(c)
      PROVE Len(sessions') = Len(sessions)
  <2>1. PICK t \in 1..Len(sessions) : CloseIfExpired(t) \/ Close(t)
    <3>1. CASE ValidateCaller(c)
      BY <3>1 DEF ValidateCaller, At, ClientInv, Knows, LoggedIn
    <3>2. CASE Validate(c)
      BY <3>2 DEF Validate, At, ClientInv, Knows, LoggedIn, Delegates, TokenUsed
    <3>3. CASE InvalidateTemp(c)
      BY <3>3 DEF InvalidateTemp, At, ClientInv, Knows, Delegates
    <3> QED
      BY <1>5, <3>1, <3>2, <3>3
  <2> QED
    BY <2>1, ValidateFrame DEF TypeOK
<1>6. ASSUME ~ \E c \in Clients :
                \/ ValidateCaller(c) \/ Validate(c) \/ InvalidateTemp(c)
                \/ CreateTemp(c) \/ \E u \in Users : Login(c, u)
      PROVE UNCHANGED sessions
  BY <1>6 DEF Next, Step, Operator, Crash, AuditLogin, AuditAccess,
     AuditRefusal, Inspect, AuditBlocked, Publish, AuditAccepted, LoginFails,
     Logout, SubmitCommand, SubmitDelegated, Submit, PlantLogs, Tick, vars,
     database
<1> QED
  BY <1>2, <1>3, <1>4, <1>5, <1>6

\* A client that has stopped knows nothing.
LEMMA StoppedKnows ==
  ASSUME NEW c \in Clients, client'[c] = Stopped
  PROVE  Knows(c)'
  BY DEF Stopped, Knows, LoggedIn, InCall, Delegates, Approves, Refuses, Untold,
     Approved, Busy, Before

\* A terminal between two lines knows its login.
LEMMA WaitingKnows ==
  ASSUME TypeOK, NEW c \in Clients, Knows(c), Grows, client[c].pc # "out",
         client'[c] = Waiting(c)
  PROVE  Knows(c)'
<1>1. /\ client'[c].pc = "idle" /\ client'[c].user = client[c].user
      /\ client'[c].token = client[c].token
      /\ client'[c].call = 0 /\ client'[c].temp = None
  BY DEF Waiting, Stopped
<1>2. LoggedIn(c)'
  BY <1>1 DEF Knows, LoggedIn, Grows, TypeOK
<1> QED
  BY <1>1, <1>2 DEF Knows, InCall, Delegates, Approves, Refuses, Untold,
     Approved, Busy, Before

\* Within a call a client keeps its login, its line and its call number.
LEMMA Carry ==
  ASSUME TypeOK, NEW c \in Clients, Knows(c), Grows,
         client[c].pc \in Busy, client'[c].pc \in Busy,
         client'[c].user = client[c].user, client'[c].token = client[c].token,
         client'[c].line = client[c].line, client'[c].call = client[c].call
  PROVE  LoggedIn(c)' /\ InCall(c)'
<1>1. LoggedIn(c)'
  BY DEF Knows, LoggedIn, Grows, TypeOK, Busy, Before
<1>2. InCall(c)'
  BY DEF Knows, InCall, Grows, TypeOK
<1> QED
  BY <1>1, <1>2

\* ... and the delegated session made for it.
LEMMA CarryTemp ==
  ASSUME TypeOK, NEW c \in Clients, Knows(c), Grows,
         client'[c].user = client[c].user, client'[c].temp = client[c].temp,
         client'[c].call = client[c].call, client[c].temp # None
  PROVE  /\ client'[c].temp \in 1..Len(sessions')
         /\ sessions'[client'[c].temp].temp
         /\ sessions'[client'[c].temp].user = client'[c].user
         /\ [event |-> "BACKEND_ACCESS", call |-> client'[c].call,
             user |-> client'[c].user] \in audit'
  BY DEF Knows, Delegates, Grows, TypeOK, Traced

\* Every step of a client leaves it with what it needs to know next.
LEMMA ActorStep ==
  ASSUME TypeOK, ClientInv, MessageInv, [Next]_vars, NEW c \in Clients,
         Step(c) \/ Operator(c) \/ Crash(c)
  PROVE  Knows(c)'
<1>1. Grows /\ TypeOK' /\ Knows(c) /\ client[c] \in ClientStates
  BY GrowsStep, TypeStep DEF ClientInv, TypeOK
<1>2. CASE LoginFails(c)
  <2>1. client' = client /\ Same(c) /\ client[c].call = 0
    BY <1>1, <1>2 DEF LoginFails, Same, At, Knows, InCall, Busy, Before
  <2> QED
    BY <1>1, <2>1, KnowsFrame
<1>3. CASE Logout(c) \/ Crash(c)
  BY <1>3, StoppedKnows DEF Logout, Crash, TypeOK
<1>4. ASSUME NEW u \in Users, Login(c, u) PROVE Knows(c)'
  <2>1. /\ client'[c].pc = "login" /\ client'[c].user = u
        /\ client'[c].token = Len(sessions) + 1
        /\ client'[c].temp = client[c].temp /\ client'[c].call = client[c].call
    BY <1>4 DEF Login, FreshToken, TypeOK, ClientStates
  <2>2. RoleOf[u] \in Roles /\ UserTTL \in Nat /\ now \in Nat
    BY GatewayAssumption DEF TypeOK
  <2>3. /\ Len(sessions') = Len(sessions) + 1 /\ Len(sessions) \in Nat
        /\ sessions'[Len(sessions) + 1].user = u
        /\ ~ sessions'[Len(sessions) + 1].temp
    <3>1. Create(u, RoleOf[u], UserTTL, FALSE)
      BY <1>4 DEF Login
    <3>2. sessions \in Seq(SessionRows) /\ Len(sessions) \in Nat
      BY DEF TypeOK
    <3> QED
      BY <2>2, <3>1, <3>2, CreateFrame
  <2>4. LoggedIn(c)'
    BY <2>1, <2>3 DEF LoggedIn
  <2>5. client[c].call = 0 /\ client[c].temp = None
    BY <1>1, <1>4 DEF Login, At, Knows, InCall, Busy, Before
  <2> QED
    BY <2>1, <2>4, <2>5 DEF Knows, InCall, Delegates, Approves, Refuses,
       Untold, Approved, Busy, Before
<1>5. CASE AuditLogin(c)
  <2>1. /\ client[c].pc = "login" /\ client'[c].pc = "idle"
        /\ client'[c].user = client[c].user /\ client'[c].token = client[c].token
        /\ client'[c].temp = client[c].temp /\ client'[c].call = client[c].call
    BY <1>5 DEF AuditLogin, At, GoTo, TypeOK, ClientStates
  <2>2. LoggedIn(c)'
    BY <1>1, <2>1 DEF Knows, LoggedIn, Grows, TypeOK
  <2>3. client[c].call = 0 /\ client[c].temp = None
    BY <1>1, <2>1 DEF Knows, InCall, Busy, Before
  <2> QED
    BY <2>1, <2>2, <2>3 DEF Knows, InCall, Delegates, Approves, Refuses,
       Untold, Approved, Busy, Before
<1>6. ASSUME NEW line \in Lines, SubmitCommand(c, line) \/ SubmitDelegated(c, line)
      PROVE Knows(c)'
  <2>1. PICK pc \in {"validate", "delegate"} : Submit(c, line, pc)
    BY <1>6 DEF SubmitCommand, SubmitDelegated
  <2>2. /\ client[c].pc = "idle" /\ client'[c].pc = pc
        /\ client'[c].user = client[c].user /\ client'[c].token = client[c].token
        /\ client'[c].temp = client[c].temp /\ client'[c].line = line
        /\ client'[c].call = calls + 1 /\ calls' = calls + 1 /\ calls \in Nat
        /\ client'[c].call \in offline' <=> c \notin Attached
    BY <2>1, GatewayAssumption DEF Submit, At, TypeOK, ClientStates
  <2>3. LoggedIn(c)'
    BY <1>1, <2>2 DEF Knows, LoggedIn, Grows, TypeOK
  <2>4. client[c].temp = None
    BY <1>1, <2>2 DEF Knows, InCall, Busy, Before
  <2>5. InCall(c)' /\ Delegates(c)'
    BY <2>2, <2>4 DEF InCall, Delegates, Busy, Before
  <2>6. UNCHANGED <<published, audit>>
    BY <2>1 DEF Submit, database
  <2>7. /\ \A m \in published' : m.call # calls + 1
        /\ \A a \in audit' : a.call # calls + 1
    BY <2>2, <2>6 DEF MessageInv, TypeOK
  <2>8. Untold(c)'
    BY <2>2, <2>7 DEF Untold, OnBus, Accepted, Refused, Before
  <2> QED
    BY <2>2, <2>3, <2>5, <2>8 DEF Knows, Approves, Refuses, Approved
<1>7. CASE ValidateCaller(c)
  <2>1. client[c].pc = "delegate" /\ client[c].pc \in Busy
    BY <1>7 DEF ValidateCaller, At, Busy, Before
  <2>2. CASE client'[c] = Waiting(c)
    BY <1>1, <2>1, <2>2, WaitingKnows
  <2>3. CASE client'[c] = [client[c] EXCEPT !.pc = "trace"]
    <3>1. /\ client'[c].pc = "trace" /\ client'[c].pc \in Busy
          /\ client'[c].user = client[c].user /\ client'[c].token = client[c].token
          /\ client'[c].temp = client[c].temp /\ client'[c].line = client[c].line
          /\ client'[c].call = client[c].call
      BY <1>1, <2>3 DEF ClientStates, Busy, Before
    <3>2. LoggedIn(c)' /\ InCall(c)'
      BY <1>1, <2>1, <3>1, Carry
    <3>3. client[c].temp = None
      BY <1>1, <2>1 DEF Knows, Delegates
    <3>4. Untold(c)'
      BY <1>1, <1>7, <2>1, <3>1
      DEF ValidateCaller, Knows, Untold, OnBus, Accepted, Refused, Before
    <3> QED
      BY <3>1, <3>2, <3>3, <3>4 DEF Knows, Delegates, Approves, Refuses, Approved
  <2> QED
    BY <1>7, <2>2, <2>3 DEF ValidateCaller, TypeOK
<1>8. CASE AuditAccess(c)
  <2>1. /\ client[c].pc = "trace" /\ client'[c].pc = "elevate"
        /\ client[c].pc \in Busy /\ client'[c].pc \in Busy
        /\ client'[c].user = client[c].user /\ client'[c].token = client[c].token
        /\ client'[c].temp = client[c].temp /\ client'[c].line = client[c].line
        /\ client'[c].call = client[c].call
    BY <1>1, <1>8 DEF AuditAccess, At, GoTo, ClientStates, TypeOK, Busy, Before
  <2>2. LoggedIn(c)' /\ InCall(c)'
    BY <1>1, <2>1, Carry
  <2>3. client[c].temp = None /\ sessions[client[c].token].user = client[c].user
    BY <1>1, <2>1 DEF Knows, Delegates, LoggedIn
  <2>4. audit' = audit \cup {[event |-> "BACKEND_ACCESS", call |-> client[c].call,
                             user |-> client[c].user]}
    BY <1>8, <2>3 DEF AuditAccess, Log
  <2>5. Delegates(c)'
    BY <2>1, <2>3, <2>4 DEF Delegates, Traced
  <2>6. Untold(c)'
    BY <1>1, <1>8, <2>1, <2>4
    DEF AuditAccess, Knows, Untold, OnBus, Accepted, Refused, Refusals, Before
  <2> QED
    BY <2>1, <2>2, <2>5, <2>6 DEF Knows, Approves, Refuses, Approved
<1>9. CASE CreateTemp(c)
  <2>1. /\ client[c].pc = "elevate" /\ client'[c].pc = "validate"
        /\ client[c].pc \in Busy /\ client'[c].pc \in Busy
        /\ client'[c].user = client[c].user /\ client'[c].token = client[c].token
        /\ client'[c].temp = Len(sessions) + 1 /\ client'[c].line = client[c].line
        /\ client'[c].call = client[c].call
    BY <1>1, <1>9
    DEF CreateTemp, At, FreshToken, ClientStates, TypeOK, Busy, Before
  <2>2. LoggedIn(c)' /\ InCall(c)'
    BY <1>1, <2>1, Carry
  <2>3. /\ sessions[client[c].token].user = client[c].user /\ client[c].user \in Users
        /\ Traced(client[c].call, client[c].user) /\ audit \subseteq audit'
    BY <1>1, <2>1 DEF Knows, Delegates, LoggedIn, Grows
  <2>4. TempTTL \in Nat /\ now \in Nat /\ "OPERATOR" \in Roles
    BY GatewayAssumption DEF TypeOK, Roles
  <2>5. /\ Len(sessions') = Len(sessions) + 1 /\ Len(sessions) \in Nat
        /\ sessions'[Len(sessions) + 1].user = client[c].user
        /\ sessions'[Len(sessions) + 1].temp
    <3>1. Create(client[c].user, "OPERATOR", TempTTL, TRUE)
      BY <1>9, <2>3 DEF CreateTemp
    <3>2. sessions \in Seq(SessionRows) /\ Len(sessions) \in Nat
      BY DEF TypeOK
    <3> QED
      BY <2>3, <2>4, <3>1, <3>2, CreateFrame
  <2>6. Delegates(c)'
    BY <2>1, <2>3, <2>5 DEF Delegates, Traced
  <2>7. Untold(c)'
    BY <1>1, <1>9, <2>1
    DEF CreateTemp, Knows, Untold, OnBus, Accepted, Refused, Before
  <2> QED
    BY <2>1, <2>2, <2>6, <2>7 DEF Knows, Approves, Refuses, Approved
<1>10. CASE InvalidateTemp(c)
  BY <1>1, <1>10, WaitingKnows DEF InvalidateTemp, At, TypeOK
<1>11. CASE Validate(c)
  <2> DEFINE t == TokenUsed(c)
             event == Refusal(t, client[c].line)
             pc == IF event = None THEN "inspect" ELSE "refuse"
  <2>1. /\ client[c].pc = "validate" /\ client'[c].pc = pc
        /\ client[c].pc \in Busy /\ client'[c].pc \in Busy
        /\ client'[c].user = client[c].user /\ client'[c].token = client[c].token
        /\ client'[c].temp = client[c].temp /\ client'[c].line = client[c].line
        /\ client'[c].call = client[c].call
        /\ client'[c].event = event /\ client'[c].session = Snapshot(t)
    <3>1. client'[c] = [client[c] EXCEPT !.pc = pc, !.event = event,
                                         !.session = Snapshot(t)]
      BY <1>11 DEF Validate, TypeOK
    <3>2. pc \in {"inspect", "refuse"} /\ client[c].pc = "validate"
      BY <1>11 DEF Validate, At
    <3> HIDE DEF pc, event, t
    <3> QED
      BY <1>1, <3>1, <3>2 DEF ClientStates, Busy, Before
  <2>2. LoggedIn(c)' /\ InCall(c)'
    BY <1>1, <2>1, Carry
  <2>3. Delegates(c)'
    BY <1>1, <2>1, CarryTemp DEF Delegates, Traced
  <2>4. t \in 1..Len(sessions) /\ sessions[t].user = client[c].user
    BY <1>1, <2>1 DEF Knows, LoggedIn, Delegates, TokenUsed
  <2>5. event = None => /\ ValidSession(t) /\ ParseOK(client[c].line)
                        /\ IsActionAllowed(sessions[t].role, client[c].line.cmd)
    BY GatewayAssumption DEF Refusal, Events
  <2>6. event # None => event \in Refusals
    BY DEF Refusal, Refusals
  <2>7. TokenUsed(c)' = t /\ t \in 1..Len(sessions')
        /\ sessions'[t].role = sessions[t].role
    BY <1>1, <2>1, <2>4 DEF TokenUsed, Grows, TypeOK
  <2>8. Approves(c)'
    <3>1. CASE event = None
      <4>1. client'[c].session = [token |-> t, user |-> client[c].user,
                                  role |-> sessions[t].role]
        BY <2>1, <2>4, <2>5, <3>1 DEF Snapshot
      <4> HIDE DEF t, event, pc
      <4> QED
        BY <2>1, <2>5, <2>7, <3>1, <4>1 DEF Approves
    <3>2. CASE event # None
      BY <2>1, <3>2 DEF Approves, Approved
    <3> QED
      BY <3>1, <3>2
  <2>9. Refuses(c)'
    <3> HIDE DEF event, t
    <3> QED
      BY <2>1, <2>6 DEF Refuses
  <2>10. Untold(c)'
    <3>1. client'[c].pc \in Before
      BY <2>1 DEF Before
    <3>2. client'[c].pc # "accept"
      BY <2>1
    <3> QED
      BY <1>1, <1>11, <2>1, <3>1, <3>2
      DEF Validate, Knows, Untold, OnBus, Accepted, Refused, Before
  <2> QED
    BY <2>2, <2>3, <2>8, <2>9, <2>10, <2>1 DEF Knows
<1>12. CASE AuditRefusal(c) \/ AuditBlocked(c) \/ AuditAccepted(c)
  <2>1. client[c].pc \in {"refuse", "block", "accept"} /\ Return(c)
    BY <1>12 DEF AuditRefusal, AuditBlocked, AuditAccepted, At
  <2>2. CASE client[c].temp = None
    BY <1>1, <2>1, <2>2, WaitingKnows DEF Return, TypeOK
  <2>3. CASE client[c].temp # None
    <3>1. /\ client[c].pc \in Busy
          /\ client'[c].pc = "cleanup" /\ client'[c].pc \in Busy
          /\ client'[c].user = client[c].user /\ client'[c].token = client[c].token
          /\ client'[c].temp = client[c].temp /\ client'[c].line = client[c].line
          /\ client'[c].call = client[c].call
      BY <1>1, <2>1, <2>3 DEF Return, TypeOK, ClientStates, Busy, Before
    <3>2. LoggedIn(c)' /\ InCall(c)'
      BY <1>1, <3>1, Carry
    <3>3. Delegates(c)'
      BY <1>1, <2>3, <3>1, CarryTemp DEF Delegates, Traced
    <3> QED
      BY <3>1, <3>2, <3>3 DEF Knows, Approves, Refuses, Untold, Approved, Before
  <2> QED
    BY <2>2, <2>3
<1>13. CASE Inspect(c) \/ Publish(c)
  <2>1. /\ client[c].pc \in {"inspect", "publish"}
        /\ client'[c].pc \in {"block", "publish", "accept"}
        /\ client[c].pc \in Busy /\ client'[c].pc \in Busy
        /\ client'[c].user = client[c].user /\ client'[c].token = client[c].token
        /\ client'[c].temp = client[c].temp /\ client'[c].line = client[c].line
        /\ client'[c].call = client[c].call /\ client'[c].session = client[c].session
        /\ UNCHANGED <<sessions, audit>>
    <3>1. CASE Inspect(c)
      <4> DEFINE pc == IF Blocked(c, client[c].line, last_row) THEN "block" ELSE "publish"
      <4>1. client'[c] = [client[c] EXCEPT !.pc = pc, !.moved = FALSE]
        BY <3>1 DEF Inspect, TypeOK
      <4>2. pc \in {"block", "publish"}
        OBVIOUS
      <4>3. client[c].pc = "inspect" /\ UNCHANGED <<sessions, audit>>
        BY <3>1 DEF Inspect, At, database
      <4> HIDE DEF pc
      <4> QED
        BY <1>1, <4>1, <4>2, <4>3 DEF ClientStates, Busy, Before
    <3>2. CASE Publish(c)
      BY <1>1, <3>2 DEF Publish, At, GoTo, TypeOK, ClientStates, Busy, Before,
         database
    <3> QED
      BY <1>13, <3>1, <3>2
  <2>2. LoggedIn(c)' /\ InCall(c)'
    BY <1>1, <2>1, Carry
  <2>3. Delegates(c)'
    BY <1>1, <2>1, CarryTemp DEF Delegates, Traced
  <2>4. Approves(c)'
    <3>1. TokenUsed(c)' = TokenUsed(c)
      BY <2>1 DEF TokenUsed
    <3> QED
      BY <1>1, <2>1, <3>1 DEF Knows, Approves, Approved
  <2>5. ~ Accepted(client[c].call) /\ ~ Refused(client[c].call)
    BY <1>1, <2>1 DEF Knows, Untold, Before
  <2>6. CASE Inspect(c)
    <3>1. client'[c].pc \in {"block", "publish"} /\ UNCHANGED published
      BY <1>1, <2>6 DEF Inspect, TypeOK
    <3> QED
      BY <1>1, <2>1, <2>2, <2>3, <2>4, <3>1 DEF Knows, Refuses, Untold, OnBus,
         Accepted, Refused, Before
  <2>7. CASE Publish(c)
    <3>1. /\ client'[c].pc = "accept" /\ offline' = offline
          /\ Message(c, client[c].session) \in published' \/ c \notin Attached
          /\ Message(c, client[c].session).call = client[c].call
          /\ client[c].call \in offline <=> c \notin Attached
      BY <1>1, <2>1, <2>7
      DEF Publish, GoTo, TypeOK, ClientStates, Message, Knows, InCall
    <3>2. Untold(c)'
      BY <2>1, <2>5, <3>1 DEF Untold, OnBus, Accepted, Refused, Before
    <3> QED
      BY <2>1, <2>2, <2>3, <2>4, <3>1, <3>2 DEF Knows, Refuses
  <2> QED
    BY <1>13, <2>6, <2>7
<1> QED
  BY <1>2, <1>3, <1>4, <1>5, <1>6, <1>7, <1>8, <1>9, <1>10, <1>11, <1>12, <1>13
  DEF Step, Operator

-----------------------------------------------------------------------------
(* What the tables tell of each other, after any step *)

\* A step of c leaves the other clients alone; c's call number and delegated
\* token are kept, dropped, or new.
LEMMA ActorIds ==
  ASSUME TypeOK, NEW c \in Clients, Step(c) \/ Operator(c) \/ Crash(c)
  PROVE  /\ \A d \in Clients : d # c => client'[d] = client[d]
         /\ client'[c].call \in {0, client[c].call, calls + 1}
         /\ client'[c].temp \in {None, client[c].temp, Len(sessions) + 1}
<1>1. ASSUME NEW r, client' = [client EXCEPT ![c] = r],
             r.call \in {0, client[c].call, calls + 1},
             r.temp \in {None, client[c].temp, Len(sessions) + 1}
      PROVE  /\ \A d \in Clients : d # c => client'[d] = client[d]
             /\ client'[c].call \in {0, client[c].call, calls + 1}
             /\ client'[c].temp \in {None, client[c].temp, Len(sessions) + 1}
  BY <1>1 DEF TypeOK
<1>2. client[c] \in ClientStates
  BY DEF TypeOK
<1>3. /\ Stopped.call = 0 /\ Stopped.temp = None
      /\ Waiting(c).call = 0 /\ Waiting(c).temp = None
  BY DEF Stopped, Waiting
<1>4. CASE Logout(c) \/ Crash(c) \/ InvalidateTemp(c)
  BY <1>1, <1>3, <1>4 DEF Logout, Crash, InvalidateTemp
<1>5. CASE \E u \in Users : Login(c, u)
  <2>1. PICK u \in Users : client' = [client EXCEPT ![c] = [client[c] EXCEPT
                              !.pc = "login", !.user = u, !.token = FreshToken]]
    BY <1>5 DEF Login
  <2> QED
    BY <1>1, <1>2, <2>1 DEF ClientStates
<1>6. ASSUME NEW line \in Lines, NEW pc, Submit(c, line, pc)
      PROVE \E r : /\ client' = [client EXCEPT ![c] = r] /\ r.call = calls + 1
                   /\ r.temp = client[c].temp
  <2> DEFINE r == [client[c] EXCEPT !.pc = pc, !.line = line, !.call = calls']
  <2>1. client' = [client EXCEPT ![c] = r] /\ calls' = calls + 1
    BY <1>6 DEF Submit
  <2>2. r.call = calls' /\ r.temp = client[c].temp
    BY <1>2 DEF ClientStates
  <2> QED
    BY <2>1, <2>2
<1>7. CASE CreateTemp(c)
  <2> DEFINE r == [client[c] EXCEPT !.pc = "validate", !.temp = FreshToken]
  <2>1. client' = [client EXCEPT ![c] = r]
    BY <1>7 DEF CreateTemp
  <2>2. r.call = client[c].call /\ r.temp = Len(sessions) + 1
    BY <1>2 DEF ClientStates, FreshToken
  <2> QED
    BY <1>1, <2>1, <2>2
<1>8. ASSUME NEW pc, GoTo(c, pc)
      PROVE \E r : /\ client' = [client EXCEPT ![c] = r] /\ r.call = client[c].call
                   /\ r.temp = client[c].temp
  <2> DEFINE r == [client[c] EXCEPT !.pc = pc]
  <2>1. client' = [client EXCEPT ![c] = r]
    BY <1>8 DEF GoTo
  <2>2. r.call = client[c].call /\ r.temp = client[c].temp
    BY <1>2 DEF ClientStates
  <2> QED
    BY <2>1, <2>2
<1>9. CASE Return(c)
  <2>1. client' = [client EXCEPT ![c] = IF client[c].temp = None THEN Waiting(c)
                                        ELSE [client[c] EXCEPT !.pc = "cleanup"]]
    BY <1>9 DEF Return
  <2> QED
    BY <1>1, <1>2, <1>3, <2>1 DEF ClientStates
<1>10. CASE ValidateCaller(c)
  <2>1. client' = [client EXCEPT ![c] = IF ValidSession(client[c].token)
                                        THEN [client[c] EXCEPT !.pc = "trace"]
                                        ELSE Waiting(c)]
    BY <1>10 DEF ValidateCaller
  <2> QED
    BY <1>1, <1>2, <1>3, <2>1 DEF ClientStates
<1>11. CASE Validate(c)
  <2>1. PICK pc, event, copy :
           client' = [client EXCEPT ![c] = [client[c] EXCEPT
                        !.pc = pc, !.event = event, !.session = copy]]
    BY <1>11 DEF Validate
  <2> QED
    BY <1>1, <1>2, <2>1 DEF ClientStates
<1>12. CASE Inspect(c)
  <2>1. PICK pc : client' = [client EXCEPT ![c] = [client[c] EXCEPT
                                !.pc = pc, !.moved = FALSE]]
    BY <1>12 DEF Inspect
  <2> QED
    BY <1>1, <1>2, <2>1 DEF ClientStates
<1>13. CASE UNCHANGED client
  BY <1>13
<1> QED
  BY <1>1, <1>4, <1>5, <1>6, <1>7, <1>8, <1>9, <1>10, <1>11, <1>12, <1>13
  DEF Step, Operator, LoginFails, SubmitCommand, SubmitDelegated, AuditLogin,
      AuditAccess, AuditRefusal, AuditBlocked, Publish, AuditAccepted

\* A step of c speaks only of c's own call, or of no call.
LEMMA ActorTalks ==
  ASSUME NEW c \in Clients, Step(c) \/ Operator(c) \/ Crash(c)
  PROVE  /\ \A m \in published' : m \in published \/ m.call = client[c].call
         /\ \A a \in audit' : a \in audit \/ a.call \in {0, client[c].call}
<1>1. CASE Publish(c)
  BY <1>1 DEF Publish, Message, database
<1>2. ASSUME NEW e, NEW n, NEW u, Log(e, n, u), n \in {0, client[c].call},
             UNCHANGED published
      PROVE /\ \A m \in published' : m \in published \/ m.call = client[c].call
            /\ \A a \in audit' : a \in audit \/ a.call \in {0, client[c].call}
  BY <1>2 DEF Log
<1>3. CASE LoginFails(c) \/ AuditLogin(c) \/ AuditAccess(c) \/ AuditRefusal(c)
           \/ AuditBlocked(c) \/ AuditAccepted(c)
  BY <1>2, <1>3 DEF LoginFails, AuditLogin, AuditAccess, AuditRefusal,
     AuditBlocked, AuditAccepted
<1>4. CASE Logout(c) \/ Crash(c) \/ (\E u \in Users : Login(c, u)) \/ ValidateCaller(c)
           \/ CreateTemp(c) \/ Validate(c) \/ Inspect(c) \/ InvalidateTemp(c)
           \/ \E line \in Lines : SubmitCommand(c, line) \/ SubmitDelegated(c, line)
  BY <1>4 DEF Logout, Crash, Login, ValidateCaller, CreateTemp, Validate, Inspect,
     InvalidateTemp, SubmitCommand, SubmitDelegated, Submit, database
<1> QED
  BY <1>1, <1>3, <1>4 DEF Step, Operator

\* The clients together keep what each of them knows.
LEMMA ClientStep ==
  TypeOK /\ ClientInv /\ UniqueInv /\ MessageInv /\ [Next]_vars => ClientInv'
<1> SUFFICES ASSUME TypeOK, ClientInv, UniqueInv, MessageInv, [Next]_vars,
                    NEW d \in Clients
             PROVE Knows(d)'
  BY DEF ClientInv
<1>1. Grows /\ Knows(d)
  BY GrowsStep DEF ClientInv
<1>2. ASSUME NEW c \in Clients, Step(c) \/ Operator(c) \/ Crash(c) PROVE Knows(d)'
  <2>1. CASE c = d
    BY <1>2, <2>1, ActorStep
  <2>2. CASE c # d
    <3>1. Same(d)
      BY <1>2, <2>2, ActorIds DEF Same
    <3>2. client[d].call # 0 => Silent(client[d].call)
      BY <1>2, <2>2, ActorTalks DEF UniqueInv, Silent
    <3> QED
      BY <1>1, <3>1, <3>2, KnowsFrame
  <2> QED
    BY <2>1, <2>2
<1>3. CASE (\E row \in Rows : PlantLogs(row)) \/ Tick \/ UNCHANGED vars
  <2>1. UNCHANGED <<published, audit>>
    BY <1>3 DEF PlantLogs, Tick, vars, database
  <2>2. Same(d)
    <3>1. CASE \E row \in Rows : PlantLogs(row)
      BY <3>1 DEF PlantLogs, Same, TypeOK, ClientStates
    <3> QED
      BY <1>3, <3>1 DEF Tick, vars, Same
  <2> QED
    BY <1>1, <2>1, <2>2, KnowsFrame DEF Silent
<1> QED
  BY <1>2, <1>3 DEF Next

\* Call numbers and delegated tokens are new when they are taken.
LEMMA UniqueStep ==
  TypeOK /\ ClientInv /\ UniqueInv /\ [Next]_vars => UniqueInv'
<1> SUFFICES ASSUME TypeOK, ClientInv, UniqueInv, [Next]_vars PROVE UniqueInv'
  OBVIOUS
<1>1. \A d \in Clients :
         /\ client[d].call \in 0..calls /\ calls \in Nat /\ Len(sessions) \in Nat
         /\ client[d].temp # Len(sessions) + 1
  BY GatewayAssumption DEF ClientInv, Knows, InCall, Delegates, TypeOK
<1>2. ASSUME NEW c \in Clients, Step(c) \/ Operator(c) \/ Crash(c) PROVE UniqueInv'
  <2>1. /\ \A d \in Clients : d # c => client'[d] = client[d]
        /\ client'[c].call \in {0, client[c].call, calls + 1}
        /\ client'[c].temp \in {None, client[c].temp, Len(sessions) + 1}
    BY <1>2, ActorIds
  <2>2. ASSUME NEW d \in Clients, d # c
        PROVE /\ client'[c].call = client'[d].call => client'[c].call = 0
              /\ client'[c].temp = client'[d].temp => client'[c].temp = None
    BY <1>1, <2>1, <2>2 DEF UniqueInv
  <2>3. ASSUME NEW d \in Clients, NEW e \in Clients, d # c, e # c, d # e
        PROVE /\ client'[d].call = client'[e].call => client'[d].call = 0
              /\ client'[d].temp = client'[e].temp => client'[d].temp = None
    BY <2>1, <2>3 DEF UniqueInv
  <2> QED
    BY <2>2, <2>3 DEF UniqueInv
<1>3. CASE \E row \in Rows : PlantLogs(row)
  <2>1. \A d \in Clients : client'[d].call = client[d].call
                            /\ client'[d].temp = client[d].temp
    BY <1>3 DEF PlantLogs, TypeOK, ClientStates
  <2> QED
    BY <2>1 DEF UniqueInv
<1>4. CASE Tick \/ UNCHANGED vars
  BY <1>4 DEF Tick, vars, UniqueInv
<1> QED
  BY <1>2, <1>3, <1>4 DEF Next

\* A published message tells the truth about the session it came through.
LEMMA MessageStep ==
  TypeOK /\ ClientInv /\ MessageInv /\ [Next]_vars => MessageInv'
<1> SUFFICES ASSUME TypeOK, ClientInv, MessageInv, [Next]_vars, NEW m \in published'
             PROVE /\ m.call \in 1..calls' /\ m.token \in 1..Len(sessions')
                   /\ m.user = m.by /\ m.user = sessions'[m.token].user
                   /\ m.role = sessions'[m.token].role
                   /\ IsActionAllowed(m.role, m.cmd)
                   /\ sessions'[m.token].temp =>
                         [event |-> "BACKEND_ACCESS", call |-> m.call,
                          user |-> m.by] \in audit'
  BY DEF MessageInv, Traced
<1>1. Grows
  BY GrowsStep
<1>2. CASE m \in published
  BY <1>1, <1>2 DEF MessageInv, Grows, TypeOK, Traced
<1>3. ASSUME NEW c \in Clients, Publish(c), m = Message(c, client[c].session)
      PROVE /\ m.call \in 1..calls /\ m.token \in 1..Len(sessions)
            /\ m.user = m.by /\ m.user = sessions[m.token].user
            /\ m.role = sessions[m.token].role /\ IsActionAllowed(m.role, m.cmd)
            /\ sessions[m.token].temp => Traced(m.call, m.by)
  <2>1. Knows(c) /\ client[c].pc = "publish"
    BY <1>3 DEF ClientInv, Publish, At
  <2>2. /\ TokenUsed(c) \in 1..Len(sessions)
        /\ client[c].session = [token |-> TokenUsed(c), user |-> client[c].user,
                                role |-> sessions[TokenUsed(c)].role]
        /\ IsActionAllowed(sessions[TokenUsed(c)].role, client[c].line.cmd)
    BY <2>1 DEF Knows, Approves, Approved
  <2>3. /\ m.call = client[c].call /\ m.by = client[c].user
        /\ m.token = TokenUsed(c) /\ m.user = client[c].user
        /\ m.role = sessions[TokenUsed(c)].role /\ m.cmd = client[c].line.cmd
    BY <1>3, <2>2 DEF Message
  <2>4. client[c].call \in 1..calls
    BY <2>1 DEF Knows, InCall, Busy, Before
  <2>5. /\ sessions[TokenUsed(c)].user = client[c].user
        /\ sessions[TokenUsed(c)].temp => Traced(client[c].call, client[c].user)
    BY <2>1 DEF Knows, LoggedIn, Delegates, TokenUsed
  <2> QED
    BY <2>2, <2>3, <2>4, <2>5 DEF Traced
<1>4. ASSUME m \notin published
      PROVE \E c \in Clients : Publish(c) /\ m = Message(c, client[c].session)
  <2>1. ASSUME ~ \E c \in Clients : Publish(c) PROVE UNCHANGED published
    BY <2>1 DEF Next, Step, Operator, Crash, AuditLogin, ValidateCaller,
       AuditAccess, CreateTemp, Validate, AuditRefusal, Inspect, AuditBlocked,
       AuditAccepted, InvalidateTemp, LoginFails, Logout, Login, SubmitCommand,
       SubmitDelegated, Submit, PlantLogs, Tick, vars
  <2>2. PICK c \in Clients : Publish(c)
    BY <1>4, <2>1
  <2> QED
    BY <1>4, <2>2 DEF Publish
<1> QED
  BY <1>1, <1>2, <1>3, <1>4 DEF Grows, TypeOK, Traced

\* An outcome is recorded by the client whose call it is, once: an acceptance
\* if the command is on the bus or could not be put there, else a refusal.
LEMMA OutcomeKnown ==
  ASSUME TypeOK, ClientInv, NEW c \in Clients,
         AuditAccepted(c) \/ AuditRefusal(c) \/ AuditBlocked(c)
  PROVE  /\ UNCHANGED <<published, calls, offline>>
         /\ client[c].call \in 1..calls
         /\ ~ Accepted(client[c].call) /\ ~ Refused(client[c].call)
         /\ \E e \in Refusals \cup {"COMMAND_ACCEPTED"}, u \in Users \cup {None} :
               /\ Log(e, client[c].call, u)
               /\ e = "COMMAND_ACCEPTED" =>
                     OnBus(client[c].call) \/ client[c].call \in offline
               /\ e \in Refusals => ~ OnBus(client[c].call)
<1>1. Knows(c) /\ client[c] \in ClientStates
  BY DEF ClientInv, TypeOK
<1>2. CASE AuditAccepted(c)
  <2>1. client[c].pc = "accept"
    BY <1>2 DEF AuditAccepted, At
  <2>2. client[c].session.user \in Users
    BY <1>1, <2>1 DEF Knows, Approves, LoggedIn, Approved
  <2> QED
    BY <1>1, <1>2, <2>1, <2>2
    DEF AuditAccepted, Knows, InCall, Untold, Busy, Refusals
<1>3. CASE AuditBlocked(c)
  <2>1. client[c].pc = "block"
    BY <1>3 DEF AuditBlocked, At
  <2>2. client[c].session.user \in Users
    BY <1>1, <2>1 DEF Knows, Approves, LoggedIn, Approved
  <2> QED
    BY <1>1, <1>3, <2>1, <2>2
    DEF AuditBlocked, Knows, InCall, Untold, Busy, Before, Refusals
<1>4. CASE AuditRefusal(c)
  <2>1. client[c].pc = "refuse"
    BY <1>4 DEF AuditRefusal, At
  <2>2. client[c].session = None \/ client[c].session.user \in Users
    BY <1>1 DEF ClientStates
  <2>3. client[c].event \in Refusals /\ "COMMAND_ACCEPTED" \notin Refusals
    BY <1>1, <2>1 DEF Knows, Refuses, Refusals
  <2>4. client[c].call \in 1..calls /\ ~ OnBus(client[c].call)
        /\ ~ Accepted(client[c].call) /\ ~ Refused(client[c].call)
    BY <1>1, <2>1 DEF Knows, InCall, Untold, Busy, Before
  <2>5. /\ Log(client[c].event, client[c].call,
               IF client[c].session = None THEN None ELSE client[c].session.user)
        /\ UNCHANGED <<published, calls, offline>>
    BY <1>4 DEF AuditRefusal
  <2> QED
    BY <2>2, <2>3, <2>4, <2>5
<1> QED
  BY <1>2, <1>3, <1>4

\* The steps that write to the bus or to the audit table, and what they know
\* of the call at that moment.
LEMMA Speakers ==
  ASSUME TypeOK, ClientInv, [Next]_vars
  PROVE  \/ UNCHANGED published /\ \A a \in audit' : a \in audit \/ ~ IsVerdict(a)
         \/ \E c \in Clients :
               /\ Publish(c) /\ UNCHANGED <<audit, offline>>
               /\ published' = published \cup {Message(c, client[c].session)}
               /\ client[c].call \in 1..calls /\ client[c].call \notin offline
               /\ ~ OnBus(client[c].call)
               /\ ~ Accepted(client[c].call) /\ ~ Refused(client[c].call)
         \/ \E c \in Clients, e \in Refusals \cup {"COMMAND_ACCEPTED"},
              u \in Users \cup {None} :
               /\ Log(e, client[c].call, u) /\ UNCHANGED <<published, offline>>
               /\ client[c].call \in 1..calls
               /\ ~ Accepted(client[c].call) /\ ~ Refused(client[c].call)
               /\ e = "COMMAND_ACCEPTED" =>
                     OnBus(client[c].call) \/ client[c].call \in offline
               /\ e \in Refusals => ~ OnBus(client[c].call)
<1>1. ASSUME NEW c \in Clients, Publish(c)
      PROVE /\ UNCHANGED <<audit, offline>>
            /\ \/ published' = published
               \/ /\ published' = published \cup {Message(c, client[c].session)}
                  /\ client[c].call \notin offline
            /\ client[c].call \in 1..calls
            /\ ~ OnBus(client[c].call)
            /\ ~ Accepted(client[c].call) /\ ~ Refused(client[c].call)
  BY <1>1 DEF Publish, At, ClientInv, Knows, InCall, Untold, Busy, Before, database
<1>3. ASSUME ~ \E c \in Clients : \/ Publish(c) \/ AuditAccepted(c)
                                  \/ AuditRefusal(c) \/ AuditBlocked(c)
      PROVE UNCHANGED published /\ \A a \in audit' : a \in audit \/ ~ IsVerdict(a)
  <2>1. ASSUME NEW c \in Clients, LoginFails(c) \/ AuditLogin(c) \/ AuditAccess(c)
        PROVE UNCHANGED published /\ \A a \in audit' : a \in audit \/ ~ IsVerdict(a)
    BY <2>1 DEF LoginFails, AuditLogin, AuditAccess, Log, IsVerdict, Refusals
  <2>2. ASSUME ~ \E c \in Clients : LoginFails(c) \/ AuditLogin(c) \/ AuditAccess(c)
        PROVE UNCHANGED <<published, audit>>
    BY <1>3, <2>2 DEF Next, Step, Operator, Crash, ValidateCaller, CreateTemp,
       Validate, Inspect, InvalidateTemp, Logout, Login, SubmitCommand,
       SubmitDelegated, Submit, PlantLogs, Tick, vars, database
  <2> QED
    BY <2>1, <2>2
<1> QED
  BY <1>1, <1>3, OutcomeKnown

\* Bus and audit table keep telling one story.
LEMMA AuditStep ==
  TypeOK /\ ClientInv /\ MessageInv /\ AuditTellsTheTruth /\ [Next]_vars
  => AuditTellsTheTruth'
<1> SUFFICES ASSUME TypeOK, ClientInv, MessageInv, AuditTellsTheTruth, [Next]_vars
             PROVE AuditTellsTheTruth'
  OBVIOUS
<1> DEFINE Tells(n) == /\ Accepted(n) => OnBus(n) \/ n \in offline'
                       /\ Refused(n) \/ n \in offline' => ~ OnBus(n)
                       /\ ~ (Accepted(n) /\ Refused(n))
<1>1. Grows /\ calls \in Nat
  BY GrowsStep, GatewayAssumption DEF TypeOK
<1>2. \A n \in 1..calls' : Tells(n)
  <2>1. \A n \in 1..calls : Tells(n)
    BY <1>1 DEF AuditTellsTheTruth, Grows
  <2>2. \A n \in 1..calls' : n \notin 1..calls =>
           ~ Accepted(n) /\ ~ Refused(n) /\ ~ OnBus(n)
    BY <1>1 DEF TypeOK, MessageInv, Accepted, Refused, OnBus
  <2> QED
    BY <2>1, <2>2
<1>3. CASE UNCHANGED published /\ \A a \in audit' : a \in audit \/ ~ IsVerdict(a)
  BY <1>2, <1>3 DEF AuditTellsTheTruth, Accepted, Refused, OnBus, IsVerdict
<1>4. ASSUME NEW c \in Clients, UNCHANGED audit,
             published' = published \cup {Message(c, client[c].session)},
             ~ Refused(client[c].call), client[c].call \notin offline'
      PROVE AuditTellsTheTruth'
  <2>1. Message(c, client[c].session).call = client[c].call
    BY DEF Message
  <2> QED
    BY <1>2, <1>4, <2>1 DEF AuditTellsTheTruth, Accepted, Refused, OnBus
<1>5. ASSUME NEW c \in Clients, NEW e \in Refusals \cup {"COMMAND_ACCEPTED"},
             NEW u \in Users \cup {None},
             Log(e, client[c].call, u), UNCHANGED <<published, offline>>,
             ~ Accepted(client[c].call), ~ Refused(client[c].call),
             e = "COMMAND_ACCEPTED" =>
                OnBus(client[c].call) \/ client[c].call \in offline,
             e \in Refusals => ~ OnBus(client[c].call)
      PROVE AuditTellsTheTruth'
  BY <1>2, <1>5 DEF AuditTellsTheTruth, Accepted, Refused, OnBus, Log, Refusals
<1> QED
  BY <1>3, <1>4, <1>5, Speakers

-----------------------------------------------------------------------------
(* The theorems *)

\* The inductive invariant holds whatever the scheduling.
LEMMA Safety == Init /\ [][Next]_vars => []Inv
<1>1. Init => Inv
  <2> SUFFICES ASSUME Init PROVE Inv
    OBVIOUS
  <2>1. Stopped \in ClientStates
    BY DEF Stopped, ClientStates
  <2>2. TypeOK
    <3>1. sessions \in Seq(SessionRows) /\ Len(sessions) = 0
      BY DEF Init
    <3>2. /\ client \in [Clients -> ClientStates]
          /\ \A c \in Clients : client[c].token = None /\ client[c].temp = None
      BY <2>1 DEF Init, Stopped
    <3>3. /\ audit \subseteq [event : Events, call : 0..calls, user : Users \cup {None}]
          /\ published \subseteq Messages /\ last_row \in Rows
          /\ now \in 0..MaxTime /\ calls \in 0..MaxCalls
          /\ orphans \subseteq 1..Len(sessions) /\ offline \subseteq 1..calls
      BY GatewayAssumption DEF Init, Rows
    <3> QED
      BY <3>1, <3>2, <3>3 DEF TypeOK
  <2>3. ClientInv
    BY DEF Init, ClientInv, Stopped, Knows, LoggedIn, InCall, Delegates, Approves,
       Refuses, Untold, Approved, Busy, Before
  <2>4. SessionInv /\ UniqueInv /\ MessageInv /\ AuditTellsTheTruth
    BY DEF Init, SessionInv, UniqueInv, MessageInv, AuditTellsTheTruth, Stopped
  <2> QED
    BY <2>2, <2>3, <2>4 DEF Inv
<1>2. Inv /\ [Next]_vars => Inv'
  BY TypeStep, SessionInvStep, ClientStep, UniqueStep, MessageStep, AuditStep DEF Inv
<1> QED
  BY <1>1, <1>2, PTL

\* The inductive invariant holds of every behaviour.
THEOREM Invariance == Spec => []Inv
  BY Safety, PTL DEF Spec

\* Every variable keeps its type.
THEOREM TypeCorrect == Spec => []TypeOK
  BY Invariance, PTL DEF Inv

\* Only capabilities that the named session held reached the plant, in the
\* name of the person at the terminal.
THEOREM OnlyAuthorised == Spec => []PublishedAuthorised
<1>1. Inv => PublishedAuthorised
  BY DEF Inv, MessageInv, PublishedAuthorised
<1> QED
  BY <1>1, Invariance, PTL

\* The role of a message is its sender's own, or OPERATOR and traced.
LEMMA RoleOrTrace ==
  ASSUME Inv, NEW m \in published
  PROVE  /\ IsActionAllowed(m.role, m.cmd)
         /\ m.role = RoleOf[m.by] \/ (m.role = "OPERATOR" /\ Traced(m.call, m.by))
  BY DEF Inv, SessionInv, MessageInv

\* What reset and maintenance need is not an OPERATOR's to lend.
LEMMA PrivilegesOwned == Inv => PrivilegedOnlyByOwner
<1>1. ~ IsActionAllowed("OPERATOR", "reset") /\ ~ IsActionAllowed("OPERATOR", "maintenance")
  BY DEF IsActionAllowed, RequiredCapability, Capabilities, Vocabulary
<1> QED
  BY <1>1, RoleOrTrace DEF PrivilegedOnlyByOwner

\* The delegating route lends nothing an operator may not do.
THEOREM PrivilegesNotLent == Spec => []PrivilegedOnlyByOwner
  BY PrivilegesOwned, Invariance, PTL

\* Whoever used the delegating route beyond the own role has left a trace.
THEOREM DelegationIsTraced == Spec => []DelegationTraced
<1>1. Inv => DelegationTraced
  BY RoleOrTrace DEF DelegationTraced, Traced
<1> QED
  BY <1>1, Invariance, PTL

\* Acceptances were published and refusals were not.
THEOREM AuditIsTrue == Spec => []AuditTellsTheTruth
  BY Invariance, PTL DEF Inv

\* No step gives a session back its life, its owner's name or another role.
THEOREM SessionsEndOnly == Spec => SessionsOnlyEnd
<1>1. Inv /\ [Next]_vars =>
        [ \A t \in 1..Len(sessions) :
            sessions'[t] = sessions[t]
            \/ sessions'[t] = [sessions[t] EXCEPT !.active = FALSE] ]_vars
  BY SessionsStep DEF Inv, OnlyEnds
<1> QED
  BY <1>1, Invariance, PTL DEF Spec, SessionsOnlyEnd

-----------------------------------------------------------------------------
(* The command path implements ReferenceMonitor *)

\* The two ways of saying that a call has come to an order, or to a verdict.
LEMMA OrderedIsOnBus == \A n : Monitor!Ordered(n) <=> OnBus(n)
<1> SUFFICES ASSUME NEW n PROVE Monitor!Ordered(n) <=> OnBus(n)
  OBVIOUS
<1> DEFINE Seen(m) == [call |-> m.call, by |-> m.by, cmd |-> m.cmd]
<1>1. OrdersSeen = {Seen(m) : m \in published}
  BY DEF OrdersSeen
<1>2. \A m : Seen(m).call = m.call
  OBVIOUS
<1> HIDE DEF Seen
<1> QED
  BY <1>1, <1>2 DEF Monitor!Ordered, OnBus

LEMMA JudgedIsRecorded ==
  ASSUME NEW n, n # 0
  PROVE  Monitor!Judged(n) <=> Accepted(n) \/ Refused(n)
<1>1. Monitor!Judged(n) <=> \E a \in audit : IsVerdict(a) /\ a.call = n
  <2> DEFINE Seen(a) == [call |-> a.call,
                         verdict |-> IF a.event = "COMMAND_ACCEPTED" THEN "accepted"
                                     ELSE "refused"]
  <2>1. VerdictsSeen = {Seen(a) : a \in {e \in audit : IsVerdict(e)}}
    BY DEF VerdictsSeen
  <2>2. \A a : Seen(a).call = a.call
    OBVIOUS
  <2> HIDE DEF Seen
  <2> QED
    BY <2>1, <2>2 DEF Monitor!Judged
<1> QED
  BY <1>1 DEF IsVerdict, Accepted, Refused

\* A record of access adds a trace and no verdict.
LEMMA TraceSeen ==
  ASSUME NEW n, NEW u, Log("BACKEND_ACCESS", n, u)
  PROVE  /\ TracesSeen' = TracesSeen \cup {[call |-> n, by |-> u]}
         /\ VerdictsSeen' = VerdictsSeen
<1>1. audit' = audit \cup {[event |-> "BACKEND_ACCESS", call |-> n, user |-> u]}
  BY DEF Log
<1>2. TracesSeen' = TracesSeen \cup {[call |-> n, by |-> u]}
  <2> DEFINE rec == [event |-> "BACKEND_ACCESS", call |-> n, user |-> u]
             Seen(a) == [call |-> a.call, by |-> a.user]
             Of(S) == {Seen(a) : a \in {e \in S : e.event = "BACKEND_ACCESS"}}
  <2>1. rec.event = "BACKEND_ACCESS" /\ Seen(rec) = [call |-> n, by |-> u]
    OBVIOUS
  <2>2. audit' = audit \cup {rec} /\ TracesSeen = Of(audit) /\ TracesSeen' = Of(audit')
    BY <1>1 DEF TracesSeen
  <2> HIDE DEF rec, Seen
  <2>3. Of(audit \cup {rec}) = Of(audit) \cup {Seen(rec)}
    BY <2>1
  <2> QED
    BY <2>1, <2>2, <2>3
<1>3. \A a : a \in audit' /\ IsVerdict(a) <=> a \in audit /\ IsVerdict(a)
  BY <1>1 DEF IsVerdict, Refusals
<1> QED
  BY <1>2, <1>3 DEF VerdictsSeen, IsVerdict

\* A record of the outcome adds a verdict and no trace.
LEMMA VerdictSeen ==
  ASSUME NEW e \in Refusals \cup {"COMMAND_ACCEPTED"}, NEW n, NEW u, n # 0,
         Log(e, n, u)
  PROVE  /\ VerdictsSeen' = VerdictsSeen \cup
               {[call |-> n, verdict |-> IF e = "COMMAND_ACCEPTED" THEN "accepted"
                                         ELSE "refused"]}
         /\ TracesSeen' = TracesSeen
<1> DEFINE rec == [event |-> e, call |-> n, user |-> u]
<1>1. audit' = audit \cup {rec}
  BY DEF Log
<1>2. rec.event # "BACKEND_ACCESS" /\ IsVerdict(rec) /\ rec.call = n /\ rec.event = e
  BY DEF Refusals, IsVerdict
<1> HIDE DEF rec
<1>3. TracesSeen' = TracesSeen
  BY <1>1, <1>2 DEF TracesSeen
<1>4. VerdictsSeen' = VerdictsSeen \cup
         {[call |-> n, verdict |-> IF e = "COMMAND_ACCEPTED" THEN "accepted"
                                   ELSE "refused"]}
  BY <1>1, <1>2 DEF VerdictsSeen, IsVerdict
<1> QED
  BY <1>3, <1>4

\* A published message adds one order.
LEMMA OrderSeen ==
  ASSUME NEW m, published' = published \cup {m}
  PROVE  OrdersSeen' = OrdersSeen \cup {[call |-> m.call, by |-> m.by, cmd |-> m.cmd]}
<1> DEFINE Seen(x) == [call |-> x.call, by |-> x.by, cmd |-> x.cmd]
<1>1. OrdersSeen = {Seen(x) : x \in published} /\ OrdersSeen' = {Seen(x) : x \in published'}
  BY DEF OrdersSeen
<1> HIDE DEF Seen
<1>2. OrdersSeen' = OrdersSeen \cup {Seen(m)}
  BY <1>1
<1> QED
  BY <1>2 DEF Seen

\* What decides a publication entitles the order it is.
LEMMA PublishIsEntitled ==
  ASSUME Inv, NEW c \in Clients, Publish(c)
  PROVE  Monitor!Entitled(client[c].call, client[c].user, client[c].line.cmd)
<1> DEFINE t == TokenUsed(c)
           cmd == client[c].line.cmd
<1>1. Knows(c) /\ client[c].pc = "publish"
  BY DEF Inv, ClientInv, Publish, At
<1>2. /\ t \in 1..Len(sessions) /\ IsActionAllowed(sessions[t].role, cmd)
      /\ ParseOK(client[c].line)
      /\ sessions[t].user = client[c].user /\ client[c].user \in Users
      /\ sessions[t].temp => Traced(client[c].call, client[c].user)
  BY <1>1 DEF Knows, Approves, Approved, LoggedIn, Delegates, TokenUsed
<1>3. cmd \in Vocabulary
  BY <1>2 DEF ParseOK, Vocabulary
<1>4. sessions[t].role = IF sessions[t].temp THEN "OPERATOR" ELSE RoleOf[client[c].user]
  BY <1>2 DEF Inv, SessionInv
<1> HIDE DEF t, cmd
<1>5. CASE sessions[t].temp
  <2>1. cmd \in LentCommands
    BY <1>2, <1>3, <1>4, <1>5 DEF LentCommands
  <2>2. [call |-> client[c].call, by |-> client[c].user] \in TracesSeen
    <3> DEFINE rec == [event |-> "BACKEND_ACCESS", call |-> client[c].call,
                       user |-> client[c].user]
    <3>1. rec \in audit /\ rec.event = "BACKEND_ACCESS" /\ rec.call = client[c].call
          /\ rec.user = client[c].user
      BY <1>2, <1>5 DEF Traced
    <3> HIDE DEF rec
    <3> QED
      BY <3>1 DEF TracesSeen
  <2> QED
    BY <2>1, <2>2 DEF Monitor!Entitled, cmd
<1>6. CASE ~ sessions[t].temp
  <2> DEFINE p == <<client[c].user, cmd>>
  <2>1. p \in Users \X Vocabulary /\ p[1] = client[c].user /\ p[2] = cmd
    BY <1>2, <1>3
  <2>2. p \in OwnRights
    BY <1>2, <1>4, <1>6, <2>1 DEF OwnRights
  <2> QED
    BY <2>2 DEF Monitor!Entitled, cmd
<1> QED
  BY <1>5, <1>6

\* The abstract monitor begins where the gateway does.
LEMMA MonitorBegins == Init => Monitor!Init
  BY DEF Init, Monitor!Init, TracesSeen, OrdersSeen, VerdictsSeen

\* Each step of the gateway is a step of the abstract monitor, or is not seen.
LEMMA MonitorSteps == Inv /\ [Next]_vars => [Monitor!Next]_(Monitor!vars)
<1>1. ASSUME Inv, [Next]_vars PROVE [Monitor!Next]_(Monitor!vars)
  <2>1. TypeOK /\ ClientInv /\ calls \in Nat
    BY <1>1, GatewayAssumption DEF Inv, TypeOK
  <2>2. ASSUME UNCHANGED <<audit, published, calls, offline>>
        PROVE UNCHANGED Monitor!vars
    BY <2>2 DEF Monitor!vars, TracesSeen, OrdersSeen, VerdictsSeen
  <2>3. ASSUME NEW c \in Clients, NEW line \in Lines,
               SubmitCommand(c, line) \/ SubmitDelegated(c, line)
        PROVE Monitor!Next
    <3>1. /\ calls' = calls + 1 /\ UNCHANGED <<audit, published>>
          /\ offline' \in {offline, offline \cup {calls + 1}}
      BY <2>3 DEF SubmitCommand, SubmitDelegated, Submit, database
    <3> QED
      BY <3>1 DEF Monitor!Next, Monitor!Open, TracesSeen, OrdersSeen, VerdictsSeen
  <2>4. ASSUME NEW c \in Clients, AuditAccess(c) PROVE Monitor!Next
    <3> DEFINE n == client[c].call
               u == client[c].user
    <3>1. Knows(c) /\ client[c].pc = "trace"
      BY <2>1, <2>4 DEF ClientInv, AuditAccess, At
    <3>2. n \in 1..calls /\ u \in Users /\ sessions[client[c].token].user = u
          /\ ~ OnBus(n) /\ ~ Accepted(n) /\ ~ Refused(n)
      BY <3>1 DEF Knows, InCall, LoggedIn, Untold, Busy, Before
    <3>3. Log("BACKEND_ACCESS", n, u) /\ UNCHANGED <<published, calls, offline>>
      BY <2>4, <3>2 DEF AuditAccess
    <3> HIDE DEF n, u
    <3>4. ~ Monitor!Ordered(n) /\ ~ Monitor!Judged(n)
      BY <2>1, <3>2, OrderedIsOnBus, JudgedIsRecorded
    <3>5. TracesSeen' = TracesSeen \cup {[call |-> n, by |-> u]}
          /\ VerdictsSeen' = VerdictsSeen /\ OrdersSeen' = OrdersSeen
      BY <3>3, TraceSeen DEF OrdersSeen
    <3>6. Monitor!Trace(n, u)
      BY <3>3, <3>4, <3>5 DEF Monitor!Trace
    <3> QED
      BY <3>2, <3>6 DEF Monitor!Next
  <2>0. ASSUME NEW c \in Clients, Publish(c), c \notin Attached
        PROVE UNCHANGED Monitor!vars
    BY <2>0, <2>2 DEF Publish, database
  <2>5. ASSUME NEW c \in Clients, Publish(c), c \in Attached PROVE Monitor!Next
    <3> DEFINE n == client[c].call
               u == client[c].user
               cmd == client[c].line.cmd
               m == Message(c, client[c].session)
    <3>1. Knows(c) /\ client[c].pc = "publish"
      BY <2>1, <2>5 DEF ClientInv, Publish, At
    <3>2. n \in 1..calls /\ u \in Users /\ cmd \in Vocabulary /\ n \notin offline
          /\ ~ OnBus(n) /\ ~ Accepted(n) /\ ~ Refused(n)
      BY <2>5, <3>1 DEF Knows, InCall, LoggedIn, Untold, Approves, Approved,
         ParseOK, Vocabulary, Busy, Before
    <3>3. Monitor!Entitled(n, u, cmd)
      BY <1>1, <2>5, PublishIsEntitled
    <3>4. published' = published \cup {m} /\ UNCHANGED <<audit, calls, offline>>
          /\ m.call = n /\ m.by = u /\ m.cmd = cmd
      BY <2>5 DEF Publish, Message, database
    <3> HIDE DEF n, u, cmd, m
    <3>5. ~ Monitor!Ordered(n) /\ ~ Monitor!Judged(n)
      BY <2>1, <3>2, OrderedIsOnBus, JudgedIsRecorded
    <3>6. OrdersSeen' = OrdersSeen \cup {[call |-> n, by |-> u, cmd |-> cmd]}
          /\ TracesSeen' = TracesSeen /\ VerdictsSeen' = VerdictsSeen
      BY <3>4, OrderSeen DEF TracesSeen, VerdictsSeen
    <3>7. Monitor!Order(n, u, cmd)
      BY <3>2, <3>3, <3>4, <3>5, <3>6 DEF Monitor!Order
    <3> QED
      BY <3>2, <3>7 DEF Monitor!Next
  <2>6. ASSUME NEW c \in Clients, NEW e \in Refusals \cup {"COMMAND_ACCEPTED"},
               NEW u \in Users \cup {None},
               Log(e, client[c].call, u), UNCHANGED <<published, calls, offline>>,
               client[c].call \in 1..calls,
               ~ Accepted(client[c].call), ~ Refused(client[c].call),
               e = "COMMAND_ACCEPTED" =>
                  OnBus(client[c].call) \/ client[c].call \in offline,
               e \in Refusals => ~ OnBus(client[c].call)
        PROVE Monitor!Next
    <3> DEFINE n == client[c].call
               v == IF e = "COMMAND_ACCEPTED" THEN "accepted" ELSE "refused"
    <3>1. n \in 1..calls /\ n # 0 /\ v \in {"accepted", "refused"}
      BY <2>1, <2>6
    <3>2. /\ ~ Monitor!Judged(n)
          /\ v = "accepted" => Monitor!Ordered(n) \/ n \in offline
          /\ v = "refused" => ~ Monitor!Ordered(n)
      BY <2>6, <3>1, OrderedIsOnBus, JudgedIsRecorded
    <3>3. /\ VerdictsSeen' = VerdictsSeen \cup {[call |-> n, verdict |-> v]}
          /\ TracesSeen' = TracesSeen /\ OrdersSeen' = OrdersSeen
      BY <2>6, <3>1, VerdictSeen DEF OrdersSeen
    <3> HIDE DEF n, v
    <3>4. Monitor!Judge(n, v)
      BY <2>6, <3>2, <3>3 DEF Monitor!Judge
    <3> QED
      BY <3>1, <3>4 DEF Monitor!Next
  <2>7. CASE \E c \in Clients : AuditAccepted(c) \/ AuditRefusal(c) \/ AuditBlocked(c)
    BY <2>1, <2>6, <2>7, OutcomeKnown
  <2>8. ASSUME NEW c \in Clients, LoginFails(c) \/ AuditLogin(c)
        PROVE UNCHANGED Monitor!vars
    <3>0. ASSUME NEW e \in {"AUTH_FAILURE", "LOGIN"}, NEW n, NEW u, Log(e, n, u),
                 e = "AUTH_FAILURE" => n = 0
          PROVE \E rec : /\ audit' = audit \cup {rec} /\ ~ IsVerdict(rec)
                         /\ rec.event # "BACKEND_ACCESS"
      <4> DEFINE rec == [event |-> e, call |-> n, user |-> u]
      <4>1. audit' = audit \cup {rec} /\ ~ IsVerdict(rec)
            /\ rec.event # "BACKEND_ACCESS"
        BY <3>0 DEF Log, IsVerdict, Refusals
      <4> QED
        BY <4>1
    <3>1. PICK rec : /\ audit' = audit \cup {rec} /\ ~ IsVerdict(rec)
                     /\ rec.event # "BACKEND_ACCESS"
      BY <2>8, <3>0 DEF LoginFails, AuditLogin
    <3>2. VerdictsSeen' = VerdictsSeen /\ TracesSeen' = TracesSeen
      BY <3>1 DEF VerdictsSeen, TracesSeen, IsVerdict
    <3> QED
      BY <2>8, <3>2 DEF LoginFails, AuditLogin, OrdersSeen, Monitor!vars
  <2>9. ASSUME NEW c \in Clients,
               Logout(c) \/ Crash(c) \/ (\E u \in Users : Login(c, u))
               \/ ValidateCaller(c) \/ CreateTemp(c) \/ Validate(c) \/ Inspect(c)
               \/ InvalidateTemp(c)
        PROVE UNCHANGED Monitor!vars
    BY <2>2, <2>9 DEF Logout, Crash, Login, ValidateCaller, CreateTemp, Validate,
       Inspect, InvalidateTemp, database
  <2>10. ASSUME (\E row \in Rows : PlantLogs(row)) \/ Tick \/ UNCHANGED vars
         PROVE UNCHANGED Monitor!vars
    BY <2>2, <2>10 DEF PlantLogs, Tick, vars, database
  <2> QED
    BY <1>1, <2>0, <2>3, <2>4, <2>5, <2>7, <2>8, <2>9, <2>10
    DEF Next, Step, Operator
<1> QED
  BY <1>1

\* Whatever clients, sessions and the clock do, the messages and the audit
\* records are a behaviour of ReferenceMonitor.
THEOREM GatewayImplementsMonitor == Spec => ImplementsMonitor
  BY MonitorBegins, MonitorSteps, Invariance, PTL DEF Spec, ImplementsMonitor, Monitor!Spec

-----------------------------------------------------------------------------
(* Delegated sessions *)

\* A live delegated session is in the hands of a client or was left by one
\* that died; it carries one message, sent before its client goes on.
LiveInv ==
    \A t \in 1..Len(sessions) : sessions[t].temp /\ sessions[t].active =>
        t \in orphans \/ \E c \in Clients : client[c].temp = t
SingleInv ==
    \A m, n \in published :
        m.token = n.token /\ sessions[m.token].temp => m = n
UnusedInv ==
    \A c \in Clients : client[c].pc \in Before /\ client[c].temp # None =>
        \A m \in published : m.token # client[c].temp

\* Only creation and cleanup change the delegated token a live client holds.
LEMMA TempKept ==
  ASSUME TypeOK, NEW c \in Clients, Knows(c), Step(c) \/ Operator(c),
         ~ CreateTemp(c), ~ InvalidateTemp(c)
  PROVE  client'[c].temp = client[c].temp
<1>1. /\ client[c] \in ClientStates /\ Stopped.temp = None /\ Waiting(c).temp = None
      /\ client[c].pc \in {"out", "idle", "delegate"} => client[c].temp = None
  BY DEF TypeOK, Stopped, Waiting, Knows, InCall, Delegates, Busy, Before
<1>2. ASSUME NEW r, client' = [client EXCEPT ![c] = r], r.temp = client[c].temp
      PROVE  client'[c].temp = client[c].temp
  BY <1>2 DEF TypeOK
<1>3. CASE Logout(c)
  BY <1>1, <1>2, <1>3 DEF Logout, At
<1>4. CASE \E u \in Users : Login(c, u)
  BY <1>1, <1>4 DEF Login, TypeOK, ClientStates
<1>5. ASSUME NEW line \in Lines, NEW pc, Submit(c, line, pc)
      PROVE client'[c].temp = client[c].temp
  BY <1>1, <1>5 DEF Submit, TypeOK, ClientStates
<1>6. ASSUME NEW pc, GoTo(c, pc) PROVE client'[c].temp = client[c].temp
  BY <1>1, <1>6 DEF GoTo, TypeOK, ClientStates
<1>7. CASE Return(c)
  <2>1. client'[c] = IF client[c].temp = None THEN Waiting(c)
                     ELSE [client[c] EXCEPT !.pc = "cleanup"]
    BY <1>7 DEF Return, TypeOK
  <2> QED
    BY <1>1, <2>1 DEF ClientStates
<1>8. CASE ValidateCaller(c)
  <2>1. client'[c] = IF ValidSession(client[c].token)
                     THEN [client[c] EXCEPT !.pc = "trace"] ELSE Waiting(c)
    BY <1>8 DEF ValidateCaller, TypeOK
  <2> QED
    BY <1>1, <1>8, <2>1 DEF ClientStates, ValidateCaller, At
<1>9. CASE Validate(c)
  <2>1. PICK pc, event, copy :
           client'[c] = [client[c] EXCEPT !.pc = pc, !.event = event, !.session = copy]
    BY <1>9 DEF Validate, TypeOK
  <2> QED
    BY <1>1, <2>1 DEF ClientStates
<1>10. CASE Inspect(c)
  <2>1. PICK pc : client'[c] = [client[c] EXCEPT !.pc = pc, !.moved = FALSE]
    BY <1>10 DEF Inspect, TypeOK
  <2> QED
    BY <1>1, <2>1 DEF ClientStates
<1> QED
  BY <1>3, <1>4, <1>5, <1>6, <1>7, <1>8, <1>9, <1>10
  DEF Step, Operator, LoginFails, SubmitCommand, SubmitDelegated, AuditLogin,
      AuditAccess, AuditRefusal, AuditBlocked, Publish, AuditAccepted

\* A delegated session ends when its client lets go of it.
LEMMA LiveStep == Inv /\ LiveInv /\ [Next]_vars => LiveInv'
<1> SUFFICES ASSUME Inv, LiveInv, [Next]_vars, NEW t \in 1..Len(sessions'),
                    sessions'[t].temp, sessions'[t].active
             PROVE t \in orphans' \/ \E c \in Clients : client'[c].temp = t
  BY DEF LiveInv
<1>1. /\ TypeOK /\ ClientInv /\ OnlyEnds /\ Len(sessions) \in Nat
      /\ \A s \in 1..Len(sessions) : sessions[s] \in SessionRows
  BY SessionsStep DEF Inv, TypeOK
<1>2. t \in 1..Len(sessions) => /\ sessions[t].temp /\ sessions[t].active
                                /\ t \in orphans \/ \E c \in Clients : client[c].temp = t
  BY <1>1 DEF OnlyEnds, LiveInv, SessionRows
<1>3. ASSUME NEW c \in Clients, CreateTemp(c)
      PROVE t \in orphans' \/ \E d \in Clients : client'[d].temp = t
  <2>1. client[c].temp = None /\ sessions[client[c].token].user \in Users
    BY <1>1, <1>3 DEF CreateTemp, At, ClientInv, Knows, Delegates, LoggedIn
  <2>2. TempTTL \in Nat /\ now \in Nat /\ "OPERATOR" \in Roles
    BY <1>1, GatewayAssumption DEF TypeOK, Roles
  <2>3. Len(sessions') = Len(sessions) + 1
    BY <1>1, <1>3, <2>1, <2>2, CreateFrame DEF CreateTemp, TypeOK
  <2>4. client'[c].temp = Len(sessions) + 1 /\ UNCHANGED orphans
    BY <1>1, <1>3 DEF CreateTemp, FreshToken, TypeOK, ClientStates
  <2>5. \A d \in Clients : d # c => client'[d] = client[d]
    BY <1>1, <1>3, ActorIds DEF Step
  <2>6. CASE t = Len(sessions) + 1
    BY <2>4, <2>6
  <2>7. CASE t \in 1..Len(sessions)
    BY <1>2, <2>1, <2>4, <2>5, <2>7, GatewayAssumption
  <2> QED
    BY <1>1, <2>3, <2>6, <2>7
<1>4. ASSUME NEW c \in Clients, Step(c) \/ Operator(c) \/ Crash(c), ~ CreateTemp(c)
      PROVE t \in 1..Len(sessions)
  <2>1. CASE \E u \in Users : Login(c, u)
    <3>1. PICK u \in Users : Login(c, u)
      BY <2>1
    <3>2. RoleOf[u] \in Roles /\ UserTTL \in Nat /\ now \in Nat
      BY <1>1, GatewayAssumption DEF TypeOK
    <3>3. /\ Len(sessions') = Len(sessions) + 1
          /\ ~ sessions'[Len(sessions) + 1].temp
      <4>1. Create(u, RoleOf[u], UserTTL, FALSE)
        BY <3>1 DEF Login
      <4>2. sessions \in Seq(SessionRows)
        BY <1>1 DEF TypeOK
      <4> QED
        BY <3>2, <4>1, <4>2, CreateFrame
    <3> QED
      BY <1>1, <3>3
  <2>2. CASE ~ \E u \in Users : Login(c, u)
    <3>1. CASE ValidateCaller(c) \/ Validate(c) \/ InvalidateTemp(c)
      <4>1. \E s \in 1..Len(sessions) : CloseIfExpired(s) \/ Close(s)
        <5>1. Knows(c)
          BY <1>1 DEF ClientInv
        <5>2. ValidateCaller(c) => client[c].token \in 1..Len(sessions)
          BY <5>1 DEF ValidateCaller, At, Knows, LoggedIn
        <5>3. Validate(c) => TokenUsed(c) \in 1..Len(sessions)
          BY <5>1 DEF Validate, At, Knows, LoggedIn, Delegates, TokenUsed
        <5>4. InvalidateTemp(c) => client[c].temp \in 1..Len(sessions)
          BY <5>1 DEF InvalidateTemp, At, Knows, Delegates
        <5> QED
          BY <3>1, <5>2, <5>3, <5>4 DEF ValidateCaller, Validate, InvalidateTemp
      <4> QED
        BY <1>1, <4>1, ValidateFrame DEF TypeOK
    <3>2. CASE ~ (ValidateCaller(c) \/ Validate(c) \/ InvalidateTemp(c))
      BY <1>4, <2>2, <3>2 DEF Step, Operator, Crash, AuditLogin, AuditAccess,
         AuditRefusal, Inspect, AuditBlocked, Publish, AuditAccepted, LoginFails,
         Logout, SubmitCommand, SubmitDelegated, Submit, database
    <3> QED
      BY <3>1, <3>2
  <2> QED
    BY <2>1, <2>2
<1>5. ASSUME NEW c \in Clients, Crash(c)
      PROVE t \in orphans' \/ \E d \in Clients : client'[d].temp = t
  <2>1. \A d \in Clients : d # c => client'[d] = client[d]
    BY <1>1, <1>5, ActorIds
  <2>2. t \in 1..Len(sessions) /\ t # None
    BY <1>1, <1>5, GatewayAssumption DEF Crash, database
  <2> QED
    BY <1>2, <1>5, <2>1, <2>2 DEF Crash
<1>6. ASSUME NEW c \in Clients, InvalidateTemp(c)
      PROVE t \in orphans' \/ \E d \in Clients : client'[d].temp = t
  <2>1. ~ CreateTemp(c) /\ client[c].temp \in 1..Len(sessions)
    BY <1>1, <1>6 DEF InvalidateTemp, CreateTemp, At, ClientInv, Knows, Delegates
  <2>2. t \in 1..Len(sessions)
    BY <1>4, <1>6, <2>1 DEF Step
  <2>3. t # client[c].temp
    <3>1. t = client[c].temp => sessions'[t] = [sessions[t] EXCEPT !.active = FALSE]
      BY <1>1, <1>6, <2>1, CloseFrame DEF InvalidateTemp, TypeOK
    <3> QED
      BY <1>1, <2>2, <3>1 DEF SessionRows
  <2>4. \A d \in Clients : d # c => client'[d] = client[d]
    BY <1>1, <1>6, ActorIds DEF Step
  <2> QED
    BY <1>2, <1>6, <2>2, <2>3, <2>4 DEF InvalidateTemp
<1>7. ASSUME NEW c \in Clients, Step(c) \/ Operator(c), ~ CreateTemp(c),
             ~ InvalidateTemp(c)
      PROVE t \in orphans' \/ \E d \in Clients : client'[d].temp = t
  <2>1. \A d \in Clients : client'[d].temp = client[d].temp
    BY <1>1, <1>7, ActorIds, TempKept DEF ClientInv
  <2>2. UNCHANGED orphans
    BY <1>7 DEF Step, Operator, AuditLogin, ValidateCaller, AuditAccess, Validate,
       AuditRefusal, Inspect, AuditBlocked, Publish, AuditAccepted, LoginFails,
       Logout, Login, SubmitCommand, SubmitDelegated, Submit
  <2> QED
    BY <1>2, <1>4, <1>7, <2>1, <2>2
<1>8. CASE (\E row \in Rows : PlantLogs(row)) \/ Tick \/ UNCHANGED vars
  <2>1. UNCHANGED <<sessions, orphans>>
    BY <1>8 DEF PlantLogs, Tick, vars, database
  <2>2. \A d \in Clients : client'[d].temp = client[d].temp
    <3>1. CASE \E row \in Rows : PlantLogs(row)
      BY <1>1, <3>1 DEF PlantLogs, TypeOK, ClientStates
    <3> QED
      BY <1>8, <3>1 DEF Tick, vars
  <2> QED
    BY <1>2, <2>1, <2>2
<1> QED
  BY <1>3, <1>5, <1>6, <1>7, <1>8 DEF Next

\* A message that appears is that of a client at its publication, and names
\* the session this client's call runs under.
LEMMA NewMessage ==
  ASSUME Inv, [Next]_vars, NEW m \in published', m \notin published
  PROVE  \E c \in Clients : /\ Publish(c) /\ client[c].pc = "publish"
                            /\ m.token = TokenUsed(c)
                            /\ m.token \in 1..Len(sessions)
                            /\ published' = published \cup {m}
                            /\ client'[c].pc = "accept"
<1>1. ASSUME ~ \E c \in Clients : Publish(c) PROVE UNCHANGED published
  BY <1>1 DEF Next, Step, Operator, Crash, AuditLogin, ValidateCaller,
     AuditAccess, CreateTemp, Validate, AuditRefusal, Inspect, AuditBlocked,
     AuditAccepted, InvalidateTemp, LoginFails, Logout, Login, SubmitCommand,
     SubmitDelegated, Submit, PlantLogs, Tick, vars
<1>2. PICK c \in Clients : Publish(c)
  BY <1>1
<1>3. client[c].pc = "publish" /\ Knows(c) /\ client[c] \in ClientStates
  BY <1>2 DEF Publish, At, Inv, ClientInv, TypeOK
<1>4. TokenUsed(c) \in 1..Len(sessions) /\ client[c].session.token = TokenUsed(c)
  BY <1>3 DEF Knows, Approves, Approved
<1>5. /\ published' = published \cup {Message(c, client[c].session)}
      /\ client' = [client EXCEPT ![c].pc = "accept"]
  BY <1>2 DEF Publish, GoTo
<1>6. client'[c].pc = "accept"
  BY <1>3, <1>5 DEF Inv, TypeOK, ClientStates
<1>7. m = Message(c, client[c].session) /\ m.token = client[c].session.token
  BY <1>5 DEF Message
<1> QED
  BY <1>2, <1>3, <1>4, <1>5, <1>6, <1>7

\* A delegated session carries one message at most.
LEMMA SingleStep ==
  Inv /\ SingleInv /\ UnusedInv /\ [Next]_vars => SingleInv'
<1> SUFFICES ASSUME Inv, SingleInv, UnusedInv, [Next]_vars,
                    NEW m \in published', NEW n \in published',
                    m.token = n.token, sessions'[m.token].temp
             PROVE  m = n
  BY DEF SingleInv
<1>1. /\ \A k \in published : k.token \in 1..Len(sessions)
      /\ \A s \in 1..Len(sessions) : sessions'[s].temp = sessions[s].temp
  BY SessionsStep DEF Inv, MessageInv
<1>2. ASSUME NEW k \in published', k \notin published, NEW o \in published,
             o.token = k.token, sessions'[k.token].temp
      PROVE  FALSE
  <2>1. PICK c \in Clients : /\ client[c].pc = "publish"
                             /\ k.token = TokenUsed(c)
                             /\ k.token \in 1..Len(sessions)
    BY <1>2, NewMessage
  <2>2. sessions[TokenUsed(c)].temp
    BY <1>1, <1>2, <2>1
  <2>3. client[c].temp # None /\ TokenUsed(c) = client[c].temp
    BY <2>1, <2>2 DEF TokenUsed, Inv, ClientInv, Knows, LoggedIn
  <2> QED
    BY <1>2, <2>1, <2>3 DEF UnusedInv, Before
<1>3. CASE m \in published /\ n \in published
  BY <1>1, <1>3 DEF SingleInv
<1>4. CASE m \notin published /\ n \notin published
  <2>1. published' = published \cup {m}
    BY <1>4, NewMessage
  <2> QED
    BY <1>4, <2>1
<1> QED
  BY <1>2, <1>3, <1>4

\* A call that has not published yet had not published before this step, and
\* a call begins without a delegated session.
LEMMA StillBefore ==
  ASSUME Inv, NEW c \in Clients, Step(c) \/ Operator(c) \/ Crash(c),
         client'[c].pc \in Before, client'[c].temp # None
  PROVE  client[c].pc \in Before
<1>1. /\ client[c] \in ClientStates /\ Knows(c)
      /\ Stopped.pc = "out" /\ Waiting(c).pc = "idle"
  BY DEF Inv, TypeOK, ClientInv, Stopped, Waiting
<1>2. ASSUME NEW r, client' = [client EXCEPT ![c] = r] PROVE client'[c] = r
  BY <1>2 DEF Inv, TypeOK
<1>3. CASE AuditLogin(c)
  <2>1. client'[c].pc = "idle"
    BY <1>1, <1>3 DEF AuditLogin, GoTo, Inv, TypeOK, ClientStates
  <2> QED
    BY <2>1 DEF Before
<1>4. CASE AuditAccepted(c)
  <2>1. client'[c].pc \in {"idle", "cleanup"}
    BY <1>1, <1>4 DEF AuditAccepted, Return, Inv, TypeOK, ClientStates
  <2> QED
    BY <2>1 DEF Before
<1>5. CASE InvalidateTemp(c)
  <2>1. client'[c].pc = "idle"
    BY <1>1, <1>2, <1>5 DEF InvalidateTemp
  <2> QED
    BY <2>1 DEF Before
<1>6. CASE Crash(c) \/ Logout(c)
  <2>1. client'[c].pc = "out"
    BY <1>1, <1>2, <1>6 DEF Crash, Logout
  <2> QED
    BY <2>1 DEF Before
<1>7. CASE LoginFails(c)
  BY <1>7 DEF LoginFails
<1>8. CASE \E u \in Users : Login(c, u)
  <2>1. client'[c].pc = "login"
    BY <1>1, <1>8 DEF Login, Inv, TypeOK, ClientStates
  <2> QED
    BY <2>1 DEF Before
<1>9. ASSUME NEW line \in Lines, NEW pc, Submit(c, line, pc) PROVE FALSE
  <2>1. client'[c].temp = client[c].temp /\ client[c].pc = "idle"
    BY <1>1, <1>9 DEF Submit, At, Inv, TypeOK, ClientStates
  <2> QED
    BY <1>1, <2>1 DEF Knows, InCall, Busy, Before
<1>10. CASE \/ ValidateCaller(c) \/ AuditAccess(c) \/ CreateTemp(c) \/ Validate(c)
            \/ AuditRefusal(c) \/ Inspect(c) \/ AuditBlocked(c) \/ Publish(c)
  BY <1>10 DEF ValidateCaller, AuditAccess, CreateTemp, Validate, AuditRefusal,
     Inspect, AuditBlocked, Publish, At, Before
<1> QED
  BY <1>3, <1>4, <1>5, <1>6, <1>7, <1>8, <1>9, <1>10
  DEF Step, Operator, SubmitCommand, SubmitDelegated

\* Before its publication, nothing has been sent through a delegated session.
LEMMA UnusedStep == Inv /\ UnusedInv /\ [Next]_vars => UnusedInv'
<1> SUFFICES ASSUME Inv, UnusedInv, [Next]_vars, NEW c \in Clients,
                    client'[c].pc \in Before, client'[c].temp # None,
                    NEW m \in published'
             PROVE  m.token # client'[c].temp
  BY DEF UnusedInv
<1>1. /\ \A k \in published : k.token \in 1..Len(sessions)
      /\ Len(sessions) \in Nat /\ TypeOK /\ Knows(c)
  BY DEF Inv, MessageInv, TypeOK, ClientInv
<1>2. /\ client'[c].temp \in {client[c].temp, Len(sessions) + 1}
      /\ client'[c].temp # Len(sessions) + 1 => client[c].pc \in Before
  <2>1. CASE Step(c) \/ Operator(c) \/ Crash(c)
    BY <1>1, <2>1, ActorIds, StillBefore
  <2>2. ASSUME NEW d \in Clients, d # c, Step(d) \/ Operator(d) \/ Crash(d)
        PROVE  client'[c] = client[c]
    BY <1>1, <2>2, ActorIds
  <2>3. CASE (\E row \in Rows : PlantLogs(row)) \/ Tick \/ UNCHANGED vars
    <3>1. CASE \E row \in Rows : PlantLogs(row)
      BY <1>1, <3>1 DEF PlantLogs, TypeOK, ClientStates
    <3> QED
      BY <2>3, <3>1 DEF Tick, vars
  <2> QED
    BY <2>1, <2>2, <2>3 DEF Next
<1>3. CASE m \in published
  BY <1>1, <1>2, <1>3 DEF UnusedInv
<1>4. CASE m \notin published
  <2>1. PICK d \in Clients : /\ m.token = TokenUsed(d) /\ client'[d].pc = "accept"
                             /\ m.token \in 1..Len(sessions)
                             /\ client[d].pc = "publish"
    BY <1>4, NewMessage
  <2>2. d # c
    BY <2>1 DEF Before
  <2>3. CASE client'[c].temp = Len(sessions) + 1
    BY <1>1, <2>1, <2>3
  <2>4. CASE client'[c].temp = client[c].temp
    <3>1. sessions[client[c].temp].temp
      BY <1>1, <2>4 DEF Knows, Delegates
    <3>2. CASE client[d].temp = None
      <4>1. ~ sessions[m.token].temp
        BY <2>1, <3>2 DEF TokenUsed, Inv, ClientInv, Knows, LoggedIn
      <4> QED
        BY <2>4, <3>1, <4>1
    <3>3. CASE client[d].temp # None
      BY <2>1, <2>2, <2>4, <3>3 DEF TokenUsed, Inv, UniqueInv
    <3> QED
      BY <3>2, <3>3
  <2> QED
    BY <1>2, <2>3, <2>4
<1> QED
  BY <1>3, <1>4

\* A delegated session is live only for its one call, and carries one message.
THEOREM DelegatedSessionsConfined == Spec => []TempSessionConfined
<1> DEFINE Delegated == LiveInv /\ SingleInv /\ UnusedInv
<1>1. Init => Delegated
  BY DEF Init, LiveInv, SingleInv, UnusedInv, Stopped
<1>2. Inv /\ Delegated /\ [Next]_vars => Delegated'
  BY LiveStep, SingleStep, UnusedStep
<1>3. Inv /\ Delegated => TempSessionConfined
  <2> SUFFICES ASSUME Inv, Delegated, NEW t \in 1..Len(sessions), sessions[t].temp
               PROVE  /\ IsLive(t) => t \in orphans \/ \E c \in Clients : client[c].temp = t
                      /\ Cardinality({m \in published : m.token = t}) <= 1
    BY DEF TempSessionConfined
  <2>1. IsLive(t) => t \in orphans \/ \E c \in Clients : client[c].temp = t
    BY DEF LiveInv, IsLive
  <2> DEFINE sent == {m \in published : m.token = t}
  <2>2. \A m, n \in sent : m = n
    BY DEF SingleInv
  <2>3. sent = {} \/ \E m : sent = {m}
    BY <2>2
  <2> HIDE DEF sent
  <2>4. Cardinality(sent) <= 1
    <3>1. CASE sent = {}
      BY <3>1, FS_EmptySet
    <3>2. CASE \E m : sent = {m}
      <4>1. PICK m : sent = {m}
        BY <3>2
      <4>2. Cardinality({m}) = 1
        BY FS_Singleton
      <4> QED
        BY <4>1, <4>2
    <3> QED
      BY <2>3, <3>1, <3>2
  <2> QED
    BY <2>1, <2>4 DEF sent
<1> QED
  <2>1. Spec => []Inv
    BY Invariance
  <2> HIDE DEF Delegated
  <2> QED
    BY <1>1, <1>2, <1>3, <2>1, PTL DEF Spec

\* A client about to publish pump power with the interlock on has inspected
\* the row that is the newest still, or been told that it is not.
THEOREM InterlockIsLateOnly == Spec => []InterlockMissesOnlyLateRows
<1>1. Init => InterlockMissesOnlyLateRows
  BY DEF Init, InterlockMissesOnlyLateRows, At, Stopped
<1>2. Inv /\ InterlockMissesOnlyLateRows /\ [Next]_vars => InterlockMissesOnlyLateRows'
  <2> SUFFICES ASSUME Inv, InterlockMissesOnlyLateRows, [Next]_vars,
                      NEW c \in Clients, client'[c].pc = "publish",
                      SecurityMode[c] = "ACTIVE", client'[c].line.cmd = "pump",
                      client'[c].line.arg = "some", last_row' = "unsafe"
               PROVE  client'[c].moved
    BY DEF InterlockMissesOnlyLateRows, At
  <2>1. client[c] \in ClientStates /\ TypeOK
    BY DEF Inv, TypeOK
  <2>2. CASE UNCHANGED <<client, last_row>>
    BY <2>2 DEF InterlockMissesOnlyLateRows, At
  <2>3. CASE \E row \in Rows : PlantLogs(row)
    <3>1. client'[c] = [client[c] EXCEPT !.moved = At(c, "publish")]
      BY <2>3 DEF PlantLogs
    <3>2. client'[c].pc = client[c].pc /\ client'[c].moved = At(c, "publish")
      BY <2>1, <3>1 DEF ClientStates
    <3> QED
      BY <3>2 DEF At
  <2>4. ASSUME NEW d \in Clients, d # c, Step(d) \/ Operator(d) \/ Crash(d)
        PROVE  UNCHANGED <<client[c], last_row>>
    <3>1. client'[c] = client[c]
      BY <2>1, <2>4, ActorIds
    <3>2. UNCHANGED last_row
      BY <2>4 DEF Step, Operator, Crash, AuditLogin, ValidateCaller, AuditAccess,
         CreateTemp, Validate, AuditRefusal, Inspect, AuditBlocked, Publish,
         AuditAccepted, InvalidateTemp, LoginFails, Logout, Login, SubmitCommand,
         SubmitDelegated, Submit
    <3> QED
      BY <3>1, <3>2
  <2>5. CASE Inspect(c)
    BY <2>1, <2>5 DEF Inspect, Blocked, TypeOK, ClientStates
  <2>6. ASSUME Step(c) \/ Operator(c) \/ Crash(c), ~ Inspect(c), ~ LoginFails(c)
        PROVE  FALSE
    <3>1. /\ Stopped.pc = "out" /\ Waiting(c).pc = "idle"
      BY DEF Stopped, Waiting
    <3>2. ASSUME NEW r, client' = [client EXCEPT ![c] = r], r.pc # "publish"
          PROVE  FALSE
      BY <2>1, <3>2 DEF TypeOK
    <3>3. CASE Return(c)
      BY <2>1, <3>1, <3>3 DEF Return, TypeOK, ClientStates
    <3>4. ASSUME NEW pc, pc # "publish", GoTo(c, pc) PROVE FALSE
      BY <2>1, <3>4 DEF GoTo, TypeOK, ClientStates
    <3>5. ASSUME NEW line, NEW pc, pc # "publish", Submit(c, line, pc) PROVE FALSE
      BY <2>1, <3>5 DEF Submit, TypeOK, ClientStates
    <3>6. CASE ValidateCaller(c)
      BY <2>1, <3>1, <3>6 DEF ValidateCaller, TypeOK, ClientStates
    <3>7. CASE Validate(c)
      BY <2>1, <3>7 DEF Validate, TypeOK, ClientStates
    <3>8. CASE CreateTemp(c)
      BY <2>1, <3>8 DEF CreateTemp, TypeOK, ClientStates
    <3>9. CASE \E u \in Users : Login(c, u)
      BY <2>1, <3>9 DEF Login, TypeOK, ClientStates
    <3>10. CASE InvalidateTemp(c) \/ Crash(c) \/ Logout(c)
      BY <3>1, <3>2, <3>10 DEF InvalidateTemp, Crash, Logout
    <3> QED
      BY <2>6, <3>3, <3>4, <3>5, <3>6, <3>7, <3>8, <3>9, <3>10
      DEF Step, Operator, AuditLogin, AuditAccess, AuditRefusal, AuditBlocked,
          Publish, AuditAccepted, SubmitCommand, SubmitDelegated
  <2>7. UNCHANGED vars \/ Tick \/ (\E d \in Clients : LoginFails(d))
        => UNCHANGED <<client, last_row>>
    BY DEF vars, Tick, LoginFails
  <2> QED
    BY <2>2, <2>3, <2>4, <2>5, <2>6, <2>7
    DEF Next, InterlockMissesOnlyLateRows, At
<1> QED
  BY <1>1, <1>2, Invariance, PTL DEF Spec
=============================================================================
