------------------------------ MODULE Testbed ------------------------------
(***************************************************************************)
(* The command path (CommandGateway) and the plant it commands, joined by  *)
(* the command topic.  Of the plant controller only its promise about the  *)
(* operating mode is used, OperatingMode, which PlantController implements.*)
(*                                                                         *)
(* The bus delivers in order and at QoS 0: a message is given to the       *)
(* controller once, or never; and a controller that is started again does  *)
(* not get what was sent to the one before it.                             *)
(***************************************************************************)
EXTENDS CommandGateway

CONSTANT MaxFaults    \* bound of the model on losses and restarts

VARIABLES
    wire,       \* commands on their way to the controller, in order
    operating_state, latched, stopping, safe,   \* the controller's promise
    faults      \* number of losses and restarts so far

plant == <<operating_state, latched, stopping, safe>>
system == <<vars, plant, wire, faults>>

ASSUME TestbedAssumption == MaxFaults \in Nat

Mode == INSTANCE OperatingMode WITH mode <- operating_state, held <- latched

SystemInit == Init /\ Mode!Init /\ wire = <<>> /\ faults = 0

-----------------------------------------------------------------------------
\* A message is given to the bus, if the gateway has a client to do so.
Send(c) ==
    /\ Publish(c)
    /\ wire' = IF c \in Attached THEN Append(wire, Message(c, client[c].session))
               ELSE wire
    /\ UNCHANGED <<plant, faults>>

\* What else the terminals, the clock and the telemetry table do
Elsewhere ==
    /\ Next
    /\ UNCHANGED <<published, plant, wire, faults>>

\* on_command_received begins to obey the message m.
Obey(m) ==
    CASE m.cmd \in {"reset", "maintenance"} -> Mode!Order(ModeOnDelivery(m))
      [] m.cmd = "estop" -> Mode!BeginStop
      [] OTHER -> Mode!Position

Deliver ==
    /\ wire # <<>>
    /\ Obey(Head(wire))
    /\ wire' = Tail(wire)
    /\ UNCHANGED <<vars, faults>>

\* Mutant of Stop: the handler leaves out the mode.
StopSilently ==
    /\ Mode!MakeSafe
    /\ UNCHANGED <<vars, wire, faults>>

\* The rest of an emergency stop
Stop ==
    /\ Mode!MakeSafe \/ Mode!EndStop
    /\ UNCHANGED <<vars, wire, faults>>

\* The physics thread
Physics ==
    /\ Mode!Look \/ Mode!Derive
    /\ UNCHANGED <<vars, wire, faults>>

Fault == faults < MaxFaults /\ faults' = faults + 1

Lose ==
    /\ wire # <<>> /\ Fault
    /\ wire' = Tail(wire)
    /\ UNCHANGED <<vars, plant>>

Restart ==
    /\ Fault
    /\ Mode!StartAgain
    /\ wire' = <<>>
    /\ UNCHANGED vars

SystemNext ==
    \/ \E c \in Clients : Send(c)
    \/ Elsewhere
    \/ Deliver \/ Stop \/ Physics
    \/ Lose \/ Restart

\* Besides the clients that go on with a call, the controller's network
\* thread handles what it is given.
SystemFairness ==
    /\ \A c \in Clients : WF_system(Send(c) \/ (Step(c) /\ Elsewhere))
    /\ WF_system(Deliver) /\ WF_system(Stop)

System == SystemInit /\ [][SystemNext]_system /\ SystemFairness

-----------------------------------------------------------------------------
(* Properties *)

\* EMERGENCY is ended by a person whose own role has the capability: not by
\* what the delegating route lends, and not by the physics thread, but for an
\* EMERGENCY that its state machine has not come past yet, or by a restart.
EmergencyEndedByEntitled ==
    [][ operating_state = "EMERGENCY" /\ operating_state' # "EMERGENCY" =>
          \/ faults' # faults
          \/ latched = None /\ wire' = wire
          \/ /\ wire # <<>> /\ wire' = Tail(wire)
             /\ IsActionAllowed(RoleOf[Head(wire).by], Head(wire).cmd) ]_system

\* An emergency stop that has been published comes into effect in the plant,
\* whatever became of its terminal and session and whatever was sent before
\* it, unless the bus or the controller fails.
EstopOnItsWay(n) == \E i \in DOMAIN wire : wire[i].call = n /\ wire[i].cmd = "estop"
EstopTakesEffect ==
    \A n \in 1..MaxCalls :
        EstopOnItsWay(n) ~> (operating_state = "EMERGENCY" \/ faults # 0)
=============================================================================
