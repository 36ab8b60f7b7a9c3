--------------------------- MODULE TestbedProofs ---------------------------
(***************************************************************************)
(* The end-to-end promise of Testbed about EMERGENCY, for any number of    *)
(* clients, people, calls and faults, and that the command path keeps its  *)
(* own promise within the system.                                          *)
(*                                                                         *)
(* A step of the system is a step of the command path or leaves it alone,  *)
(* so what is proved of every published message holds here.  The one fact  *)
(* added is that nothing but a published message is ever on the wire.      *)
(***************************************************************************)
EXTENDS Testbed, CommandGatewayProofs

WireInv ==
    /\ wire \in Seq(published)
    /\ faults \in Nat

\* A step of the system is a step of the command path, or leaves it alone.
LEMMA SystemStepsGateway == [SystemNext]_system => [Next]_vars
<1> SUFFICES ASSUME [SystemNext]_system PROVE [Next]_vars
  OBVIOUS
<1>1. ASSUME NEW c \in Clients, Send(c) PROVE Next
  BY <1>1 DEF Send, Next, Step
<1>2. CASE Elsewhere
  BY <1>2 DEF Elsewhere
<1>3. CASE Deliver \/ Stop \/ Physics \/ Lose \/ Restart
  BY <1>3 DEF Deliver, Stop, Physics, Lose, Restart
<1>4. CASE UNCHANGED system
  BY <1>4 DEF system
<1> QED
  BY <1>1, <1>2, <1>3, <1>4 DEF SystemNext

\* The handler of one message writes the mode at once for two commands only.
LEMMA ObeyWritesMode ==
  ASSUME NEW m, Obey(m)
  PROVE  operating_state' # operating_state => m.cmd \in {"reset", "maintenance"}
<1>1. CASE m.cmd \in {"reset", "maintenance"}
  BY <1>1
<1>2. CASE m.cmd = "estop"
  BY <1>2 DEF Obey, Mode!BeginStop
<1>3. CASE m.cmd \notin {"reset", "maintenance", "estop"}
  BY <1>3 DEF Obey, Mode!Position
<1> QED
  BY <1>1, <1>2, <1>3

\* Only what has been published is put on the wire, and nothing comes back.
LEMMA WireStep == WireInv /\ [SystemNext]_system => WireInv'
<1> SUFFICES ASSUME WireInv, [SystemNext]_system PROVE WireInv'
  OBVIOUS
<1> USE DEF WireInv
<1>1. ASSUME NEW c \in Clients, Send(c) PROVE WireInv'
  <2>1. CASE c \in Attached
    <3>1. /\ published' = published \cup {Message(c, client[c].session)}
          /\ wire' = Append(wire, Message(c, client[c].session))
          /\ faults' = faults
      BY <1>1, <2>1 DEF Send, Publish
    <3>2. wire \in Seq(published')
      BY <3>1
    <3> QED
      BY <3>1, <3>2
  <2>2. CASE c \notin Attached
    BY <1>1, <2>2 DEF Send, Publish
  <2> QED
    BY <2>1, <2>2
<1>2. CASE Elsewhere
  BY <1>2 DEF Elsewhere
<1>3. CASE Deliver \/ Lose
  <2>1. /\ wire # <<>> /\ wire' = Tail(wire) /\ published' = published
        /\ faults' \in Nat
    BY <1>3 DEF Deliver, Lose, Fault, vars
  <2> QED
    BY <2>1
<1>4. CASE Stop \/ Physics
  BY <1>4 DEF Stop, Physics, vars
<1>5. CASE Restart
  BY <1>5 DEF Restart, Fault, vars
<1>6. CASE UNCHANGED system
  BY <1>6 DEF system, vars
<1> QED
  BY <1>1, <1>2, <1>3, <1>4, <1>5, <1>6 DEF SystemNext

\* The composed system keeps the promise of the command path: whatever the
\* plant and the bus do, what is published and recorded is a behaviour of ReferenceMonitor.
THEOREM SystemImplementsMonitor == System => ImplementsMonitor
<1>1. SystemInit => Init
  BY DEF SystemInit, Init
<1>2. System => []Inv
  BY <1>1, SystemStepsGateway, Safety, PTL DEF System
<1>3. Inv /\ [SystemNext]_system => [Monitor!Next]_(Monitor!vars)
  BY SystemStepsGateway, MonitorSteps
<1> QED
  BY <1>1, <1>2, <1>3, MonitorBegins, PTL DEF System, ImplementsMonitor, Monitor!Spec

\* From the terminal to the plant: who ends an EMERGENCY that the state
\* machine has respected has the capability in his own role, or there was a
\* fault.
THEOREM EmergencyIsEndedByEntitled == System => EmergencyEndedByEntitled
<1>1. SystemInit => Init /\ WireInv
  BY DEF SystemInit, Init, WireInv
<1>2. System => [](Inv /\ WireInv)
  BY <1>1, SystemStepsGateway, WireStep, Safety, PTL DEF System
<1>3. Inv /\ WireInv /\ [SystemNext]_system =>
        [ operating_state = "EMERGENCY" /\ operating_state' # "EMERGENCY" =>
          \/ faults' # faults
          \/ latched = None /\ wire' = wire
          \/ /\ wire # <<>> /\ wire' = Tail(wire)
             /\ IsActionAllowed(RoleOf[Head(wire).by], Head(wire).cmd) ]_system
  <2> SUFFICES ASSUME Inv, WireInv, SystemNext, operating_state = "EMERGENCY",
                      operating_state' # "EMERGENCY"
               PROVE  \/ faults' # faults
                      \/ latched = None /\ wire' = wire
                      \/ /\ wire # <<>> /\ wire' = Tail(wire)
                         /\ IsActionAllowed(RoleOf[Head(wire).by], Head(wire).cmd)
    OBVIOUS
  <2>1. CASE Deliver
    <3>1. wire # <<>> /\ wire' = Tail(wire) /\ Head(wire) \in published
      BY <2>1 DEF Deliver, WireInv
    <3>2. Head(wire).cmd \in {"reset", "maintenance"}
      BY <2>1, ObeyWritesMode DEF Deliver
    <3> QED
      BY <3>1, <3>2, PrivilegesOwned DEF PrivilegedOnlyByOwner
  <2>2. CASE Physics
    BY <2>2 DEF Physics, Mode!Look, Mode!Derive
  <2>3. CASE Restart \/ Lose
    BY <2>3 DEF Restart, Lose, Fault, WireInv
  <2>4. CASE Stop
    BY <2>4 DEF Stop, Mode!MakeSafe, Mode!EndStop
  <2>5. CASE (\E c \in Clients : Send(c)) \/ Elsewhere
    BY <2>5 DEF Send, Elsewhere, plant
  <2> QED
    BY <2>1, <2>2, <2>3, <2>4, <2>5 DEF SystemNext
<1> QED
  BY <1>2, <1>3, PTL DEF System, EmergencyEndedByEntitled
=============================================================================
