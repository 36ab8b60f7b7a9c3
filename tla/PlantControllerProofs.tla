----------------------- MODULE PlantControllerProofs -----------------------
(***************************************************************************)
(* Safety of PlantController for every grid, every set of payloads and     *)
(* every interleaving, proved from TankAssumption and                      *)
(* ControllerAssumption.                                                   *)
(*                                                                         *)
(* The properties are not inductive: they speak of what a reader sees (the *)
(* message, the row, the mode), and hold because of what each thread knows *)
(* at the point its program counter has reached.  The invariants below     *)
(* state that knowledge, one for each concern.                             *)
(***************************************************************************)
EXTENDS PlantController, TLAPS

\* The physics thread reaches its assignment only from a check that found no
\* latching mode, and no command has latched one that a check has since seen.
LatchInv ==
    /\ phys.pc = "assign" => latched = None
    /\ LatchHeld

\* From the end of update_state_machine to the publication, the mode that
\* will be broadcast is explained by the sample in hand.
ExplainedInv ==
    /\ phys.pc = "build" =>
          Explained(operating_state, phys.level, phys.over, released)
    /\ phys.pc = "publish" =>
          Explained(phys.mode, phys.level, phys.over, phys.released)
    /\ BroadcastModeExplained

\* What the emergency-stop handler has done so far.
EstopInv ==
    /\ net.pc \in {"estop_valve", "estop_mode"} => pump.target = 0
    /\ net.pc = "estop_mode" => valve.target = Full

\* Between the message and its row the mode changes by a command only.
RowInv ==
    /\ phys.pc \in {"publish", "log"} =>
          LET told == IF phys.pc = "publish" THEN phys.mode ELSE telemetry.mode
          IN  operating_state # told =>
                 operating_state \in Latching
                 \/ (operating_state = "RUNNING" /\ released)

\* Where the sample of this iteration is, from its measurement to its row.
LogInv ==
    /\ phys.pc \in {"check", "assign", "build", "publish", "log"} => seq # 0
    /\ phys.pc = "log" => telemetry.seq = seq
    /\ LoggedEverySample

-----------------------------------------------------------------------------
\* A commanded position is a position, whatever number was sent.
LEMMA TargetInRange == \A x \in Int : Target(x) \in Pct
  BY TankAssumption DEF Target, Clip, Pct

LEMMA FullIsPct == 0 \in Pct /\ Full \in Pct
  BY TankAssumption DEF Pct

\* The ladder of update_state_machine gives a mode, never a latching one.
LEMMA AutoModeRange ==
    \A m, o : AutoMode(m, o) \in Modes \ Latching
  BY DEF AutoMode, Modes, Latching

\* What a new process starts with has the right types.
LEMMA FreshTypes ==
    /\ [target |-> 0, actual |-> 0] \in [target : Pct, actual : Pct]
    /\ InitLevel \in Level /\ 0 \in Level
    /\ 0 \in 0..SeqBound
    /\ "RUNNING" \in Modes
    /\ None \in Modes \cup {None} /\ None \in Latching \cup {None}
    /\ FALSE \in BOOLEAN
  BY FullIsPct, TankAssumption, ControllerAssumption DEF Level, Modes

\* The initial state of a first process is well typed.
LEMMA InitTypeOK == Init => TypeOK
<1> SUFFICES ASSUME Init PROVE TypeOK
  OBVIOUS
<1>1. /\ operating_state \in Modes /\ level \in Level /\ seq \in 0..SeqBound
      /\ pump \in [target : Pct, actual : Pct]
      /\ valve \in [target : Pct, actual : Pct]
      /\ setpoint \in Int \cup {NoSetpoint}
      /\ released \in BOOLEAN /\ latched \in Latching \cup {None}
  BY FreshTypes DEF Init, Fresh
<1>2. /\ phys \in [pc : {"pump", "valve", "check", "assign", "build", "publish",
                         "log", "dead"},
                   level : Level, over : BOOLEAN, mode : Modes \cup {None},
                   released : BOOLEAN]
      /\ net \in [pc : {"idle", "estop_valve", "estop_mode", "ack", "raised"},
                  status : {None, "accepted", "rejected"}]
  BY FreshTypes DEF Init, PhysAt, NetAt
<1>3. /\ telemetry \in [seq : 0..SeqBound, level : Level, over : BOOLEAN,
                        mode : Modes \cup {None}, released : BOOLEAN]
      /\ row \in [seq : 0..SeqBound, mode : Modes \cup {None}]
  BY FreshTypes DEF Init, NoMessage
<1> QED
  BY <1>1, <1>2, <1>3 DEF TypeOK

\* Both threads, failures and restarts keep every variable's type.
LEMMA TypeStep == TypeOK /\ [Next]_vars => TypeOK'
<1> SUFFICES ASSUME TypeOK, [Next]_vars PROVE TypeOK'
  OBVIOUS
<1> USE FullIsPct, TankAssumption, ControllerAssumption DEF TypeOK
<1> DEFINE Control == [pc : {"pump", "valve", "check", "assign", "build",
                             "publish", "log", "dead"},
                       level : Level, over : BOOLEAN, mode : Modes \cup {None},
                       released : BOOLEAN]
<1>0. /\ 0 \in Level
      /\ \A pc \in {"pump", "valve", "log", "dead"} : PhysAt(pc) \in Control
      /\ NoMessage \in [seq : 0..SeqBound, level : Level, over : BOOLEAN,
                        mode : Modes \cup {None}, released : BOOLEAN]
  BY DEF Level, PhysAt, NoMessage, None
<1>1. CASE PumpUpdate
  BY <1>0, <1>1 DEF PumpUpdate, LagStep, history
<1>2. CASE ValveAndMeasure
  <2>1. PICK a \in LagStep(valve.actual, valve.target) :
           /\ valve' = [valve EXCEPT !.actual = a]
           /\ level' \in FlowStep(level, pump.actual, a)
    BY <1>2 DEF ValveAndMeasure
  <2>2. valve' \in [target : Pct, actual : Pct] /\ level' \in Level
    BY <2>1 DEF LagStep, FlowStep
  <2>3. PICK m \in Readings(level') : \E o \in OverPressure(m) :
           phys' = [PhysAt("check") EXCEPT !.level = m, !.over = o]
    BY <1>2 DEF ValveAndMeasure
  <2>4. m \in Level /\ OverPressure(m) \subseteq BOOLEAN
    BY DEF Readings, OverPressure
  <2>5. phys' \in Control
    BY <2>3, <2>4, <1>0 DEF PhysAt
  <2>6. seq' \in 0..SeqBound
    BY <1>2 DEF ValveAndMeasure
  <2> QED
    BY <1>2, <2>2, <2>5, <2>6 DEF ValveAndMeasure, history
<1>3. CASE CheckMode
  BY <1>3 DEF CheckMode, process, None, Latching
<1>4. CASE AssignMode
  BY <1>4, AutoModeRange DEF AssignMode, actuators, history
<1>5. CASE BuildTelemetry
  BY <1>5 DEF BuildTelemetry, process, history
<1>6. CASE PublishTelemetry
  BY <1>0, <1>6 DEF PublishTelemetry, process, history
<1>7. CASE LogTelemetry
  BY <1>0, <1>7 DEF LogTelemetry, process, history
<1>8. CASE LogFails \/ Interrupt
  BY <1>0, <1>8 DEF LogFails, Interrupt, EndLoop, process, history
<1>9. CASE Kill \/ Restart
  <2>1. /\ operating_state' \in Modes /\ level' \in Level /\ seq' \in 0..SeqBound
        /\ pump' \in [target : Pct, actual : Pct]
        /\ valve' \in [target : Pct, actual : Pct]
        /\ setpoint' \in Int \cup {NoSetpoint}
        /\ released' \in BOOLEAN /\ latched' \in Latching \cup {None}
    BY <1>9, FreshTypes DEF Kill, Restart, NewProcess, Fresh
  <2>2. /\ net' \in [pc : {"idle", "estop_valve", "estop_mode", "ack", "raised"},
                     status : {None, "accepted", "rejected"}]
        /\ phys' \in Control
    BY <1>9, <1>0 DEF Kill, Restart, EndLoop, NetAt
  <2>3. UNCHANGED telemetry \/ telemetry' = NoMessage
    BY <1>9 DEF Kill, Restart, EndLoop
  <2>4. UNCHANGED row
    BY <1>9 DEF Kill, Restart
  <2> QED
    BY <1>0, <2>1, <2>2, <2>3, <2>4
<1>10. ASSUME NEW p \in Payloads, SetPump(p) \/ SetValve(p) PROVE TypeOK'
  BY <1>10, TargetInRange DEF SetPump, SetValve, Answer, history
<1>11. ASSUME NEW p \in Payloads, SetSetpoint(p) PROVE TypeOK'
  BY <1>11 DEF SetSetpoint, Answer, actuators, history
<1>12. ASSUME NEW p \in Payloads, Maintenance(p) \/ Reset(p) PROVE TypeOK'
  <2>1. operating_state' \in Modes /\ latched' = None /\ released' \in BOOLEAN
    BY <1>12 DEF Maintenance, Reset, SetMode, Modes
  <2> QED
    BY <1>12, <2>1 DEF Maintenance, Reset, Answer, actuators
<1>13. ASSUME NEW p \in Payloads, HandlerRaises(p) \/ Reject(p) PROVE TypeOK'
  BY <1>13 DEF HandlerRaises, Reject, NetAt, Answer, process, history
<1>14. ASSUME NEW p \in Payloads, EstopPump(p) PROVE TypeOK'
  BY <1>14 DEF EstopPump, NetAt, history
<1>15. CASE EstopValve
  BY <1>15 DEF EstopValve, NetAt, history
<1>16. CASE EstopMode
  BY <1>16 DEF EstopMode, SetMode, Answer, actuators, Modes
<1>17. CASE PublishAck \/ SwallowException
  BY <1>17 DEF PublishAck, SwallowException, NetAt, process, history
<1>18. CASE UNCHANGED vars
  BY <1>18 DEF vars, process, history
<1> QED
  BY <1>1, <1>2, <1>3, <1>4, <1>5, <1>6, <1>7, <1>8, <1>9, <1>10, <1>11, <1>12,
     <1>13, <1>14, <1>15, <1>16, <1>17, <1>18
  DEF Next, Physics, Command, Handler, Failure

-----------------------------------------------------------------------------
(* Each invariant is preserved by every step.  The steps that change nothing *)
(* it mentions are taken together.                                           *)

\* A measured sample goes to the state machine next.
LEMMA MeasureControl == ValveAndMeasure => phys'.pc = "check" /\ UNCHANGED telemetry
<1> SUFFICES ASSUME ValveAndMeasure PROVE phys'.pc = "check" /\ UNCHANGED telemetry
  OBVIOUS
<1>1. PICK m \in Readings(level'), o \in BOOLEAN :
         phys' = [PhysAt("check") EXCEPT !.level = m, !.over = o]
  BY DEF ValveAndMeasure, OverPressure
<1> QED
  BY <1>1 DEF PhysAt, ValveAndMeasure

\* What a check has respected, no step of the physics thread overwrites.
LEMMA LatchStep == TypeOK /\ LatchInv /\ [Next]_vars => LatchInv'
<1> SUFFICES ASSUME TypeOK, LatchInv, [Next]_vars PROVE LatchInv'
  OBVIOUS
<1> USE DEF LatchInv, LatchHeld
<1>1. CASE CheckMode
  BY <1>1 DEF CheckMode, process, TypeOK, Latching, None
<1>2. CASE AssignMode
  BY <1>2 DEF AssignMode, history, TypeOK
<1>3. CASE Kill \/ Restart
  BY <1>3 DEF Kill, Restart, EndLoop, NewProcess, Fresh, PhysAt, None
<1>4. CASE EstopMode \/ \E p \in Payloads : Maintenance(p) \/ Reset(p)
  BY <1>4 DEF EstopMode, Maintenance, Reset, SetMode, None
<1>5. ASSUME UNCHANGED <<operating_state, latched>>, phys'.pc # "assign"
      PROVE LatchInv'
  BY <1>5
<1>6. ASSUME UNCHANGED <<operating_state, latched, phys>>
      PROVE LatchInv'
  BY <1>6
<1>7. CASE PumpUpdate \/ ValveAndMeasure
  <2>1. UNCHANGED <<operating_state, latched>>
    BY <1>7 DEF PumpUpdate, ValveAndMeasure, history
  <2>2. phys'.pc # "assign"
    BY <1>7, MeasureControl DEF PumpUpdate, PhysAt
  <2> QED
    BY <1>5, <2>1, <2>2
<1>8. CASE BuildTelemetry \/ PublishTelemetry \/ LogTelemetry
  <2>1. UNCHANGED <<operating_state, latched>>
    BY <1>8 DEF BuildTelemetry, PublishTelemetry, LogTelemetry, process, history
  <2>2. phys'.pc # "assign"
    <3>1. BuildTelemetry => phys'.pc = "publish"
      BY DEF BuildTelemetry, TypeOK
    <3>2. PublishTelemetry \/ LogTelemetry => phys'.pc \in {"log", "pump"}
      BY DEF PublishTelemetry, LogTelemetry, PhysAt
    <3> QED
      BY <1>8, <3>1, <3>2
  <2> QED
    BY <1>5, <2>1, <2>2
<1>9. CASE LogFails \/ Interrupt
  BY <1>5, <1>9 DEF LogFails, Interrupt, EndLoop, PhysAt, process, history
<1>10. ASSUME NEW p \in Payloads,
              SetPump(p) \/ SetValve(p) \/ SetSetpoint(p) \/ HandlerRaises(p)
              \/ Reject(p) \/ EstopPump(p)
       PROVE LatchInv'
  BY <1>6, <1>10 DEF SetPump, SetValve, SetSetpoint, HandlerRaises, Reject,
     EstopPump, process, history
<1>11. CASE EstopValve \/ PublishAck \/ SwallowException \/ UNCHANGED vars
  BY <1>6, <1>11 DEF EstopValve, PublishAck, SwallowException, vars, process,
     history
<1> QED
  BY <1>1, <1>2, <1>3, <1>4, <1>7, <1>8, <1>9, <1>10, <1>11
  DEF Next, Physics, Command, Handler, Failure

\* From the ladder to the bus, a mode stays explained by its sample.
LEMMA ExplainedStep == TypeOK /\ ExplainedInv /\ [Next]_vars => ExplainedInv'
<1> SUFFICES ASSUME TypeOK, ExplainedInv, [Next]_vars PROVE ExplainedInv'
  OBVIOUS
<1> USE DEF ExplainedInv, BroadcastModeExplained
<1>1. CASE CheckMode
  BY <1>1 DEF CheckMode, Explained, process, TypeOK
<1>2. CASE AssignMode
  BY <1>2 DEF AssignMode, Explained, history, TypeOK
<1>3. CASE BuildTelemetry
  BY <1>3 DEF BuildTelemetry, process, history, TypeOK
<1>4. CASE PublishTelemetry
  BY <1>4 DEF PublishTelemetry, PhysAt, TypeOK
<1>5. CASE EstopMode \/ \E p \in Payloads : Maintenance(p) \/ Reset(p)
  <2>1. operating_state' \in Latching \/ (operating_state' = "RUNNING" /\ released')
    BY <1>5 DEF EstopMode, Maintenance, Reset, SetMode, Latching
  <2>2. UNCHANGED <<phys, telemetry>>
    BY <1>5 DEF EstopMode, Maintenance, Reset
  <2> QED
    BY <2>1, <2>2 DEF Explained
<1>6. ASSUME phys'.pc \notin {"build", "publish"},
             UNCHANGED telemetry \/ telemetry' = NoMessage
      PROVE ExplainedInv'
  BY <1>6 DEF NoMessage
<1>7. ASSUME UNCHANGED <<operating_state, phys, telemetry, released>>
      PROVE ExplainedInv'
  BY <1>7
<1>8. CASE PumpUpdate \/ ValveAndMeasure
  BY <1>6, <1>8, MeasureControl DEF PumpUpdate, PhysAt
<1>9. CASE LogTelemetry \/ Failure
  BY <1>6, <1>9 DEF LogTelemetry, Failure, LogFails, Interrupt, Kill, Restart,
     EndLoop, PhysAt
<1>10. ASSUME NEW p \in Payloads,
              SetPump(p) \/ SetValve(p) \/ SetSetpoint(p) \/ HandlerRaises(p)
              \/ Reject(p) \/ EstopPump(p)
       PROVE ExplainedInv'
  BY <1>7, <1>10 DEF SetPump, SetValve, SetSetpoint, HandlerRaises, Reject,
     EstopPump, process, history
<1>11. CASE EstopValve \/ PublishAck \/ SwallowException \/ UNCHANGED vars
  BY <1>7, <1>11 DEF EstopValve, PublishAck, SwallowException, vars, process,
     history
<1> QED
  BY <1>1, <1>2, <1>3, <1>4, <1>5, <1>8, <1>9, <1>10, <1>11
  DEF Next, Physics, Command, Handler

\* Only a command changes the mode between the message and its row.
LEMMA RowStep == TypeOK /\ RowInv /\ [Next]_vars => RowInv'
<1> SUFFICES ASSUME TypeOK, RowInv, [Next]_vars PROVE RowInv'
  OBVIOUS
<1> USE DEF RowInv
<1>1. ASSUME phys'.pc \notin {"publish", "log"} PROVE RowInv'
  BY <1>1
<1>2. ASSUME UNCHANGED <<operating_state, phys, telemetry, released>>
      PROVE RowInv'
  BY <1>2
<1>3. CASE BuildTelemetry
  BY <1>3 DEF BuildTelemetry, process, history, TypeOK
<1>4. CASE PublishTelemetry
  BY <1>4 DEF PublishTelemetry, PhysAt, process, history, TypeOK
<1>5. CASE EstopMode \/ \E p \in Payloads : Maintenance(p) \/ Reset(p)
  <2>1. operating_state' \in Latching \/ (operating_state' = "RUNNING" /\ released')
    BY <1>5 DEF EstopMode, Maintenance, Reset, SetMode, Latching
  <2> QED
    BY <2>1
<1>6. CASE PumpUpdate \/ ValveAndMeasure \/ CheckMode \/ AssignMode
           \/ LogTelemetry \/ Failure
  <2>1. PumpUpdate \/ LogTelemetry => phys'.pc \in {"valve", "pump"}
    BY DEF PumpUpdate, LogTelemetry, PhysAt
  <2>2. CheckMode \/ AssignMode => phys'.pc \in {"build", "assign"}
    BY DEF CheckMode, AssignMode, TypeOK
  <2>3. Failure => phys'.pc \in {"dead", "pump"}
    BY DEF Failure, LogFails, Interrupt, Kill, Restart, EndLoop, PhysAt
  <2> QED
    BY <1>1, <1>6, <2>1, <2>2, <2>3, MeasureControl
<1>7. ASSUME NEW p \in Payloads,
              SetPump(p) \/ SetValve(p) \/ SetSetpoint(p) \/ HandlerRaises(p)
              \/ Reject(p) \/ EstopPump(p)
       PROVE RowInv'
  BY <1>2, <1>7 DEF SetPump, SetValve, SetSetpoint, HandlerRaises, Reject,
     EstopPump, process, history
<1>8. CASE EstopValve \/ PublishAck \/ SwallowException \/ UNCHANGED vars
  BY <1>2, <1>8 DEF EstopValve, PublishAck, SwallowException, vars, process,
     history
<1> QED
  BY <1>3, <1>4, <1>5, <1>6, <1>7, <1>8 DEF Next, Physics, Command, Handler

\* The targets the estop handler has set stay set until it has finished.
LEMMA EstopStep == TypeOK /\ EstopInv /\ [Next]_vars => EstopInv'
<1> SUFFICES ASSUME TypeOK, EstopInv, [Next]_vars PROVE EstopInv'
  OBVIOUS
<1> USE DEF EstopInv
<1>1. ASSUME net'.pc \notin {"estop_valve", "estop_mode"} PROVE EstopInv'
  BY <1>1
<1>2. ASSUME UNCHANGED net, pump'.target = pump.target,
             valve'.target = valve.target
      PROVE EstopInv'
  BY <1>2
<1>3. CASE PumpUpdate
  BY <1>2, <1>3 DEF PumpUpdate, TypeOK
<1>4. CASE ValveAndMeasure
  BY <1>2, <1>4 DEF ValveAndMeasure, TypeOK
<1>5. CASE CheckMode \/ AssignMode \/ BuildTelemetry \/ PublishTelemetry
           \/ LogTelemetry \/ LogFails \/ Interrupt \/ UNCHANGED vars
  BY <1>2, <1>5 DEF CheckMode, AssignMode, BuildTelemetry, PublishTelemetry,
     LogTelemetry, LogFails, Interrupt, process, actuators, vars
<1>6. CASE Kill \/ Restart
  BY <1>1, <1>6 DEF Kill, Restart, NetAt
<1>7. ASSUME NEW p \in Payloads, Command(p), ~ EstopPump(p) PROVE EstopInv'
  BY <1>1, <1>7 DEF Command, SetPump, SetValve, SetSetpoint, HandlerRaises,
     Maintenance, Reset, Reject, Answer, NetAt
<1>8. ASSUME NEW p \in Payloads, EstopPump(p) PROVE EstopInv'
  BY <1>8 DEF EstopPump, NetAt, TypeOK
<1>9. CASE EstopValve
  BY <1>9 DEF EstopValve, NetAt, TypeOK
<1>10. CASE EstopMode \/ PublishAck \/ SwallowException
  BY <1>1, <1>10 DEF EstopMode, PublishAck, SwallowException, Answer, NetAt
<1> QED
  BY <1>3, <1>4, <1>5, <1>6, <1>7, <1>8, <1>9, <1>10
  DEF Next, Physics, Handler, Failure

\* The number of the sample in hand is not changed before its row is written.
LEMMA LogStep == TypeOK /\ LogInv /\ [Next]_vars => LogInv'
<1> SUFFICES ASSUME TypeOK, LogInv, [Next]_vars PROVE LogInv'
  OBVIOUS
<1> USE DEF LogInv, LoggedEverySample
<1>1. ASSUME UNCHANGED <<seq, phys, telemetry, row>> PROVE LogInv'
  BY <1>1
<1>2. CASE PumpUpdate
  BY <1>2 DEF PumpUpdate, PhysAt
<1>3. CASE ValveAndMeasure
  <2>1. phys'.pc = "check"
    BY <1>3, MeasureControl
  <2>2. seq' # 0
    BY <1>3, ControllerAssumption DEF ValveAndMeasure, TypeOK
  <2> QED
    BY <2>1, <2>2
<1>4. CASE CheckMode \/ AssignMode \/ BuildTelemetry
  BY <1>4 DEF CheckMode, AssignMode, BuildTelemetry, process, TypeOK
<1>5. CASE PublishTelemetry
  BY <1>5 DEF PublishTelemetry, PhysAt, process
<1>6. CASE LogTelemetry
  BY <1>6 DEF LogTelemetry, PhysAt, process
<1>7. CASE LogFails \/ Interrupt \/ Kill
  BY <1>7 DEF LogFails, Interrupt, Kill, EndLoop, PhysAt
<1>8. CASE Restart
  BY <1>8 DEF Restart, NewProcess, Fresh, PhysAt
<1>9. ASSUME NEW p \in Payloads, Command(p) PROVE LogInv'
  BY <1>1, <1>9 DEF Command, SetPump, SetValve, SetSetpoint, HandlerRaises,
     Maintenance, Reset, Reject, EstopPump, process
<1>10. CASE Handler \/ UNCHANGED vars
  BY <1>1, <1>10 DEF Handler, EstopValve, EstopMode, PublishAck,
     SwallowException, process, vars
<1> QED
  BY <1>2, <1>3, <1>4, <1>5, <1>6, <1>7, <1>8, <1>9, <1>10
  DEF Next, Physics, Failure

-----------------------------------------------------------------------------
(* The theorems *)

Inv == TypeOK /\ LatchInv /\ ExplainedInv /\ RowInv /\ EstopInv /\ LogInv

\* The inductive invariant holds of every behaviour.
THEOREM Invariance == Spec => []Inv
<1>1. Init => Inv
  BY InitTypeOK
  DEF Init, Fresh, Inv, LatchInv, LatchHeld, ExplainedInv, RowInv, EstopInv, LogInv,
      LoggedEverySample, BroadcastModeExplained, PhysAt, NetAt, NoMessage, None
<1>2. Inv /\ [Next]_vars => Inv'
  BY TypeStep, LatchStep, ExplainedStep, RowStep, EstopStep, LogStep DEF Inv
<1> QED
  BY <1>1, <1>2, PTL DEF Spec

\* Every variable keeps its type: no interleaving of the two threads leads to
\* a mode, a position or a program counter the code does not give it.
THEOREM TypeCorrect == Spec => []TypeOK
  BY Invariance, PTL DEF Inv

\* A mode on the bus is explained by the sample it is broadcast with.
THEOREM BroadcastExplained == Spec => []BroadcastModeExplained
  BY Invariance, PTL DEF Inv, ExplainedInv

\* A latching mode that one check has respected is not lost to the physics
\* thread.
THEOREM LatchSafe == Spec => []LatchHeld
  BY Invariance, PTL DEF Inv, LatchInv

\* Every sample reaches the database before the next one is computed.
THEOREM EverySampleLogged == Spec => []LoggedEverySample
  BY Invariance, PTL DEF Inv, LogInv

\* EMERGENCY is announced only with both actuators commanded to safety.
THEOREM EstopIsSafeFirst == Spec => EstopSafeFirst
<1>1. Inv /\ [Next]_vars =>
        [ operating_state # "EMERGENCY" /\ operating_state' = "EMERGENCY"
          => pump.target = 0 /\ valve.target = Full ]_vars
  <2> SUFFICES ASSUME Inv, Next, operating_state # "EMERGENCY",
                      operating_state' = "EMERGENCY"
               PROVE pump.target = 0 /\ valve.target = Full
    OBVIOUS
  <2>1. CASE EstopMode
    BY <2>1 DEF EstopMode, Inv, EstopInv
  <2>2. CASE AssignMode
    BY <2>2, AutoModeRange DEF AssignMode, Latching
  <2>3. CASE Kill \/ Restart
    BY <2>3 DEF Kill, Restart, NewProcess, Fresh
  <2>4. ASSUME NEW p \in Payloads, Maintenance(p) \/ Reset(p) PROVE FALSE
    BY <2>4 DEF Maintenance, Reset, SetMode
  <2>5. ASSUME NEW p \in Payloads, Command(p), ~(Maintenance(p) \/ Reset(p))
        PROVE UNCHANGED operating_state
    BY <2>5 DEF Command, SetPump, SetValve, SetSetpoint, HandlerRaises, Reject,
       EstopPump, process
  <2>6. ASSUME Physics \/ Handler \/ LogFails \/ Interrupt, ~ AssignMode,
               ~ EstopMode
        PROVE UNCHANGED operating_state
    BY <2>6 DEF Physics, Handler, PumpUpdate, ValveAndMeasure, CheckMode,
       BuildTelemetry, PublishTelemetry, LogTelemetry, EstopValve, PublishAck,
       SwallowException, LogFails, Interrupt, process
  <2> QED
    BY <2>1, <2>2, <2>3, <2>4, <2>5, <2>6 DEF Next, Failure
<1> QED
  BY Invariance, <1>1, PTL DEF Spec, EstopSafeFirst

\* The row of a sample has the mode that was broadcast, or that of a command
\* handled since.
THEOREM RowModeIsExplained == Spec => RowModeExplained
<1>1. Inv /\ [Next]_vars =>
        [ row' # row /\ row'.mode # telemetry.mode
          => row'.mode \in Latching \/ (row'.mode = "RUNNING" /\ released) ]_vars
  <2> SUFFICES ASSUME Inv, Next, row' # row, row'.mode # telemetry.mode
               PROVE row'.mode \in Latching \/ (row'.mode = "RUNNING" /\ released)
    OBVIOUS
  <2>1. CASE LogTelemetry
    BY <2>1 DEF LogTelemetry, Inv, RowInv
  <2>2. ~ LogTelemetry => UNCHANGED row
    BY DEF Next, Physics, Command, Handler, Failure, PumpUpdate, ValveAndMeasure,
       CheckMode, AssignMode, BuildTelemetry, PublishTelemetry, SetPump,
       SetValve, SetSetpoint, HandlerRaises, Maintenance, Reset, Reject,
       EstopPump, EstopValve, EstopMode, PublishAck, SwallowException, LogFails,
       Interrupt, Kill, Restart
  <2> QED
    BY <2>1, <2>2
<1> QED
  BY Invariance, <1>1, PTL DEF Spec, RowModeExplained

-----------------------------------------------------------------------------
(* The controller implements OperatingMode *)

\* Every step of the two threads, and every failure, is a step of
\* OperatingMode or leaves its variables alone.
THEOREM ControllerImplementsMode == Spec => ImplementsMode
<1>1. Init => Mode!Init
  <2>1. Init => pump.target # Full
    BY TankAssumption DEF Init, Fresh
  <2>2. Init => valve.target # Full
    BY TankAssumption DEF Init, Fresh
  <2> QED
    BY <2>2 DEF Init, Fresh, NetAt, Mode!Init
<1>2. Inv /\ [Next]_vars => [Mode!Next]_(Mode!vars)
  <2> SUFFICES ASSUME Inv, [Next]_vars PROVE Mode!Next \/ UNCHANGED Mode!vars
    OBVIOUS
  <2> DEFINE Stopping == net.pc \in {"estop_valve", "estop_mode"}
             Safe == pump.target = 0 /\ valve.target = Full
  <2>0. Latching = {"MAINTENANCE", "EMERGENCY"} /\ Mode!Latching = Latching
        /\ Mode!Derived = {"RUNNING", "WARNING", "FAULT"}
        /\ TypeOK
    BY DEF Latching, Mode!Latching, Mode!Derived, Inv
  <2>1. CASE CheckMode
    <3>1. latched' = IF operating_state \in Latching THEN operating_state ELSE None
      BY <2>1 DEF CheckMode
    <3>2. UNCHANGED <<operating_state, Stopping, Safe>>
      BY <2>1 DEF CheckMode, process
    <3>3. Mode!Look
      BY <2>0, <3>1, <3>2 DEF Mode!Look
    <3> QED
      BY <3>3 DEF Mode!Next
  <2>2. CASE AssignMode
    <3>1. latched = None /\ operating_state' \in Mode!Derived
      BY <2>0, <2>2, AutoModeRange DEF AssignMode, Inv, LatchInv, AutoMode
    <3>2. UNCHANGED <<latched, Stopping, Safe>>
      BY <2>2 DEF AssignMode, actuators, history
    <3>3. Mode!Derive
      BY <3>1, <3>2 DEF Mode!Derive
    <3> QED
      BY <3>3 DEF Mode!Next
  <2>3. ASSUME NEW p \in Payloads, Maintenance(p) \/ Reset(p) PROVE Mode!Next
    <3>1. PICK m \in {"RUNNING", "MAINTENANCE"} : operating_state' = m /\ latched' = None
      BY <2>3 DEF Maintenance, Reset, SetMode
    <3>2. ~ Stopping /\ ~ Stopping' /\ UNCHANGED Safe
      BY <2>3 DEF Maintenance, Reset, Receive, Answer, actuators
    <3>3. Mode!Order(m)
      BY <3>1, <3>2 DEF Mode!Order
    <3> QED
      BY <3>3 DEF Mode!Next
  <2>4. ASSUME NEW p \in Payloads, SetPump(p) \/ SetValve(p) PROVE Mode!Next
    <3>1. ~ Stopping /\ ~ Stopping' /\ UNCHANGED <<operating_state, latched>>
      BY <2>4 DEF SetPump, SetValve, Receive, Answer, history
    <3>2. Mode!Position
      BY <3>1 DEF Mode!Position
    <3> QED
      BY <3>2 DEF Mode!Next
  <2>5. ASSUME NEW p \in Payloads, SetSetpoint(p) \/ HandlerRaises(p) \/ Reject(p)
        PROVE UNCHANGED Mode!vars
    BY <2>5 DEF SetSetpoint, HandlerRaises, Reject, Receive, Answer, NetAt,
       process, actuators, history, Mode!vars
  <2>6. ASSUME NEW p \in Payloads, EstopPump(p) PROVE Mode!Next
    <3>1. ~ Stopping /\ Stopping' /\ UNCHANGED <<operating_state, latched>>
      BY <2>6 DEF EstopPump, Receive, NetAt, history
    <3>2. Mode!BeginStop
      BY <3>1 DEF Mode!BeginStop
    <3> QED
      BY <3>2 DEF Mode!Next
  <2>7. CASE EstopValve
    <3>1. Stopping /\ Stopping' /\ UNCHANGED <<operating_state, latched>>
      BY <2>7 DEF EstopValve, NetAt, history
    <3>2. Safe'
      BY <2>0, <2>7 DEF EstopValve, Inv, EstopInv, TypeOK
    <3>3. Mode!MakeSafe
      BY <3>1, <3>2 DEF Mode!MakeSafe
    <3> QED
      BY <3>3 DEF Mode!Next
  <2>8. CASE EstopMode
    <3>1. Stopping /\ ~ Stopping' /\ UNCHANGED Safe
      BY <2>8 DEF EstopMode, Answer, actuators
    <3>2. operating_state' = "EMERGENCY" /\ latched' = None /\ Safe
      BY <2>8 DEF EstopMode, SetMode, Inv, EstopInv
    <3>3. Mode!EndStop
      BY <3>1, <3>2 DEF Mode!EndStop
    <3> QED
      BY <3>3 DEF Mode!Next
  <2>9. CASE Kill \/ Restart
    <3>1. ~ Stopping' /\ NewProcess
      BY <2>9 DEF Kill, Restart, NetAt
    <3>2. operating_state' = "RUNNING" /\ latched' = None /\ ~ Safe'
      BY <3>1, TankAssumption DEF NewProcess, Fresh
    <3>3. Mode!StartAgain
      BY <3>1, <3>2 DEF Mode!StartAgain
    <3> QED
      BY <3>3 DEF Mode!Next
  <2>10. ASSUME \/ PumpUpdate \/ ValveAndMeasure \/ BuildTelemetry
                \/ PublishTelemetry \/ LogTelemetry \/ LogFails \/ Interrupt
                \/ PublishAck \/ SwallowException \/ UNCHANGED vars
         PROVE UNCHANGED Mode!vars
    <3>1. UNCHANGED <<operating_state, latched>>
      BY <2>10 DEF PumpUpdate, ValveAndMeasure, BuildTelemetry, PublishTelemetry,
         LogTelemetry, LogFails, Interrupt, PublishAck, SwallowException,
         process, history, vars
    <3>3. UNCHANGED Stopping
      <4>1. CASE PublishAck \/ SwallowException
        BY <4>1 DEF PublishAck, SwallowException, NetAt
      <4>2. CASE UNCHANGED net
        BY <4>2
      <4> QED
        BY <2>10, <4>1, <4>2 DEF PumpUpdate, ValveAndMeasure, BuildTelemetry,
           PublishTelemetry, LogTelemetry, LogFails, Interrupt, vars
    <3>2. UNCHANGED <<pump.target, valve.target>>
      BY <2>0, <2>10 DEF PumpUpdate, ValveAndMeasure, BuildTelemetry,
         PublishTelemetry, LogTelemetry, LogFails, Interrupt, PublishAck,
         SwallowException, process, vars, TypeOK
    <3> QED
      BY <3>1, <3>2, <3>3 DEF Mode!vars
  <2> QED
    BY <2>1, <2>2, <2>3, <2>4, <2>5, <2>6, <2>7, <2>8, <2>9, <2>10
    DEF Next, Physics, Command, Handler, Failure
<1> QED
  BY <1>1, <1>2, Invariance, PTL DEF Spec, ImplementsMode, Mode!Spec
=============================================================================
