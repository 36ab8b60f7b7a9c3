-------------------------- MODULE PlantController --------------------------
(***************************************************************************)
(* plant/controller.py: the process that simulates the tank and obeys the  *)
(* command topic.  Two threads share its state without a lock:             *)
(*   - the physics thread runs PlantController.step in the loop of main;   *)
(*   - the MQTT network thread runs on_command_received for each message.  *)
(* A step of the model is what one thread does between two accesses to     *)
(* shared state, so every interleaving the interpreter allows is a         *)
(* behaviour.  The process can be interrupted (Ctrl-C), lose its loop to a *)
(* database error, be killed at any point, and be started again.           *)
(***************************************************************************)
EXTENDS TankProcess

CONSTANTS
    Payloads,   \* the command messages that can arrive, [cmd, arg] records
    Junk,       \* an argument float() does not accept
    NoSetpoint, \* None, the setpoint of a new process
    InitLevel,  \* grid value of the initial level
    SeqBound    \* the sequence number starts again at 1 after this one

\* "other" is any string the handler does not know, "missing" no command.
\* arg is the number in value or setpoint; for maintenance, 1 stands for the
\* words that mean "on" and everything else for the words that mean "off".
CommandNames == {"pump", "valve", "setpoint", "maintenance", "estop", "reset",
                 "other", "missing"}
Args == Int \cup {Junk}

ASSUME ControllerAssumption ==
    /\ Junk \notin Int
    /\ Payloads \subseteq [cmd : CommandNames, arg : Args]
    /\ InitLevel \in Level
    /\ SeqBound \in Nat \ {0}

Modes == {"RUNNING", "WARNING", "FAULT", "MAINTENANCE", "EMERGENCY"}
Latching == {"MAINTENANCE", "EMERGENCY"}

VARIABLES
    operating_state,  \* PlantController.operating_state
    pump, valve,      \* actuators, [target, actual]
    level,            \* TankProcess.level, the true level
    setpoint,         \* TankProcess.setpoint
    seq,              \* _seq
    phys,             \* physics thread: [pc, level, over, mode, released]
    net,              \* network thread: [pc, status]
    telemetry,        \* the message published and not yet logged (t_dict)
    row,              \* last row of telemetry_logs, [seq, mode]
    released,         \* history: a command released a mode since the check
    latched           \* history: the latched mode the last check respected

process == <<operating_state, pump, valve, level, setpoint, seq>>
actuators == <<pump, valve>>
history == <<released, latched>>
vars == <<process, phys, net, telemetry, row, history>>

None == "none"
NetAt(pc) == [pc |-> pc, status |-> None]
PhysAt(pc) == [pc |-> pc, level |-> 0, over |-> FALSE, mode |-> None,
               released |-> FALSE]
NoMessage == [seq |-> 0, level |-> 0, over |-> FALSE, mode |-> None,
              released |-> FALSE]

\* update_state_machine's ladder for a reading outside the latching modes
AutoMode(measured, over) ==
    IF measured >= MaxSafe \/ measured <= MinSafe THEN "WARNING"
    ELSE IF over THEN "FAULT"
    ELSE "RUNNING"

-----------------------------------------------------------------------------
\* __init__, in a process that has just started
Fresh(state, p, v, h, sp, n, rel, lat) ==
    /\ state = "RUNNING"
    /\ p = [target |-> 0, actual |-> 0]
    /\ v = [target |-> 0, actual |-> 0]
    /\ h = InitLevel
    /\ sp = NoSetpoint
    /\ n = 0
    /\ rel = FALSE
    /\ lat = None

Init ==
    /\ Fresh(operating_state, pump, valve, level, setpoint, seq, released, latched)
    /\ phys = PhysAt("pump")
    /\ net = NetAt("idle")
    /\ telemetry = NoMessage
    /\ row = [seq |-> 0, mode |-> None]

NewProcess ==
    Fresh(operating_state', pump', valve', level', setpoint', seq', released',
          latched')

-----------------------------------------------------------------------------
(* The physics thread: PlantController.step *)

PumpUpdate ==
    /\ phys.pc = "pump"
    /\ \E a \in LagStep(pump.actual, pump.target) :
          pump' = [pump EXCEPT !.actual = a]
    /\ phys' = PhysAt("valve")
    /\ UNCHANGED <<operating_state, valve, level, setpoint, seq, net, telemetry,
                   row, history>>

\* The valve, the integration, the counters and the measurement: only the
\* valve's target is shared with the other thread.
ValveAndMeasure ==
    /\ phys.pc = "valve"
    /\ \E a \in LagStep(valve.actual, valve.target) :
          /\ valve' = [valve EXCEPT !.actual = a]
          /\ level' \in FlowStep(level, pump.actual, a)
    /\ seq' = IF seq = SeqBound THEN 1 ELSE seq + 1
    /\ \E m \in Readings(level') : \E o \in OverPressure(m) :
          phys' = [PhysAt("check") EXCEPT !.level = m, !.over = o]
    /\ UNCHANGED <<operating_state, pump, setpoint, net, telemetry, row, history>>

\* Mutant of CheckMode: every alarm is kept like the latching modes.
CheckModeKeepsAlarms ==
    /\ phys.pc = "check"
    /\ phys' = [phys EXCEPT !.pc =
                  IF operating_state = "RUNNING" THEN "assign" ELSE "build"]
    /\ latched' = IF operating_state \in Latching THEN operating_state ELSE None
    /\ released' = FALSE
    /\ UNCHANGED <<process, net, telemetry, row>>

\* Mutant of CheckMode: the early return is forgotten.
CheckModeNoReturn ==
    /\ phys.pc = "check"
    /\ phys' = [phys EXCEPT !.pc = "assign"]
    /\ latched' = IF operating_state \in Latching THEN operating_state ELSE None
    /\ released' = FALSE
    /\ UNCHANGED <<process, net, telemetry, row>>

\* Mutant of CheckMode: the early return leaves the whole step, not only
\* update_state_machine.
CheckModeLeavesStep ==
    /\ phys.pc = "check"
    /\ IF operating_state \in Latching
       THEN phys' = PhysAt("pump") /\ latched' = operating_state
       ELSE phys' = [phys EXCEPT !.pc = "assign"] /\ latched' = None
    /\ released' = FALSE
    /\ UNCHANGED <<process, net, telemetry, row>>

\* The early return of update_state_machine in the latching modes
CheckMode ==
    /\ phys.pc = "check"
    /\ IF operating_state \in Latching
       THEN phys' = [phys EXCEPT !.pc = "build"] /\ latched' = operating_state
       ELSE phys' = [phys EXCEPT !.pc = "assign"] /\ latched' = None
    /\ released' = FALSE
    /\ UNCHANGED <<process, net, telemetry, row>>

\* The assignment, which does not look at operating_state again
AssignMode ==
    /\ phys.pc = "assign"
    /\ operating_state' = AutoMode(phys.level, phys.over)
    /\ phys' = [phys EXCEPT !.pc = "build"]
    /\ UNCHANGED <<actuators, level, setpoint, seq, net, telemetry, row, history>>

\* TelemetryMessage(..., operating_mode=self.operating_state)
BuildTelemetry ==
    /\ phys.pc = "build"
    /\ phys' = [phys EXCEPT !.pc = "publish", !.mode = operating_state,
                            !.released = released]
    /\ UNCHANGED <<process, net, telemetry, row, history>>

\* publish_json on the two telemetry topics
PublishTelemetry ==
    /\ phys.pc = "publish"
    /\ telemetry' = [seq |-> seq, level |-> phys.level, over |-> phys.over,
                     mode |-> phys.mode, released |-> phys.released]
    /\ phys' = PhysAt("log")
    /\ UNCHANGED <<process, net, row, history>>

\* Mutant of LogTelemetry: the mode of the row is derived from the sample.
LogTelemetryDerives ==
    /\ phys.pc = "log"
    /\ row' = [seq |-> telemetry.seq,
               mode |-> AutoMode(telemetry.level, telemetry.over)]
    /\ telemetry' = NoMessage
    /\ phys' = PhysAt("pump")
    /\ UNCHANGED <<process, net, history>>

\* db.log_telemetry(t_dict, operating_mode=self.operating_state)
LogTelemetry ==
    /\ phys.pc = "log"
    /\ row' = [seq |-> telemetry.seq, mode |-> operating_state]
    /\ telemetry' = NoMessage
    /\ phys' = PhysAt("pump")
    /\ UNCHANGED <<process, net, history>>

EndLoop == phys' = PhysAt("dead") /\ telemetry' = NoMessage

\* Mutant of LogFails: the error is swallowed and the loop goes on.
LogFailsSwallowed ==
    /\ phys.pc = "log"
    /\ phys' = PhysAt("pump") /\ telemetry' = NoMessage
    /\ UNCHANGED <<process, net, row, history>>

\* sqlite3 raises: no except clause of main or step catches it, the loop ends
LogFails ==
    /\ phys.pc = "log"
    /\ EndLoop
    /\ UNCHANGED <<process, net, row, history>>

\* Ctrl-C reaches the main thread between any two steps
Interrupt ==
    /\ phys.pc # "dead"
    /\ EndLoop
    /\ UNCHANGED <<process, net, row, history>>

-----------------------------------------------------------------------------
(* The network thread: on_command_received.  Receive is the delivery of    *)
(* one message with the first state change its branch makes.  It can still *)
(* run after the loop has ended, until loop_stop has joined the thread.    *)

Receive(p) == net.pc = "idle" /\ p \in Payloads

Answer(status) == net' = [pc |-> "ack", status |-> status]

\* A command that writes operating_state ends what an earlier check latched.
SetMode(mode) ==
    /\ operating_state' = mode
    /\ latched' = None
    /\ released' = (released \/ mode = "RUNNING")

SetPump(p) ==
    /\ Receive(p) /\ p.cmd = "pump" /\ p.arg \in Int
    /\ pump' = [pump EXCEPT !.target = Target(p.arg)]
    /\ Answer("accepted")
    /\ UNCHANGED <<operating_state, valve, level, setpoint, seq, phys, telemetry,
                   row, history>>

SetValve(p) ==
    /\ Receive(p) /\ p.cmd = "valve" /\ p.arg \in Int
    /\ valve' = [valve EXCEPT !.target = Target(p.arg)]
    /\ Answer("accepted")
    /\ UNCHANGED <<operating_state, pump, level, setpoint, seq, phys, telemetry,
                   row, history>>

\* float() without a clip: any number is stored
SetSetpoint(p) ==
    /\ Receive(p) /\ p.cmd = "setpoint" /\ p.arg \in Int
    /\ setpoint' = p.arg
    /\ Answer("accepted")
    /\ UNCHANGED <<operating_state, actuators, level, seq, phys, telemetry, row,
                   history>>

\* float() raises, so the line that publishes the ACK is not reached
HandlerRaises(p) ==
    /\ Receive(p) /\ p.cmd \in {"pump", "valve", "setpoint"} /\ p.arg = Junk
    /\ net' = NetAt("raised")
    /\ UNCHANGED <<process, phys, telemetry, row, history>>

\* on_message of the MQTT client catches what the callback raised
SwallowException ==
    /\ net.pc = "raised"
    /\ net' = NetAt("idle")
    /\ UNCHANGED <<process, phys, telemetry, row, history>>

Maintenance(p) ==
    /\ Receive(p) /\ p.cmd = "maintenance"
    /\ SetMode(IF p.arg = 1 THEN "MAINTENANCE" ELSE "RUNNING")
    /\ Answer("accepted")
    /\ UNCHANGED <<actuators, level, setpoint, seq, phys, telemetry, row>>

Reset(p) ==
    /\ Receive(p) /\ p.cmd = "reset"
    /\ SetMode("RUNNING")
    /\ Answer("accepted")
    /\ UNCHANGED <<actuators, level, setpoint, seq, phys, telemetry, row>>

Reject(p) ==
    /\ Receive(p) /\ p.cmd \in {"other", "missing"}
    /\ Answer("rejected")
    /\ UNCHANGED <<process, phys, telemetry, row, history>>

\* Mutant of EstopPump: the mode is announced before the valve is opened.
EstopPumpModeFirst(p) ==
    /\ Receive(p) /\ p.cmd = "estop"
    /\ SetMode("EMERGENCY")
    /\ pump' = [pump EXCEPT !.target = 0]
    /\ net' = NetAt("estop_valve")
    /\ UNCHANGED <<valve, level, setpoint, seq, phys, telemetry, row>>

\* estop: the pump, then the valve, then the mode
EstopPump(p) ==
    /\ Receive(p) /\ p.cmd = "estop"
    /\ pump' = [pump EXCEPT !.target = 0]
    /\ net' = NetAt("estop_valve")
    /\ UNCHANGED <<operating_state, valve, level, setpoint, seq, phys, telemetry,
                   row, history>>

EstopValve ==
    /\ net.pc = "estop_valve"
    /\ valve' = [valve EXCEPT !.target = Full]
    /\ net' = NetAt("estop_mode")
    /\ UNCHANGED <<operating_state, pump, level, setpoint, seq, phys, telemetry,
                   row, history>>

EstopMode ==
    /\ net.pc = "estop_mode"
    /\ SetMode("EMERGENCY")
    /\ Answer("accepted")
    /\ UNCHANGED <<actuators, level, setpoint, seq, phys, telemetry, row>>

PublishAck ==
    /\ net.pc = "ack"
    /\ net' = NetAt("idle")
    /\ UNCHANGED <<process, phys, telemetry, row, history>>

-----------------------------------------------------------------------------
\* The process dies between any two steps and its memory is lost with it.
Kill ==
    /\ EndLoop
    /\ net' = NetAt("idle")
    /\ NewProcess
    /\ UNCHANGED row

\* A new process: nothing is read back from the database or the bus.
Restart ==
    /\ phys.pc = "dead" /\ net = NetAt("idle")
    /\ phys' = PhysAt("pump")
    /\ NewProcess
    /\ UNCHANGED <<net, telemetry, row>>

Physics ==
    \/ PumpUpdate \/ ValveAndMeasure \/ CheckMode \/ AssignMode
    \/ BuildTelemetry \/ PublishTelemetry \/ LogTelemetry

Command(p) ==
    \/ SetPump(p) \/ SetValve(p) \/ SetSetpoint(p) \/ HandlerRaises(p)
    \/ Maintenance(p) \/ Reset(p) \/ Reject(p) \/ EstopPump(p)

Handler == EstopValve \/ EstopMode \/ PublishAck \/ SwallowException

Failure == LogFails \/ Interrupt \/ Kill \/ Restart

Next == Physics \/ (\E p \in Payloads : Command(p)) \/ Handler \/ Failure

\* The interpreter and the operating system run both threads for ever; no
\* command need arrive, and nothing need fail or be started again.
Fairness == WF_vars(Physics) /\ WF_vars(Handler)

Spec == Init /\ [][Next]_vars /\ Fairness

-----------------------------------------------------------------------------
(* Properties *)

\* Every variable has the values its code can give it; in particular the
\* mode IDLE is never assigned and targets are within 0..100%.
TypeOK ==
    /\ operating_state \in Modes
    /\ pump \in [target : Pct, actual : Pct]
    /\ valve \in [target : Pct, actual : Pct]
    /\ level \in Level
    /\ setpoint \in Int \cup {NoSetpoint}
    /\ seq \in 0..SeqBound
    /\ phys \in [pc : {"pump", "valve", "check", "assign", "build", "publish",
                       "log", "dead"},
                 level : Level, over : BOOLEAN, mode : Modes \cup {None},
                 released : BOOLEAN]
    /\ net \in [pc : {"idle", "estop_valve", "estop_mode", "ack", "raised"},
                status : {None, "accepted", "rejected"}]
    /\ telemetry \in [seq : 0..SeqBound, level : Level, over : BOOLEAN,
                      mode : Modes \cup {None}, released : BOOLEAN]
    /\ row \in [seq : 0..SeqBound, mode : Modes \cup {None}]
    /\ released \in BOOLEAN
    /\ latched \in Latching \cup {None}

\* The mode of a message on the bus is explained by the sample it carries: it
\* is what update_state_machine derives from that very reading, or a latching
\* mode, or RUNNING because reset or maintenance off was handled after this
\* sample's check.  WARNING and FAULT are never left over from an older
\* sample, and an alarm is never missing without an operator's command.
Explained(m, measured, over, rel) ==
    \/ m = AutoMode(measured, over)
    \/ m \in Latching
    \/ m = "RUNNING" /\ rel

BroadcastModeExplained ==
    telemetry.mode # None =>
        Explained(telemetry.mode, telemetry.level, telemetry.over,
                  telemetry.released)

\* An EMERGENCY or MAINTENANCE that one pass of update_state_machine has
\* seen and respected stays in force, whatever the physics thread does, until
\* a command writes the mode.
LatchHeld == latched # None => operating_state = latched

\* EMERGENCY is only ever announced, in the mode every reader sees, when the
\* pump has been commanded to 0% and the valve to 100%.
EstopSafeFirst ==
    [][ operating_state # "EMERGENCY" /\ operating_state' = "EMERGENCY"
        => pump.target = 0 /\ valve.target = Full ]_vars

\* Every sample counted in _seq reaches the database before the next
\* iteration begins: an iteration that fails to log is the last one.
LoggedEverySample == phys.pc = "pump" /\ seq # 0 => row.seq = seq

\* The mode is read once for the message and again for its row.  The two only
\* differ when a command was handled in between: the row then has the mode of
\* that command, and never an alarm the broadcast sample did not raise.
RowModeExplained ==
    [][ row' # row /\ row'.mode # telemetry.mode
        => row'.mode \in Latching \/ (row'.mode = "RUNNING" /\ released) ]_vars

\* To the sender of commands the two threads are one controller that keeps
\* the promise of OperatingMode: its modes latch once the state machine has
\* seen them, and EMERGENCY is the last step of a stop.
Mode == INSTANCE OperatingMode WITH
            mode <- operating_state, held <- latched,
            stopping <- net.pc \in {"estop_valve", "estop_mode"},
            safe <- pump.target = 0 /\ valve.target = Full
ImplementsMode == Mode!Spec

\* An emergency stop is seen by those who watch the plant.  Once begun it is
\* put in force, and in force it goes on the bus with the next sample, unless
\* it is overwritten before (by a command, or by the physics thread between
\* its check and its assignment) or the loop has ended.
EmergencyIsReported ==
    /\ (net.pc = "estop_valve")
           ~> (operating_state = "EMERGENCY" \/ phys.pc = "dead")
    /\ (operating_state = "EMERGENCY")
           ~> \/ telemetry.mode = "EMERGENCY"
              \/ operating_state # "EMERGENCY" \/ phys.pc = "dead"

-----------------------------------------------------------------------------
(* What the repository says of the program and the code does not do *)

\* "reset  Reset fault/emergency state" (cli/operator.py): EMERGENCY ends by
\* a command (or with the process), never by the physics loop.
EstopLatched ==
    [][ operating_state = "EMERGENCY" /\ operating_state' # "EMERGENCY"
        => \/ net.pc = "idle" /\ net'.pc = "ack"
           \/ phys.pc = "dead" \/ phys'.pc = "dead" ]_vars
=============================================================================
