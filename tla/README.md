# A TLA+ model of the ICSC tank testbed

TLA+ modules that model the core of the testbed in this repository, TLC
configurations that check them on small instances, and TLAPS proofs of safety
properties and refinements for every instance. Every definition is translated
from the source; `PROJECT.json` maps each one to its lines.

## 1. Inventory: the system

The testbed is a set of Python processes that talk over MQTT (QoS 0) and share
one SQLite file. There is no shared memory between processes; inside a process
there are two threads, the main thread and the network thread of the MQTT
client, which runs every message callback.

| Component | State it keeps | Operations | Talks to |
|---|---|---|---|
| Physical process (`plant/tank.py`, `pump.py`, `valve.py`, `sensors.py`) | level, actuator targets and positions, setpoint | `set_target`, `update`, `get_measured_state` | called by the controller's two threads |
| Plant controller (`plant/controller.py`) | `operating_state`, `_seq`, the process | `step` (physics thread), `on_command_received` (network thread) | command and telemetry topics, `telemetry_logs` |
| Command path (`backend/`, `control/`) | none of its own between calls but the terminal's token | login, `submit_command`, the delegating route, `process_raw_command` | `sessions`, `audit_events`, newest telemetry row, command topic |
| Database manager (`core/database.py`) | the tables | one transaction per call | all |
| Anomaly detector (`security/`) | last level, counters, windows, cached plant state, alert cooldowns | `process_telemetry`, `process_command`, `emit_alert` | telemetry and command topics, `security_alerts` |
| MQTT client wrapper (`mqtt/client.py`) | table of callbacks | `subscribe`, `publish_json`, `on_connect`, `on_message` | broker |
| Terminals (`cli/`) | the token of the login | a line at a time | command path |
| Detector of the first version (`detector.py`) | last state, sequence number and level, counters, setpoint window, cooldowns | `process_telemetry`, `process_command`, `_emit` | the plant's second pair of topics |
| Telemetry tools, scenarios, monitor terminal, the rest of the first version | see `PROJECT.json` | | |

What makes each one correct, and what is hard about it:

* **Controller.** The mode is written by both threads without a lock, by the
  state machine in a check followed by an assignment, and read twice per
  sample. An emergency stop is three writes. A database error ends the loop.
  Correct means: latching modes stay latched, what is broadcast and logged
  belongs together, emergency is announced last, and an emergency in force is
  reported.
* **Command path.** Several clients interleave on one sessions table; the
  clock runs between validation and publication; a client may die, or the
  database raise, between publication and audit or before the cleanup of a
  temporary session; the interlock acts on a row that may be superseded; a
  gateway without a client attached accepts what it cannot publish.
  Correct means: what reaches the bus is authorised, attributed and traced,
  the audit trail does not contradict the bus, temporary sessions end.
* **Detector.** It hears every sample twice, may lose copies, hears frames of
  others on the same topic, is cut short by
  an exception in the middle of a handler, and silences repeats by time.
  Correct means: silence is always earned by an alert, persistent conditions
  are alerted again, counters and windows count what they claim, maintenance
  suppresses what it should and only then.
* **MQTT wrapper.** `subscribe` on one thread against `on_connect` on
  another, over a dictionary without a lock; a lost link means a new session
  that knows no topic; exceptions of callbacks are swallowed. Correct means:
  every topic is known to the broker again after a loss, no callback is passed
  over, and the network thread survives.
* **First version's detector.** One thread, but a feed that is lost, restarted
  and mixed with other people's samples and malformed messages; a verdict on a command rests on what was
  heard last and on a forecast whose loop ends early. Correct means: counters
  are exact, sequence verdicts are wherever the plant's own numbers are
  compared, the forecast misses nothing, no threatening
  command and no blind judgement goes without an alert.
* **All together.** A role that is lent, a bus that loses messages and a mode
  written by two threads: an emergency is ended by nobody who may not, and a
  published emergency stop comes into effect.

`hazards` in `PROJECT.json` lists these one by one at their lines, with the
properties that cover them or the reason none does.

## 2. Modules

| Module | Models | Role |
|---|---|---|
| `TankProcess` | `plant/tank.py`, `pump.py`, `valve.py`, `sensors.py` | operators on a grid; no state |
| `PlantController` | `plant/controller.py` and the process it owns | state machine, extends `TankProcess` |
| `OperatingMode` | what the controller promises of its mode | abstract; `PlantController` implements it |
| `CommandGateway` | `backend/`, `control/`, sessions and audit of `core/database.py` | state machine |
| `ReferenceMonitor` | what the command path promises to plant and auditors | abstract; `CommandGateway` implements it |
| `Testbed` | clients, command topic and plant together | composes `CommandGateway` with `OperatingMode` |
| `BusClient` | `mqtt/client.py`, and the broker as it uses it | state machine |
| `SecurityMonitor` | `security/`, fed by an abstract plant and bus | state machine |
| `ForwardSimulation` | `forward_simulate` of both detectors | operators on a grid; no state |
| `LegacyDetector` | `detector.py`, fed by an abstract plant and bus | state machine, extends `ForwardSimulation` |
| `SlidingWindow` | the filter both detectors prune their windows with | operator; no state |
| `RateLimiter` | what a cooldown promises | abstract; both detectors implement it |
| `PlantControllerProofs`, `CommandGatewayProofs`, `TestbedProofs`, `BusClientProofs`, `SecurityMonitorProofs`, `ForwardSimulationProofs`, `LegacyDetectorProofs` | | theorems and their proofs |
| `DataLemmas` | | induction over sets, recursive functions and `SlidingWindow`'s filter: lemmas the proofs use |
| `MCPlantController`, `MCCommandGateway`, `MCTestbed`, `MCBusClient`, `MCSecurityMonitor`, `MCLegacyDetector` | | the instances for TLC |

Definitions whose comment begins *Mutant of X* are not part of the model: each
is X as a plausible bug would have it, and is used to confirm that some
property notices the difference.

### TankProcess and PlantController

Levels and positions are floats in the code; the controller only tells apart
on which side of a threshold a level lies and whether an actuator has arrived.
Positions are `0..Full`, levels `0..MaxLevel`, and a float step is the *set* of
grid values it can lead to: `LagStep` is the first-order lag (towards the
target and never past it, and as one update covers a fraction `dt/tau` of the
way, it may stay in its cell for any number of updates), `FlowStep` one Euler step (a stopped pump cannot raise
the level, a shut valve cannot lower it), `Readings` and `OverPressure` the
sensors with their noise. No property says that a position arrives: the
exponential lag of the code approaches its target without end.

`phys` holds the program counter and locals of the physics thread, `net` those
of the handler. A step of the model is what one thread does between two
accesses to shared state:

| Action | Code |
|---|---|
| `PumpUpdate`, `ValveAndMeasure` | `TankProcess.update`, counters, `get_measured_state` |
| `CheckMode`, `AssignMode` | `update_state_machine`: the early return; the ladder |
| `BuildTelemetry`, `PublishTelemetry`, `LogTelemetry` | the rest of `step`; the mode is read in the first and again in the last |
| `SetPump`, `SetValve`, `SetSetpoint`, `Maintenance`, `Reset`, `Reject`, `EstopPump`, `EstopValve`, `EstopMode`, `PublishAck` | the branches of `on_command_received` |
| `HandlerRaises`, `SwallowException` | `float()` refuses an argument; `on_message` catches it |
| `LogFails`, `Interrupt`, `Kill`, `Restart` | a database error, Ctrl-C, a kill, a new process |

`released` and `latched` are history variables: a command released the mode
since the last check; the latching mode the last check respected. The sequence
number wraps at `SeqBound` in the model, where the code counts on; nothing in
the controller compares sequence numbers.

`OperatingMode` is the controller seen by someone who sends it commands: a mode,
the latching mode the state machine has respected (`latched`), whether an
emergency stop is under way, and whether the actuators are commanded to safety.
`ImplementsMode` maps it onto the controller's variables and the handler's
program counter. The promise is weak on purpose where the code is: a latching
mode may be lost until the state machine has come past it.

### CommandGateway

Each client is a process with a control state (`client[c].pc`); they share the
sessions table (a sequence: a token is an index, so tokens are fresh as random
ones are) and the audit trail. A step is one database transaction or one
publication. `SubmitCommand` is `BackendAPI.submit_command`; `SubmitDelegated`
is the route of `backend/vulnerability.py`, which validates the caller, logs
the access, creates a temporary OPERATOR session, calls the gateway with it and
closes it (`ValidateCaller`, `AuditAccess`, `CreateTemp`, ..., `InvalidateTemp`).
`process_raw_command` is `Validate` (validation, parsing and RBAC: one database
access and local computation), `AuditRefusal`, `Inspect`, `AuditBlocked`,
`Publish`, `AuditAccepted`. A gateway publishes only if a client is attached to
it, and by default none is (`command_gateway.py:24`, `118`): `Attached` are the
terminals whose gateway has one. Elsewhere a command that passes every check
goes nowhere, is recorded as COMMAND_ACCEPTED and answered "Command accepted and
published to control bus." (131), which is how `tests/test_control.py:38-49` and
`test_backend.py:14-38` use it. `offline` is history: the calls made at such
terminals. `Crash` stops a client anywhere, which is also what
an uncaught database error does; what had been committed stays.

Command lines are abstracted to a command and a class of argument (zero, other
number in range, on/off, unacceptable). The newest telemetry row is abstracted
to safe or unsafe for pump power. What `CommandMessage` does not carry, the
mode of `maintenance`, is absent from the model's messages as well.

`ReferenceMonitor` knows calls, traces, orders and verdicts, and nothing of
sessions, tokens, routes, expiry or crashes: at most one order and one verdict
a call, acceptance only after the order, refusal only without one ever, and an
order only by right or lent against a trace. Whether there is a way to the plant
is settled when a call is opened; a call without one orders nothing and may
still be accepted. The refinement mapping
(`Monitor` in `CommandGateway`) reads orders off the published messages, and
verdicts and traces off the audit trail; validation, login, session rows and
crashes are stutters.

### Testbed

The command path, unchanged, whose publications go onto `wire`; the plant is
`OperatingMode`, which `PlantController` is proved to implement. A message is
delivered once and in order or lost (QoS 0), and a restarted controller gets
nothing sent to the one before. Deliveries map to the promise: `reset` and
`maintenance` are its `Order`, with the mode the message asks for after the
gateway has dropped the word of `maintenance`; `estop` begins a stop whose
steps interleave with the physics thread.

### BusClient

`app` is the thread that calls `subscribe`, `connect` and `disconnect`; `net`
the library's thread, which connects, calls `on_connect` and `on_message` and
sends what is queued. A step is one access to the dictionary or one call into
the library, so `subscribe` is four steps (key, `is_connected`, packet,
callback) and `on_connect` one step for each key; a dictionary that has grown
in the middle of the iteration raises, which ends the thread. The library and
the broker (`Connack`, `Transmit`, `NoticeLoss`, `DropLink`, `Publish`) are
modelled from what the wrapper relies on: clean sessions, and `is_connected()`
true before `on_connect` runs. `Early` are the registrations a `main` makes
before `connect()`, `Late` those it might make after.

### SecurityMonitor

`wire` holds the frames on their way: two copies per sample of the plant, in
order, and whatever others publish on the same topic before, between or after
them (`PublishForeign`: the frames of `scenarios/telemetry_replay_attack.py`,
`scenarios/replay_attack.py` and `telemetry/replay.py`, with any sample and any
number or none; `life` is 0 in them). `Lose` drops the first.
`FailTelemetry` is the handler of a frame that `float()` raises on: by then
`last_seq` is already that frame's (`security/detector.py:44-50`), and nothing
else has changed. `HandleTelemetry` and `HandleCommand` are whole handlers: the
network thread runs one at a time. Each computes its candidate alerts in the
order of the code; `Emit` applies the cooldown and models an exception in
`log_alert` at one of them (`failed`), after which the rest of the handler is
skipped, with the effects the order of the statements gives (a failure at the
residual alert leaves the behavioural counters alone, any failure leaves
`current_state` alone). Whether the residual exceeds its tolerance is left open;
`Forecast` is an arbitrary table for the 60 s forward simulation. Not modelled
are frames that lack fields other than the number, and numbers that are not
integers. `past`,
`alerted`, `lost` and `life` are history. `DetectorRestarts` begins a new
process; the properties speak of one life of the detector.

`Subscribed = FALSE` is the same class in its other use: the instance a gateway
creates for itself, which is never given telemetry.

The two windows are pruned by `Kept` of `SlidingWindow`, a recursive function
that keeps the entries of a sequence that are in a set: the list comprehension
of the code, with its recursion where a proof can reach it.

`LimitsRate` is the refinement of `RateLimiter`: each kind of alert passes only
when its cooldown is over, and a new process has forgotten them.

### ForwardSimulation and LegacyDetector

`ForwardSimulate` is the loop with its variables: Euler steps, the two first
crossings, the early exit at the bottom or the rim. `Trajectory` and `IsFirst`
say the same without the loop, and `Faithful` compares the two. The outflow of
a step is a table, which stands for Torricelli's square root.

`LegacyDetector` hears each sample once, late or never, on a topic anybody may
write to: `PublishForeign` is a well-formed sample, recorded before, made up or
of a second plant, with a number or without (`life` is 0 in it), and
`PublishMalformed` what the syntax check refuses. `HandleTelemetry` and `HandleCommand` are whole handlers, the layers
in the order of the code; `RefuseTelemetry`, `RefuseCommand` and
`HandleUnparseable` are the messages that fail the syntax check. Whether the
level deviates from the shadow model's is open where the code looks at it (at
`PREDICTION_DT` and later). `past` is history. A message that passes the syntax
check and breaks a later line ends the process (the library raises again what
`on_message` raised), which is one more reason for `DetectorRestarts`.

`security/detector.py` annotates a method with `Tuple` without importing it, so
the module loads only where annotations are evaluated lazily (Python 3.14); the
model is of the module loaded.

## 3. Runs

| Run | Checks | Bounds |
|---|---|---|
| `controller` | `TypeOK`, `BroadcastModeExplained`, `LatchHeld`, `LoggedEverySample`, `EstopSafeFirst`, `RowModeExplained`, `ImplementsMode` | `Full = 1`, levels 0..2 with both thresholds at the ends, every branch of the handler, arguments below, above and outside the numbers (2.3 million states) |
| `controller_live` | `EmergencyIsReported` | as `controller`, with `estop`, `reset`, `maintenance on` and `pump` at both ends (152,000 states) |
| `gateway` | `TypeOK`, `PublishedAuthorised`, `PrivilegedOnlyByOwner`, `DelegationTraced`, `AuditTellsTheTruth`, `TempSessionConfined`, `InterlockMissesOnlyLateRows`, `SessionsOnlyEnd`, `ImplementsMonitor` | 2 terminals (one ACTIVE; one with a client attached), an engineer and a guest, 3 lines, 2 calls, 2 logins, 2 clock values with sessions that expire at the first tick (2.5 million states) |
| `testbed` | `EmergencyEndedByEntitled`, `EstopTakesEffect`, `TempSessionEnds` | 1 terminal, a guest or an engineer at it, `estop` and `maintenance off`, 2 calls, sessions that expire at the first tick, 1 loss or restart (197,000 states) |
| `bus` | `TypeOK`, `SubscriptionsComplete`, `DiesOfLateTopics`, `OwedDelivered`, `Resubscribed` | 2 early topics, one with two callbacks; a late callback on a known topic and a late new topic; 2 lost links, 2 messages (107,000 states) |
| `monitor_feed` | `TypeOK`, `SilenceIsEarned`, `FrozenExact`, `ReplayIffHeard`, `OverPressureAlerted` | 3 kinds of sample, 2 samples in each of 2 lives of the plant, up to 3 frames on the wire, 1 frame of somebody else (numbered, unnumbered or malformed) anywhere among them, 3 clock values with a cooldown of 2, `FrozenSamples = 2` (3.3 million states) |
| `monitor_commands` | `WindowsExact`, `MaintenanceRespected`, `LimitsRate` | 3 plant states, 1 replayed or malformed frame, 4 commands, 3 commands in a life of the detector, windows of 1 tick, oscillation at 2 commands (1.2 million states) |
| `legacy` | `TypeOK`, `FrozenExact`, `SequenceVerdictsExact`, `ForecastExact`, `OverfillNotSilent`, `StaleContextAlerted`, `LimitsRate` | levels 0..4, positions 0..2, a horizon of 3 steps, 2 kinds of sample, 4 commands and a malformed one, 3 samples in the first life of the plant and 2 in the second, 2 messages of others (commands, malformed ones, samples with one of the plant's numbers or none), 3 clock values with a cooldown of 2 and telemetry stale after 1, `FrozenSamples = 2`, one sample lost is a gap too many (2.4 million states) |

Why these bounds are enough: each property is about one sample, call, alert or
registration and its nearest competitor, so two of each (two threads, two
clients, two lives, two copies, two lost links) already give every order; times
only matter relative to a cooldown, window or lifetime, and each instance has
clock values before, at and after it; thresholds are hit from both sides. Most
of the properties are proved without any bound (section 4). TLC stops at the
bounds only in the counters named in the modules (`MaxTime`, `MaxCalls`,
`MaxLogins`, `MaxSeq`, `MaxLives`, `MaxWire`, `MaxCommands`, `MaxOthers`,
`MaxDrops`, `MaxMessages`, `MaxFaults`). One terminal suffices in `testbed`:
what several do to each other is the question of `gateway`, and the proof of
`EmergencyEndedByEntitled` has any number.

Deadlock is checked but in `bus`: a process that has disconnected has nothing
left to do.

Fairness. `PlantController` assumes weak fairness of each thread: the
interpreter schedules both, and the loop of `main` and the network loop run for
as long as the process does. Commands need not arrive and failures need not
happen. `CommandGateway` assumes that a client which has begun a call goes on
with it unless it dies; nobody must log in or type, and time may stand still.
`Testbed` adds that the controller's network thread handles what it is given
and finishes the stop it has begun; nothing obliges the physics thread, and
`EstopTakesEffect` does not need it. `BusClient` assumes that both threads are
scheduled and that the library reconnects and sends what it has queued;
messages, late topics and disconnection are never obliged to happen.
`SecurityMonitor` and `LegacyDetector` claim no liveness and assume no fairness.

### What the code does not do

Four runs expect a violation: TLC shows the program do otherwise than the
repository says.

| Run | The repository says | What happens |
|---|---|---|
| `estop_latched` | reset is what leaves EMERGENCY (`cli/operator.py:54`) | an estop between `controller.py:95` and `99-103` is overwritten by the physics thread |
| `maintenance_off` | exits MAINTENANCE (`scenarios/legitimate_maintenance.py:47`) | the mode is not copied into the message, and the plant takes "on" |
| `maintenance_quiet` | 0 false alarms in maintenance (`legitimate_maintenance.py:4`) | the gateway's own detector never learns of the mode |
| `frozen_copies` | FROZEN_SAMPLES identical samples make a frozen feed (`core/config.py:80`) | each sample is counted once per topic: 3 samples reach a count of 5 |

`BroadcastModeExplained`, `LatchHeld`, `RowModeExplained`,
`InterlockMissesOnlyLateRows`, `ReplayIffHeard`, `SequenceVerdictsExact` and
`FrozenExact` state exactly what remains true beside these: the only latch ever lost is one set between a check and its
assignment; the row of a sample may differ from its broadcast, but only by a
mode commanded in between; the frozen counter of `security/` is exact in
*frames*, of which the plant sends two for each sample and others any number, so
that without others an alert takes more than half of `FROZEN_SAMPLES` samples and
not all of them; that of `detector.py`, which hears one topic, is exact in
samples. A number that is not the plant's can make a new sample a replay, or
hide a repeated one; what holds is that it spoils the verdict on one sample, as
the number of the next takes its place. An accepted command may have gone
nowhere, but only at a terminal without a client attached. A command
may reach the plant without a record, if its client or the database fails
between publication and audit; what the record then may not do is say the
contrary (`AuditTellsTheTruth`, `ImplementsMonitor`).

Differences met on the way that need no run: `README.md` lets OPERATOR reset,
`ROLES` does not; the docstring of `plant/controller.py` lists IDLE, which is
never assigned, and a chain of modes, where the ladder enters FAULT straight
from RUNNING.

## 4. Proofs

Eight modules hold theorems and lemmas. Each theorem is proved for every value of the constants that
meets the module's assumption; the bounds of the models are in guards only, and
no proof depends on their values. None of the main properties is inductive:
each speaks of what is visible (a message, a row, an alert) and holds because
of what an actor knows at the point it has reached. The invariants add that
knowledge.

### The plant controller (`PlantControllerProofs`)

From `TankAssumption` and `ControllerAssumption`:

* `TypeCorrect`: `Spec => []TypeOK`
* `BroadcastExplained`, `LatchSafe`, `EverySampleLogged`: the safety invariants
* `EstopIsSafeFirst`, `RowModeIsExplained`: the action properties
* `ControllerImplementsMode`: the refinement of `OperatingMode`

`Inv` has one conjunct for each concern: `LatchInv` (the assignment is reached
only from a check that found no latch), `ExplainedInv` (from the ladder to the
publication the mode in hand is explained by the sample in hand, or a release
since its check was noted), `RowInv` (what may have happened to the mode
between the message and the row), `EstopInv` (what the emergency handler has
done so far) and `LogInv` (where the sample of the iteration is). One lemma per
conjunct shows that every step preserves it. The action properties and the
refinement follow from `Inv` at each step: every step of the two threads is one
of `OperatingMode`'s or leaves its variables alone.

### The command path (`CommandGatewayProofs`)

From `GatewayAssumption`, for any number of clients, people and calls:

* `TypeCorrect`, `OnlyAuthorised`, `PrivilegesNotLent`, `DelegationIsTraced`,
  `AuditIsTrue`, `DelegatedSessionsConfined`, `InterlockIsLateOnly`: every
  invariant the run checks
* `SessionsEndOnly`: no step revives a session or changes its owner
* `GatewayImplementsMonitor`: the refinement of `ReferenceMonitor`

A call is decided in one step and acted upon in a later one, while others
change the same tables. `Knows(c)` says what the locals of client `c` still
guarantee at its program counter: whose token it holds, what it has traced,
that the session it copied at validation still has that owner and role
(`Approves`), and that neither bus nor audit trail says anything of its call
before it does, and at the acceptance record that the call was published or made
where it could not be (`Untold`). `SessionInv` and `MessageInv` say what rows and
messages tell of each other; `UniqueInv`, that a call and a delegated session
belong to one client. The knowledge survives the steps of others by `Grows`
and `OnlyEnds`: rows are only added or deactivated, records and messages only
added. `LiveInv`, `SingleInv` and `UnusedInv` do the same for delegated
sessions: a live one is in somebody's hands or an orphan's, and carries one
message.

### The testbed (`TestbedProofs`)

* `SystemImplementsMonitor`: the composition keeps what `ReferenceMonitor`
  promises of the command path. (That the plant keeps the promise of
  `OperatingMode` is `ControllerImplementsMode`, about the controller itself;
  here the plant *is* the promise.)
* `EmergencyIsEndedByEntitled`: an EMERGENCY the state machine has respected is
  ended by a person whose own role has the capability, or by a fault

A step of the system is a step of the command path or leaves it alone, so
`Inv` of `CommandGatewayProofs` holds here as it stands; the one fact added is
`WireInv`, that nothing but a published message is ever on the wire.

### The MQTT wrapper (`BusClientProofs`)

From `BusAssumption`, for any registrations, losses and messages:

* `TypeCorrect`, `AllSubscribed`, `OnlyLateTopicsKill`, `OwedIsDelivered`
* `EarlyTopicsAreSafe`: with no late registration the network thread never dies

`Registering` says that a key made behind the back of `on_connect` is in the
hands of the `subscribe()` that made it; `Greeting` how far the iteration has
come, and that what it did not count is a late topic; `Dispatching` that the
callbacks a message is owed to have been called or are still to come. The
dictionary and its lists only grow (`StepGrows`), which is what lets these
survive the other thread.

### The anomaly detector (`SecurityMonitorProofs`)

From `MonitorAssumption` and `NoneIsNoKey`:

* `SilenceEarned` and `PressureNotForgotten`: silence follows a logged alert or
  a database failure, and a persistent over-pressure is alerted again
* `ManagerLimitsRate`: the refinement of `RateLimiter`
* `MaintenanceIsRespected`: what maintenance suppresses
* `TypeCorrect`, `FrozenIsExact`, `ReplaysAreHeard`, `WindowsAreExact`: the types
  of the detector's variables, and that its counter, its sequence check and its
  windows mean what their alerts say

`StepKinds` reduces every step to three kinds for the alert manager (nothing,
one `Emit`, a new detector), so each fact needs one lemma about `Emit` and none
for each handler. `SilenceIsEarned` is inductive as it stands. The cooldowns
need `TimesInv`, that a logged alert is never younger than the cooldown in
force, nor that than the clock. Maintenance needs `ModeInv`, that the cached
mode is the last one heard unless its handler was cut short.

What the detector has heard is compared with a history, and none of the
comparisons is inductive as it stands:

* `FrozenExact` speaks of a counter that has reached its limit; `RowInv` says of
  every value of the counter how long the row at the end of the copies is, and
  that the copy before it breaks the row. The history keeps only the last
  `FROZEN_SAMPLES + 1` copies, so there is a lemma for a copy that joins
  (`RowGrows`) and one for a copy that is forgotten (`RowForgets`).
* `FrozenExact` also bounds the counter by what was heard: no sample of the
  plant counts more than twice, no frame of others more than once, and the first
  heard once less. `PairInv` says that no copy of another sample is between the
  two of one on the wire, and that only the first copy there can belong to a
  sample that was heard; while one does, the bound is one lower (`Second`).
* `ReplayIffHeard` speaks of the head of the wire and of the last number taken
  in, where that is the plant's; `OrderInv` says that life and number grow along
  the plant's copies on the whole wire, that none of them was sent before what
  was last heard, and that the last copy heard is the greatest.
* Both speak of the plant's copies (`Mine`) among frames of others. A tail of
  the wire, or a wire with a frame put in, holds those of the old wire in their
  old order: `Within` names the embedding, and `OrderWithin` and `PairedWithin`
  carry both facts over.
* `WindowsExact` counts; `WindowInv` says which entries a window holds: those of
  the history from some point on, where everything before that point is too old
  at the time of the last one. Times never decrease, so what was dropped once
  stays too old (`HoldsOn`), and `HoldsLength` counts it.

`TypeOK` bounds the frozen counter, and needs `CountInv` for it: the counter and
what is on the wire together never exceed two for each sample the plant has
published in all its lives and one for each frame of others. `MonitorAssumption` gives the plant's samples
the types `step` of the controller gives them, and the numbers of a command any
value.

### The forecast (`ForwardSimulationProofs`)

From `SimulationAssumption` and `OutflowAssumption`:

* `ForecastIsFaithful`: for every level, pump, valve and horizon,
  `forward_simulate` tells the first step at which the whole trajectory crosses
  each safety limit, although it leaves its loop at the bottom or the rim.

It is true because of the tank: a step that empties it has lost all that flowed
in, so later steps cannot lift the level further than one step's outflow, which
is below `MAX_SAFE_HEIGHT` (`NeverFullAfterBottom`); the rim is the mirror image
(`NeverDryAfterRim`). `OutflowAssumption` says this much of the flows: the
outflow grows with the level, as its square root does, and one step lets out
less than those distances (0.4 m3/s for 0.1 s from 1 m2, 0.04 m, against 0.9 m
and 9.9 m, `config.py:17-36`). Without it the early exit could miss a crossing.
Until the exit the loop follows the trajectory (`LoopInvariant`).

### The first version's detector (`LegacyDetectorProofs`)

From `LegacyAssumption`, `SimulationAssumption` and `OutflowAssumption`:

* `StaleIsAlerted`: a command judged without fresh telemetry has a recent alert
* `DetectorLimitsRate`: the refinement of `RateLimiter`
* `TypeCorrect`: the types of the variables
* `FrozenIsExact`: the counter of the frozen feed is exact in samples
* `SequenceVerdictsAreExact`: what a gap and a replay alert mean where two
  numbers of one plant process are compared
* `ForecastIsExact`, `OverfillIsTold`: no command is judged by a forecast that
  misses a crossing, and a command that would overfill the tank within the
  horizon has a recent alert of the rule or of the model

The argument for the alerts is that of the alert manager; its `TimesInv` also
ties the detector's `last_telemetry_time` to what it really was sent. `RowInv`
is that of `SecurityMonitor`, for samples. `OrderInv` accounts for the numbers:
whatever strangers put between them, the plant's samples on the wire are
numbered without a hole, those of the life last heard begin where the last
number taken in, if it was the plant's, and the losses since end (`Chain`), and they end at the plant's
own number (`Ends`). What a lost or handled message, a new one and a new start of the plant do to
this is the lemmas `OrderForgets`, `OrderGrows` and `OrderRenews`.

### The lemmas (`DataLemmas`)

The library's induction theorems take an operator as a parameter, which no
installed prover can instantiate. `SetInduction` and `IntervalInduction` are
induction in the form of sets: a set of numbers that holds the first and is
closed under the next is the whole interval, proved from the least member of
the complement (`LeastNatural`, from the well-foundedness of the naturals).
`RecursionExists` gives a recursive function on an interval its defining
equations. With them `Kept` unfolds (`KeptSteps`), has the type of its sequence
(`KeptType`) and, when what it keeps is a suffix, is that suffix
(`KeptIsSuffix`), of which `WindowSlides` is the form the windows need.

### Model-checked only

Liveness (`EmergencyIsReported`, `EstopTakesEffect`, `TempSessionEnds`,
`Resubscribed`): liveness under fairness is out of the prover's reach. Every
other property of a passing run is a theorem.

## 5. Not modelled

* Float values (levels, residuals, forecasts, scores); wording and display;
  timestamps of alerts; the anomalies of `security/` that only change a score.
* Password hashing; the schema and its seeding; queries that only feed a
  display (`core/database.py`).
* Injected sensor faults, publication of alerts and the validation helpers of
  `core/schemas.py`, which no component calls.
* The monitor terminal, which prints the newest rows, and the telemetry tools,
  a bounded buffer behind one lock, a forwarding call and a replay loop that no
  other component uses. What the loop puts on the bus is in `SecurityMonitor`.
* The scenarios: scripts that drive the components; what they expect is used
  as properties, and the frames they publish as telemetry are among those of
  `PublishForeign`.
* Malformed telemetry beyond what `FailTelemetry` and `PublishMalformed` stand
  for.
* That an actuator approaches its target: the lag is exponential, and on a grid
  it may stay where it is.
* Of the first version, `simulation.py` and `operator_console.py`, which start
  the modelled components, and `MQTTClient` (`mqtt_client.py`) and `TankModel`
  (`server.py`), which no program of the repository uses.

## 6. Plan

Done: the controller, the command path, the bus wrapper, both detectors, the
forecast, the composition with the plant's promise, the three abstract
specifications and their refinements, and the proofs listed above. What is
left, in this order:

1. `SecurityMonitor` in `Testbed`, for maintenance as all parts see it.
2. A record of what the interlock's row was at publication against the state of
   the plant, through `PlantController`'s `row`.
