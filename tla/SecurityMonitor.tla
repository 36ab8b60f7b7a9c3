-------------------------- MODULE SecurityMonitor --------------------------
(***************************************************************************)
(* security/: the AnomalyDetector that listens to the bus, with its        *)
(* temporal, behavioural, command and physics parts and the alert manager. *)
(*                                                                         *)
(* The detector runs on one MQTT network thread, one message at a time.    *)
(* The plant publishes every sample on two topics and the detector listens *)
(* to both, so it is handed two copies.  Delivery is in order and may be   *)
(* lost (QoS 0).  Anybody may publish on these topics too, replayed frames *)
(* (scenarios/telemetry_replay_attack.py, telemetry/replay.py) as well as  *)
(* malformed ones, between any two messages of the plant.  Logging an      *)
(* alert is a database write that may raise, and float() raises on what is *)
(* not a number; the client swallows the exception and the rest of that    *)
(* handler is skipped.  Both the plant and the detector may be started     *)
(* again at any time.                                                      *)
(*                                                                         *)
(* Subscribed = FALSE is the other use of the class: the detector that a   *)
(* command gateway creates for itself, which is never given telemetry.     *)
(*                                                                         *)
(* Levels and positions are on a grid, times are ticks.  What the residual *)
(* and the 60 s forecast say of floats is left open: the residual diverges *)
(* or not, and Forecast is any table of overfill predictions.              *)
(***************************************************************************)
EXTENDS SlidingWindow, FiniteSets, FiniteSetsExt

CONSTANTS
    Full,           \* grid value of an actuator at 100%
    MinSafe,        \* grid value of MIN_SAFE_HEIGHT
    RuleAHeight,    \* grid value of RULE_A_HEIGHT
    DefaultLevel,   \* grid value of the level a new detector assumes (0.5 m)
    Samples,        \* what a telemetry message can say: [h, pump, valve, over, mode]
    Foreign,        \* the telemetry others can publish: [sample, seq, life]
    Commands,       \* what a command message can say: [cmd, val, sp]
    Forecast,       \* the states from which an overfill is predicted, <<h, pump, valve>>
    Cooldown,       \* ALERT_COOLDOWN
    FrozenSamples,  \* FROZEN_SAMPLES
    CommandWindow,  \* the 10 s of track_command_frequency
    CommandLimit,   \* its 5 commands
    DriftWindow,    \* SETPOINT_DRIFT_WINDOW
    DriftLimit,     \* SETPOINT_DRIFT_LIMIT
    Subscribed,     \* whether telemetry is delivered to this detector
    MaxTime,        \* bound of the model on the clock
    MaxSeq,         \* bound of the model on the plant's sequence number
    MaxLives,       \* bound of the model on the lives of the plant process
    MaxWire,        \* bound of the model on the copies on their way
    MaxOthers,      \* bound of the model on the telemetry of others
    MaxCommands,    \* bound of the model on the number of commands
    None            \* no value

\* What a sample can say of the plant's operating mode (IDLE is never entered)
Modes == {"RUNNING", "WARNING", "FAULT", "EMERGENCY", "MAINTENANCE"}

\* A foreign frame has any number or none, or a sample that float() does not
\* take (None).
ASSUME MonitorAssumption ==
    /\ Cooldown \in Nat \ {0} /\ FrozenSamples \in Nat \ {0}
    /\ CommandWindow \in Nat /\ CommandLimit \in Nat \ {0}
    /\ DriftWindow \in Nat /\ DriftLimit \in Nat
    /\ MaxTime \in Nat /\ MaxSeq \in Nat /\ MaxCommands \in Nat
    /\ MaxOthers \in Nat
    /\ MaxLives \in Nat \ {0} /\ MaxWire \in Nat
    /\ Subscribed \in BOOLEAN /\ Full \in Nat
    /\ Samples \subseteq [h : Int, pump : 0..Full, valve : 0..Full,
                          over : BOOLEAN, mode : Modes]
    /\ None \notin Samples
    /\ Foreign \subseteq [sample : Samples \cup {None}, seq : 1..MaxSeq \cup {None},
                          life : {0}]
    /\ Commands \subseteq [cmd : STRING, val : Int \cup {None}, sp : Int \cup {None}]
    /\ None \notin Int

VARIABLES
    wire,             \* the telemetry on its way, a sequence of copies
    seq, life,        \* the plant's sequence number; which start of it (history)
    plant_mode,       \* the operating mode of the plant's last sample
    now,              \* time.time()
    last_seq,         \* TemporalDetector.last_seq
    last_h,           \* BehavioralDetector.last_h
    frozen_count,     \* BehavioralDetector.frozen_count
    setpoint_history, \* BehavioralDetector.setpoint_history, <<time, setpoint>>
    command_times,    \* BehavioralDetector.command_timestamps
    current_state,    \* AnomalyDetector.current_state
    cooldowns,        \* AlertManager._cooldowns
    alerted,          \* history: when each kind of alert was last logged
    lost,             \* history: kinds whose last alert failed to be logged
    past,             \* history: what this detector has handled so far
    others            \* telemetry published by others than the plant

behaviour == <<last_h, frozen_count, setpoint_history, command_times>>
detector == <<last_seq, behaviour, current_state>>
plant == <<seq, life, plant_mode>>
alerts == <<cooldowns, alerted, lost>>
vars == <<wire, plant, now, detector, alerts, past, others>>

-----------------------------------------------------------------------------
(* security/alert_manager.py *)

\* The alert keys, numbered in the order the handlers reach them
Rank == [residual |-> 1, frozen |-> 2, pressure |-> 3,
         oscillation |-> 4, rule_a |-> 5, rule_b |-> 6, trajectory |-> 7, drift |-> 8]
Keys == DOMAIN Rank

\* No failure is told apart from a failure at an alert.
ASSUME NoneIsNoKey == None \notin Keys

\* emit_alert's test of the cooldown
Cooling(k) == cooldowns[k] # None /\ now - cooldowns[k] < Cooldown

\* What emit_alert lets through of a handler's candidates
Fresh(candidates) == { k \in candidates : ~ Cooling(k) }

\* A candidate's turn comes unless logging failed at an earlier one.
Reached(k, failed) == failed = None \/ Rank[k] <= Rank[failed]

\* Mutant of Emit: a suppressed repeat starts the cooldown again.
EmitProlonging(candidates, failed) ==
    LET logged == { k \in Fresh(candidates) : Reached(k, failed) } \ {failed}
    IN  /\ failed \in Fresh(candidates) \cup {None}
        /\ cooldowns' = [k \in Keys |->
              IF k \in candidates /\ Reached(k, failed) THEN now ELSE cooldowns[k]]
        /\ alerted' = [k \in Keys |-> IF k \in logged THEN now ELSE alerted[k]]
        /\ lost' = (lost \ logged) \cup ({failed} \ {None})

\* A handler emits its candidates in order.  The cooldown is set before the
\* alert is logged; if logging raises, at failed, the handler ends there.
Emit(candidates, failed) ==
    LET begun  == { k \in Fresh(candidates) : Reached(k, failed) }
        logged == begun \ {failed}
    IN  /\ failed \in Fresh(candidates) \cup {None}
        /\ cooldowns' = [k \in Keys |-> IF k \in begun THEN now ELSE cooldowns[k]]
        /\ alerted' = [k \in Keys |-> IF k \in logged THEN now ELSE alerted[k]]
        /\ lost' = (lost \ logged) \cup ({failed} \ {None})

-----------------------------------------------------------------------------
(* security/temporal_detector.py, behavioral_detector.py *)

\* Mutant of Replayed: a repeated number is let through.
ReplayedStrictly(n) == n # None /\ last_seq # None /\ n < last_seq

\* process_telemetry_temporal's sequence check
Replayed(n) == n # None /\ last_seq # None /\ n <= last_seq

\* The number known after a frame
LastSeq(n) == IF n # None THEN n ELSE last_seq

\* Mutant of FrozenCount: the counter is stepped back, not reset.
FrozenCountDown(h, p) ==
    IF last_h # None /\ p > 0 /\ h = last_h THEN frozen_count + 1 ELSE frozen_count - 1

\* Mutant of FrozenCount: with the pump off the counter is kept.
FrozenCountKept(h, p) ==
    IF last_h # None /\ p > 0
    THEN IF h = last_h THEN frozen_count + 1 ELSE 0
    ELSE frozen_count

\* process_telemetry_behavior: the count after a level h with the pump at p
\* (p = 0 stands for at most 5%)
FrozenCount(h, p) ==
    IF last_h # None /\ p > 0 /\ h = last_h THEN frozen_count + 1 ELSE 0

\* Mutant of CommandTimes: the edge of the window is dropped.
CommandTimesShort ==
    Kept(Append(command_times, now), { t \in Int : now - t < CommandWindow })

\* track_command_frequency and process_setpoint: append, then drop what has
\* left the window
CommandTimes ==
    Kept(Append(command_times, now), { t \in Int : now - t <= CommandWindow })
SetpointHistory(sp) ==
    Kept(Append(setpoint_history, <<now, sp>>),
         { e \in Int \X Int : e[1] >= now - DriftWindow })

Spread(S) == Max(S) - Min(S)
Drifting(entries) ==
    /\ Len(entries) >= 3
    /\ Spread({ entries[i][2] : i \in DOMAIN entries }) > DriftLimit

-----------------------------------------------------------------------------
(* security/command_detector.py *)

RuleA(c) == /\ c.cmd = "pump" /\ c.val > 0
            /\ current_state.valve = 0 /\ current_state.h > RuleAHeight
RuleB(c) == /\ c.cmd = "pump" /\ c.val = 0
            /\ current_state.valve = Full /\ current_state.h < MinSafe

\* forward_simulate from the cached state with the command applied
Overfills(c) ==
    LET pump  == IF c.cmd = "pump" THEN c.val ELSE current_state.pump
        valve == IF c.cmd = "valve" THEN c.val ELSE current_state.valve
    IN  <<current_state.h, pump, valve>> \in Forecast

\* Mutant of InMaintenance: the suppression is dropped.
InMaintenanceIgnored == FALSE

\* is_maintenance, from the mode last cached
InMaintenance == current_state.mode = "MAINTENANCE"

Chosen(key, condition) == IF condition THEN {key} ELSE {}

-----------------------------------------------------------------------------
\* AnomalyDetector.__init__ and those of its parts.  past keeps the last
\* FROZEN_SAMPLES + 1 copies, the plant's samples heard (life and number), how
\* many of others were, the times of all commands and setpoints, the plant's
\* life the last number is from (0: it is not the plant's), the mode last
\* heard, and whether that handler was cut short.
NewDetector(last_n, h, frozen, setpoints, times, state, cools, logged, failed, p) ==
    /\ last_n = None
    /\ h = None /\ frozen = 0
    /\ setpoints = <<>> /\ times = <<>>
    /\ state = [h |-> DefaultLevel, pump |-> 0, valve |-> 0, mode |-> "RUNNING"]
    /\ cools = [k \in Keys |-> None]
    /\ logged = [k \in Keys |-> None] /\ failed = {}
    /\ p = [copies |-> <<>>, heard |-> {}, foreign |-> 0,
            commands |-> <<>>, setpoints |-> <<>>,
            life |-> 0, mode |-> "RUNNING", cut |-> FALSE]

Init ==
    /\ wire = <<>> /\ seq = 0 /\ life = 1 /\ plant_mode = "RUNNING"
    /\ now = 0 /\ others = 0
    /\ NewDetector(last_seq, last_h, frozen_count, setpoint_history, command_times,
                   current_state, cooldowns, alerted, lost, past)

-----------------------------------------------------------------------------
(* The bus and the processes *)

\* A TelemetryMessage as it is received; life is history, 0 in a foreign one.
Copy(s, n) == [sample |-> s, seq |-> n, life |-> life]

\* One sample on two topics.  The mode that counts here is that of the last
\* sample the plant has published.
PlantPublishes(s) ==
    /\ seq < MaxSeq /\ Len(wire) + 2 <= MaxWire
    /\ seq' = seq + 1
    /\ plant_mode' = s.mode
    /\ wire' = IF Subscribed THEN wire \o <<Copy(s, seq'), Copy(s, seq')>> ELSE <<>>
    /\ UNCHANGED <<life, now, detector, alerts, past, others>>

\* Somebody else publishes, too.  What the plant has published is not at the
\* broker yet, so the frame comes before, between or after its copies.
PublishForeign(m, i) ==
    /\ Subscribed /\ Len(wire) < MaxWire /\ others < MaxOthers
    /\ others' = others + 1
    /\ wire' = SubSeq(wire, 1, i) \o <<m>> \o SubSeq(wire, i + 1, Len(wire))
    /\ UNCHANGED <<plant, now, detector, alerts, past>>

\* A new plant process counts its samples from 1 again.
PlantRestarts ==
    /\ life < MaxLives
    /\ life' = life + 1 /\ seq' = 0 /\ plant_mode' = "RUNNING"
    /\ UNCHANGED <<wire, now, detector, alerts, past, others>>

\* QoS 0: a message the broker could not deliver is gone.
Lose ==
    /\ wire # <<>>
    /\ wire' = Tail(wire)
    /\ UNCHANGED <<plant, now, detector, alerts, past, others>>

Tick ==
    /\ now < MaxTime
    /\ now' = now + 1
    /\ UNCHANGED <<wire, plant, detector, alerts, past, others>>

\* A new detector process: nothing is read back, and what was on its way to
\* the old one is not kept for it.
DetectorRestarts ==
    /\ NewDetector(last_seq', last_h', frozen_count', setpoint_history',
                   command_times', current_state', cooldowns', alerted', lost', past')
    /\ wire' = <<>>
    /\ UNCHANGED <<plant, now, others>>

-----------------------------------------------------------------------------
(* security/detector.py: the two handlers *)

\* process_telemetry of a frame that float() raises on: the temporal part has
\* taken its number by then.
FailTelemetry ==
    /\ wire # <<>> /\ Head(wire).sample = None
    /\ wire' = Tail(wire)
    /\ last_seq' = LastSeq(Head(wire).seq)
    /\ past' = [past EXCEPT !.life = IF Head(wire).seq # None THEN 0 ELSE @]
    /\ UNCHANGED <<plant, now, behaviour, current_state, alerts, others>>

\* compute_residual: whether the level is more than REPLAY_TOLERANCE from the
\* shadow model's.  The floats are not modelled: it may be or not.
Residuals == BOOLEAN

\* process_telemetry of the copy or foreign frame at the head of the wire.  The
\* residual is reported before the behavioural checks are made, so a failure
\* there leaves them out; current_state is replaced only by a handler that gets
\* to its end.
HandleTelemetry(diverges, failed) ==
    LET copy   == Head(wire)
        s      == copy.sample
        frozen == FrozenCount(s.h, s.pump)
        candidates ==
            Chosen("residual", diverges)
            \cup Chosen("frozen", frozen >= FrozenSamples)
            \cup Chosen("pressure", s.over /\ s.mode # "MAINTENANCE")
        window == Append(past.copies, [h |-> s.h, pump |-> s.pump])
    IN  /\ wire # <<>> /\ s # None
        /\ wire' = Tail(wire)
        /\ last_seq' = LastSeq(copy.seq)
        /\ Emit(candidates, failed)
        /\ IF failed = "residual"
           THEN UNCHANGED <<last_h, frozen_count>>
           ELSE last_h' = s.h /\ frozen_count' = frozen
        /\ current_state' =
              IF failed = None
              THEN [h |-> s.h, pump |-> s.pump, valve |-> s.valve, mode |-> s.mode]
              ELSE current_state
        /\ past' = [past EXCEPT
                      !.copies = IF failed = "residual" THEN @
                                 ELSE IF Len(window) > FrozenSamples + 1 THEN Tail(window)
                                 ELSE window,
                      !.heard = IF copy.life > 0 THEN @ \cup {<<copy.life, copy.seq>>}
                                ELSE @,
                      !.foreign = IF copy.life > 0 THEN @ ELSE @ + 1,
                      !.life = IF copy.seq # None THEN copy.life ELSE @,
                      !.mode = s.mode,
                      !.cut = failed # None]
        /\ UNCHANGED <<plant, now, setpoint_history, command_times, others>>

\* process_command.  The setpoint is recorded last, just before its check.
HandleCommand(c, failed) ==
    LET times   == CommandTimes
        history == SetpointHistory(c.sp)
        recorded == c.sp # None /\ Reached("drift", failed)
        suppressible ==
            Chosen("oscillation", Len(times) >= CommandLimit)
            \cup Chosen("rule_a", RuleA(c)) \cup Chosen("rule_b", RuleB(c))
            \cup Chosen("trajectory", Overfills(c))
        candidates ==
            (IF InMaintenance THEN {} ELSE suppressible)
            \cup Chosen("drift", c.sp # None /\ Drifting(history))
    IN  /\ Len(past.commands) < MaxCommands
        /\ command_times' = times
        /\ Emit(candidates, failed)
        /\ setpoint_history' =
              IF recorded THEN history ELSE setpoint_history
        /\ past' = [past EXCEPT
                      !.commands = Append(@, now),
                      !.setpoints = IF recorded THEN Append(@, <<now, c.sp>>) ELSE @]
        /\ UNCHANGED <<wire, plant, now, last_seq, last_h, frozen_count, current_state,
                       others>>

TelemetryFailures == {"residual", "frozen", "pressure", None}
CommandFailures == (Keys \cup {None}) \ {"residual", "frozen", "pressure"}

Next ==
    \/ \E s \in Samples : PlantPublishes(s)
    \/ \E m \in Foreign, i \in 0..Len(wire) : PublishForeign(m, i)
    \/ PlantRestarts \/ Lose \/ Tick \/ DetectorRestarts \/ FailTelemetry
    \/ \E d \in Residuals, f \in TelemetryFailures : HandleTelemetry(d, f)
    \/ \E c \in Commands, f \in CommandFailures : HandleCommand(c, f)

Spec == Init /\ [][Next]_vars

-----------------------------------------------------------------------------
(* Properties *)

Time == 0..MaxTime
Suppressible == {"oscillation", "rule_a", "rule_b", "trajectory"}

\* An alert of this kind is raised in a step: its cooldown starts.
Raised(k) == cooldowns'[k] # cooldowns[k] /\ cooldowns'[k] # None

\* Every variable has the values its code can give it.
TypeOK ==
    /\ seq \in 0..MaxSeq /\ life \in 1..MaxLives /\ now \in Time
    /\ last_seq \in 1..MaxSeq \cup {None}
    /\ frozen_count \in 0..(2 * MaxSeq * MaxLives + MaxOthers)
    /\ others \in 0..MaxOthers
    /\ command_times \in Seq(Time) /\ setpoint_history \in Seq(Time \X Int)
    /\ cooldowns \in [Keys -> Time \cup {None}]
    /\ alerted \in [Keys -> Time \cup {None}]
    /\ lost \subseteq Keys

\* A kind of alert is silenced only on account of an alert that was logged,
\* except after a failure of the database: repeats that are suppressed do not
\* prolong the silence.
SilenceIsEarned == \A k \in Keys : cooldowns[k] # alerted[k] => k \in lost

\* A persistent over-pressure is not forgotten: whenever a copy that reports it
\* outside maintenance is handled to the end, an alert of it was logged less
\* than a cooldown ago, or the logging of one has failed.
OverPressureAlerted ==
    [][ \A d \in Residuals :
          HandleTelemetry(d, None)
          /\ Head(wire).sample.over /\ Head(wire).sample.mode # "MAINTENANCE"
          => \/ "pressure" \in lost'
             \/ /\ alerted'["pressure"] # None
                /\ now - alerted'["pressure"] < Cooldown ]_vars

\* The counter of the frozen feed means what its alert says: FROZEN_SAMPLES
\* copies in a row repeated the level before them with the pump running.  No
\* sample of the plant counts more than twice, none of others more than once,
\* and the first heard once less, so that without others an alert takes more
\* than half as many samples (and not all of them, FrozenTakesSamples).
FrozenExact ==
    /\ frozen_count >= FrozenSamples <=>
          /\ Len(past.copies) = FrozenSamples + 1
          /\ \A i \in DOMAIN past.copies : past.copies[i].h = past.copies[1].h
          /\ \A i \in DOMAIN past.copies : i > 1 => past.copies[i].pump > 0
    /\ frozen_count > 0 => frozen_count < 2 * Cardinality(past.heard) + past.foreign

\* While the last number taken in is one of a plant process, whatever was lost,
\* cut short or came without a number, the next copy of this process is taken
\* for a replay just if its sample was heard before, and a frame of somebody
\* else just if its number is not beyond all that were heard of this process.
\* (A foreign number that is taken in spoils the next verdict, and no other.)
ReplayIffHeard ==
    wire # <<>> /\ past.life > 0 /\ Head(wire).seq # None =>
        LET copy == Head(wire)
            reached == { x[2] : x \in { y \in past.heard : y[1] = past.life } }
        IN  /\ copy.life = past.life => (Replayed(copy.seq) <=> copy.seq \in reached)
            /\ copy.life = 0 => (Replayed(copy.seq) <=> \E n \in reached : copy.seq <= n)

\* The two sliding windows, pruned at every use, forget nothing they must
\* count: they agree with the complete history.
WindowsExact ==
    /\ past.commands # <<>> =>
          Len(command_times) =
          Cardinality({ i \in DOMAIN past.commands :
              past.commands[Len(past.commands)] - past.commands[i] <= CommandWindow })
    /\ past.setpoints # <<>> =>
          Len(setpoint_history) =
          Cardinality({ i \in DOMAIN past.setpoints :
              past.setpoints[Len(past.setpoints)][1] - past.setpoints[i][1] <= DriftWindow })

\* Once a copy that says MAINTENANCE has been handled without a failure, no
\* command raises a rule, oscillation or trajectory alert until another mode
\* is heard.
MaintenanceRespected ==
    [][ past.mode = "MAINTENANCE" /\ ~ past.cut
        => \A k \in Suppressible : ~ Raised(k) ]_vars

\* The cooldowns are a rate limiter for each kind of alert by itself: nothing
\* but the passage of Period opens a kind again, and no kind closes another.
Limiter == INSTANCE RateLimiter WITH
              Kinds <- Keys, Period <- Cooldown, Never <- None,
              since <- cooldowns, clock <- now
LimitsRate == Limiter!Spec

-----------------------------------------------------------------------------
(* What the repository says of the program and the code does not do *)

\* "Expected: 0 false alarms during routine maintenance testing"
\* (scenarios/legitimate_maintenance.py).  The plant has long reported
\* MAINTENANCE, and nothing is on the wire.
QuietInMaintenance ==
    [][ plant_mode = "MAINTENANCE" /\ wire = <<>>
        => \A k \in Suppressible : ~ Raised(k) ]_vars

\* "Number of identical level samples while pump runs to trigger frozen feed"
\* (core/config.py): an alert takes that many samples.
FrozenTakesSamples ==
    [][ Raised("frozen") => Cardinality(past'.heard) >= FrozenSamples ]_vars
=============================================================================
