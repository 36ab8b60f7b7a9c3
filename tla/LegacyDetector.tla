-------------------------- MODULE LegacyDetector --------------------------
(***************************************************************************)
(* detector.py: the process-aware detector of the first version, which     *)
(* still runs beside the plant on its own two topics, plant/telemetry and  *)
(* plant/commands.  It is advisory and keeps everything in memory.         *)
(*                                                                         *)
(* One network thread handles one message at a time.  The plant's samples  *)
(* come in order, each once, late or never (QoS 0).  Anybody may publish   *)
(* on both topics: what the syntax check refuses, or a well-formed sample, *)
(* recorded or made up, with any number or none.  The plant and the        *)
(* detector may be started again at any time.  A message that passes the   *)
(* syntax check and breaks a later line ends the process: paho raises      *)
(* again what on_message raised, and that is one more cause of a restart.  *)
(*                                                                         *)
(* Levels, positions and flows are on the grid of ForwardSimulation, times *)
(* are ticks, and the processes' clocks agree.  Whether a level deviates   *)
(* from the shadow model's is left open where the code looks at it.        *)
(***************************************************************************)
EXTENDS ForwardSimulation, SlidingWindow, FiniteSets, FiniteSetsExt

CONSTANTS
    RuleAHeight,    \* grid value of RULE_A_HEIGHT
    StartLevel,     \* grid value of the level a new detector assumes (0.5 m)
    StartValve,     \* and of the valve position it assumes (60%)
    Samples,        \* what the plant can report: [h, pump, valve, over, odd]
    Foreign,        \* samples others can publish: [sample, seq, ts, life]
    Commands,       \* what a command can say: [action, value]
    Cooldown,       \* ALERT_COOLDOWN
    FrozenSamples,  \* FROZEN_SAMPLES
    StaleAfter,     \* TELEMETRY_STALE_AFTER
    GapMax,         \* SEQUENCE_GAP_MAX
    AgeTolerance,   \* REPLAY_TIME_TOLERANCE
    PredictionDt,   \* PREDICTION_DT
    DriftWindow,    \* SETPOINT_DRIFT_WINDOW
    DriftLimit,     \* SETPOINT_DRIFT_LIMIT
    MaxTime,        \* bound of the model on the clock
    MaxSeq,         \* bound of the model on the plant's sequence number plus its life
    MaxLives,       \* bound of the model on the lives of the plant process
    MaxWire,        \* bound of the model on the messages on their way
    MaxOthers       \* bound of the model on the messages of others than the plant

\* over and odd are what the reported pressure is: above MAX_SAFE_PRESSURE,
\* and off by more than the tolerance from that of the level.  An action
\* "malformed" stands for everything _validate_command refuses.
ASSUME LegacyAssumption ==
    /\ RuleAHeight \in Level /\ StartLevel \in Level /\ StartValve \in Pct
    /\ Samples \subseteq [h : Level, pump : Pct, valve : Pct,
                          over : BOOLEAN, odd : BOOLEAN]
    /\ None \notin Samples
    /\ Foreign \subseteq [sample : Samples, seq : 1..MaxSeq \cup {None},
                          ts : 0..MaxTime, life : {0}]
    /\ Commands \subseteq [action : {"pump", "valve"}, value : Pct]
          \cup [action : {"setpoint"}, value : Level]
          \cup [action : {"malformed"}, value : {None}]
    /\ Cooldown \in Nat \ {0} /\ FrozenSamples \in Nat \ {0}
    /\ StaleAfter \in Nat /\ GapMax \in Nat \ {0} /\ AgeTolerance \in Nat
    /\ PredictionDt \in Nat \ {0}
    /\ DriftWindow \in Nat /\ DriftLimit \in Nat
    /\ MaxTime \in Nat /\ MaxSeq \in Nat /\ MaxLives \in Nat \ {0}
    /\ MaxWire \in Nat /\ MaxOthers \in Nat

VARIABLES
    wire,                \* the telemetry on its way, a sequence
    seq, life,           \* the plant's sequence number; which start of it (history)
    now,                 \* time.time()
    state,               \* AnomalyDetector.state, [h, pump, valve]
    last_telemetry_time, \* when telemetry was last taken in
    shadow_time,         \* when the shadow model was last set
    last_seq,            \* the last sequence number taken in
    last_h,              \* the last level taken in
    frozen_count,
    setpoint_history,    \* <<time, setpoint>>
    cooldowns,           \* _cooldowns
    past,                \* history: what this detector has been sent
    others               \* messages published by others than the plant

plant == <<seq, life>>
feed == <<state, last_telemetry_time, shadow_time, last_seq, last_h, frozen_count>>
vars == <<wire, plant, now, feed, setpoint_history, cooldowns, past, others>>

Keys == {"syntax-telemetry", "syntax-command", "syntax-json",
         "seq-replay", "seq-gap", "ts-future", "ts-stale", "spoof", "frozen",
         "rule-c", "pressure-inconsistent", "stale", "rule-a", "rule-b",
         "model-overfill", "model-dry", "setpoint-drift"}

-----------------------------------------------------------------------------
(* _emit *)

\* Mutant of Cooling: one clock for all the kinds of alert.
CoolingTogether(k) == \E j \in Keys : cooldowns[j] # None /\ now - cooldowns[j] < Cooldown

Cooling(k) == cooldowns[k] # None /\ now - cooldowns[k] < Cooldown

\* Mutant of Emit: a suppressed repeat starts the cooldown again.
EmitProlonging(candidates) ==
    cooldowns' = [k \in Keys |-> IF k \in candidates THEN now ELSE cooldowns[k]]

\* A handler's candidates are raised unless their kind is cooling down.
Emit(candidates) ==
    cooldowns' = [k \in Keys |->
                    IF k \in candidates /\ ~ Cooling(k) THEN now ELSE cooldowns[k]]

Chosen(key, condition) == IF condition THEN {key} ELSE {}

-----------------------------------------------------------------------------
(* process_telemetry *)

\* A message of the plant as it is received; life is history, 0 in those of
\* others.  Malformed stands for everything _validate_telemetry refuses.
Message(s, n) == [sample |-> s, seq |-> n, ts |-> now, life |-> life]
Malformed == [sample |-> None, seq |-> None, ts |-> 0, life |-> 0]

Comparable(m) == m.seq # None /\ last_seq # None
Replayed(m) == Comparable(m) /\ m.seq <= last_seq

\* Mutant of Gap: the allowed gap is already one too many.
GapEarly(m) == Comparable(m) /\ m.seq - last_seq >= GapMax

Gap(m) == Comparable(m) /\ m.seq - last_seq > GapMax

\* The number known after a sample
LastSeq(m) == IF m.seq # None THEN m.seq ELSE last_seq

\* The deviation from the shadow model is looked at after PREDICTION_DT only.
Deviations == IF now - shadow_time >= PredictionDt THEN BOOLEAN ELSE {FALSE}

\* Mutant of FrozenCount: the counter is stepped back, not reset.
FrozenCountDown(s) ==
    IF last_h # None /\ s.pump > 0 /\ state.pump > 0 /\ s.h = last_h
    THEN frozen_count + 1
    ELSE frozen_count - 1

\* Mutant of FrozenCount: another level does not end the row.
FrozenCountKept(s) ==
    IF last_h # None /\ s.pump > 0 /\ state.pump > 0
    THEN IF s.h = last_h THEN frozen_count + 1 ELSE frozen_count
    ELSE 0

\* The count after a sample: it and the one before must both report a running
\* pump (0 stands for at most 5%).
FrozenCount(s) ==
    IF last_h # None /\ s.pump > 0 /\ state.pump > 0 /\ s.h = last_h
    THEN frozen_count + 1
    ELSE 0

\* What the layers find in a sample, and what its timestamp says
TelemetryCandidates(m, deviates) ==
    Chosen("seq-replay", Replayed(m)) \cup Chosen("seq-gap", Gap(m))
    \cup Chosen("ts-future", m.ts > now + AgeTolerance)
    \cup Chosen("ts-stale", now - m.ts > AgeTolerance)
    \cup Chosen("spoof", deviates)
    \cup Chosen("frozen", FrozenCount(m.sample) >= FrozenSamples)
    \cup Chosen("rule-c", m.sample.over)
    \cup Chosen("pressure-inconsistent", m.sample.odd)

-----------------------------------------------------------------------------
(* process_command *)

Stale == now - last_telemetry_time > StaleAfter

RuleA(c) == /\ c.action = "pump" /\ c.value > 0
            /\ state.valve = 0 /\ state.h > RuleAHeight
RuleB(c) == /\ c.action = "pump" /\ c.value = 0
            /\ state.valve = Full /\ state.h < MinSafe

\* The forecast from the last known state with the command applied
PumpUnder(c) == IF c.action = "pump" THEN c.value ELSE state.pump
ValveUnder(c) == IF c.action = "valve" THEN c.value ELSE state.valve
ForecastOf(c) == ForwardSimulate(PumpUnder(c), ValveUnder(c), state.h)

\* Append, then drop what has left the window
SetpointHistory(c) ==
    IF c.action = "setpoint"
    THEN Kept(Append(setpoint_history, <<now, c.value>>),
              { e \in Int \X Int : e[1] >= now - DriftWindow })
    ELSE setpoint_history

Drifting(c) ==
    LET values == { SetpointHistory(c)[i][2] : i \in DOMAIN SetpointHistory(c) }
    IN  /\ c.action = "setpoint" /\ Len(SetpointHistory(c)) >= 3
        /\ Max(values) - Min(values) > DriftLimit

\* What the layers find in a well-formed command.  A forecast that repeats the
\* rule which has fired is left out, whether or not that rule's alert was
\* suppressed by its cooldown.
CommandCandidates(c) ==
    LET moves == c.action \in {"pump", "valve"}
        forecast == ForecastOf(c)
    IN  Chosen("stale", Stale)
        \cup Chosen("rule-a", RuleA(c)) \cup Chosen("rule-b", RuleB(c))
        \cup Chosen("model-overfill",
                    moves /\ ~ RuleA(c) /\ forecast.overfill # None)
        \cup Chosen("model-dry", moves /\ ~ RuleB(c) /\ forecast.dry # None)
        \cup Chosen("setpoint-drift", Drifting(c))

-----------------------------------------------------------------------------
\* __init__.  past keeps the last FROZEN_SAMPLES + 1 samples taken in, the
\* time of the last of them (or of the start), the plant's life the last number
\* is from (0: it is not the plant's), and how many of that life's samples were
\* lost since.
NewDetector(s, taken, shadow, n, h, frozen, setpoints, cools, p, at) ==
    /\ s = [h |-> StartLevel, pump |-> 0, valve |-> StartValve]
    /\ taken = at /\ shadow = at
    /\ n = None /\ h = None /\ frozen = 0
    /\ setpoints = <<>>
    /\ cools = [k \in Keys |-> None]
    /\ p = [samples |-> <<>>, life |-> 0, time |-> at, missed |-> 0]

Init ==
    /\ wire = <<>> /\ seq = 0 /\ life = 1 /\ now = 0 /\ others = 0
    /\ NewDetector(state, last_telemetry_time, shadow_time, last_seq, last_h,
                   frozen_count, setpoint_history, cooldowns, past, 0)

-----------------------------------------------------------------------------
(* The bus and the processes *)

\* The plant controller publishes each sample on the first version's topic too.
PlantPublishes(s) ==
    /\ seq + life < MaxSeq /\ Len(wire) < MaxWire
    /\ seq' = seq + 1
    /\ wire' = Append(wire, Message(s, seq'))
    /\ UNCHANGED <<life, now, feed, setpoint_history, cooldowns, past, others>>

\* Anybody else publishes on one of the two topics.
Other == others < MaxOthers /\ others' = others + 1

PublishMalformed ==
    /\ Len(wire) < MaxWire /\ Other
    /\ wire' = Append(wire, Malformed)
    /\ UNCHANGED <<plant, now, feed, setpoint_history, cooldowns, past>>

\* A sample recorded before or made up, or that of a second plant
PublishForeign(m) ==
    /\ Len(wire) < MaxWire /\ Other
    /\ wire' = Append(wire, m)
    /\ UNCHANGED <<plant, now, feed, setpoint_history, cooldowns, past>>

PlantRestarts ==
    /\ life < MaxLives
    /\ life' = life + 1 /\ seq' = 0
    /\ UNCHANGED <<wire, now, feed, setpoint_history, cooldowns, past, others>>

Lose ==
    /\ wire # <<>>
    /\ wire' = Tail(wire)
    /\ past' = [past EXCEPT !.missed = IF past.life > 0 /\ Head(wire).life = past.life
                                       THEN @ + 1 ELSE @]
    /\ UNCHANGED <<plant, now, feed, setpoint_history, cooldowns, others>>

Tick ==
    /\ now < MaxTime
    /\ now' = now + 1
    /\ UNCHANGED <<wire, plant, feed, setpoint_history, cooldowns, past, others>>

\* The process is ended and started again; it subscribes anew.
DetectorRestarts ==
    /\ NewDetector(state', last_telemetry_time', shadow_time', last_seq', last_h',
                   frozen_count', setpoint_history', cooldowns', past', now)
    /\ wire' = <<>>
    /\ UNCHANGED <<plant, now, others>>

-----------------------------------------------------------------------------
(* on_message *)

\* What json.loads does not accept, on either topic
HandleUnparseable ==
    /\ Other
    /\ Emit({"syntax-json"})
    /\ UNCHANGED <<wire, plant, now, feed, setpoint_history, past>>

\* Mutant of RefuseTelemetry: a refused message counts as a sign of life.
RefuseTelemetryAlive ==
    /\ wire # <<>> /\ Head(wire).sample = None
    /\ wire' = Tail(wire)
    /\ Emit({"syntax-telemetry"})
    /\ last_telemetry_time' = now
    /\ UNCHANGED <<plant, now, state, shadow_time, last_seq, last_h, frozen_count,
                   setpoint_history, past, others>>

\* process_telemetry of a malformed message
RefuseTelemetry ==
    /\ wire # <<>> /\ Head(wire).sample = None
    /\ wire' = Tail(wire)
    /\ Emit({"syntax-telemetry"})
    /\ UNCHANGED <<plant, now, feed, setpoint_history, past, others>>

\* process_telemetry of a sample: it is taken in whatever it is accused of.
HandleTelemetry(deviates) ==
    LET m == Head(wire)
        s == m.sample
        window == Append(past.samples, [h |-> s.h, pump |-> s.pump])
    IN  /\ wire # <<>> /\ s # None
        /\ wire' = Tail(wire)
        /\ Emit(TelemetryCandidates(m, deviates))
        /\ state' = [h |-> s.h, pump |-> s.pump, valve |-> s.valve]
        /\ last_telemetry_time' = now /\ shadow_time' = now
        /\ last_seq' = LastSeq(m) /\ last_h' = s.h
        /\ frozen_count' = FrozenCount(s)
        /\ past' = [samples |-> IF Len(window) > FrozenSamples + 1
                                THEN Tail(window) ELSE window,
                    life |-> IF m.seq # None THEN m.life ELSE past.life,
                    time |-> now,
                    missed |-> IF m.seq # None THEN 0 ELSE past.missed]
        /\ UNCHANGED <<plant, now, setpoint_history, others>>

\* process_command of a malformed message
RefuseCommand(c) ==
    /\ c.action = "malformed"
    /\ Other
    /\ Emit({"syntax-command"})
    /\ UNCHANGED <<wire, plant, now, feed, setpoint_history, past>>

\* process_command
HandleCommand(c) ==
    /\ c.action # "malformed"
    /\ Other
    /\ Emit(CommandCandidates(c))
    /\ setpoint_history' = SetpointHistory(c)
    /\ UNCHANGED <<wire, plant, now, feed, past>>

Next ==
    \/ \E s \in Samples : PlantPublishes(s)
    \/ \E m \in Foreign : PublishForeign(m)
    \/ PublishMalformed \/ PlantRestarts \/ Lose \/ Tick \/ DetectorRestarts
    \/ HandleUnparseable \/ RefuseTelemetry
    \/ \E d \in Deviations : HandleTelemetry(d)
    \/ \E c \in Commands : RefuseCommand(c) \/ HandleCommand(c)

Spec == Init /\ [][Next]_vars

-----------------------------------------------------------------------------
(* Properties *)

Time == 0..MaxTime

\* Every variable has the values its code can give it.
TypeOK ==
    /\ seq \in 0..MaxSeq /\ life \in 1..MaxLives /\ now \in Time
    /\ state \in [h : Level, pump : Pct, valve : Pct]
    /\ last_telemetry_time \in Time /\ shadow_time \in Time
    /\ last_seq \in 1..MaxSeq \cup {None}
    /\ last_h \in Level \cup {None}
    /\ frozen_count \in Nat
    /\ setpoint_history \in Seq(Time \X Level)
    /\ cooldowns \in [Keys -> Time \cup {None}]
    /\ others \in 0..MaxOthers

\* An alert of this kind was raised less than a cooldown ago.
Recent(k) == cooldowns'[k] # None /\ now - cooldowns'[k] < Cooldown

\* The counter of the frozen feed means what its alert says: FROZEN_SAMPLES
\* samples in a row repeated the level before them, all with a running pump;
\* refused messages in between count neither way.
FrozenExact ==
    frozen_count >= FrozenSamples <=>
        /\ Len(past.samples) = FrozenSamples + 1
        /\ \A i \in DOMAIN past.samples : /\ past.samples[i].h = past.samples[1].h
                                          /\ past.samples[i].pump > 0

\* Where the last number taken in and the next are both of one plant process,
\* the verdict is what happened: no repetition, and a gap just if that many
\* samples were lost in between, whatever was refused or came without a number.
\* So a repetition means a restart of the plant or a stranger's number, and
\* such a number spoils the verdict on the plant's next sample only.
SequenceVerdictsExact ==
    wire # <<>> /\ Head(wire).life > 0 /\ Head(wire).life = past.life =>
        /\ ~ Replayed(Head(wire))
        /\ Gap(Head(wire)) <=> past.missed >= GapMax

\* The forecast a command is judged by is that of the whole horizon, although
\* the loop is left early.
ForecastExact ==
    [][ \A c \in Commands :
          c.action \in {"pump", "valve"} /\ HandleCommand(c)
          => Faithful(PumpUnder(c), ValveUnder(c), state.h) ]_vars

\* A command that would take the last known level to MAX_SAFE_HEIGHT is never
\* passed over: an alert of the rule or of the model was raised less than a
\* cooldown ago, whatever else was raised, suppressed or left out as repeated.
Threatens(c) ==
    /\ c.action \in {"pump", "valve"}
    /\ LET level == Trajectory(PumpUnder(c), ValveUnder(c), state.h)
       IN  \E i \in 1..Steps : level[i] >= MaxSafe
OverfillNotSilent ==
    [][ \A c \in Commands :
          HandleCommand(c) /\ Threatens(c) => Recent("rule-a") \/ Recent("model-overfill")
      ]_vars

\* A command judged without a sample taken in for longer than
\* TELEMETRY_STALE_AFTER has an alert that says so; messages that were refused
\* do not pass for telemetry.
StaleContextAlerted ==
    [][ now - past.time > StaleAfter /\ (\E c \in Commands : HandleCommand(c))
        => Recent("stale") ]_vars

\* The cooldowns are a rate limiter for each kind of alert by itself.
Limiter == INSTANCE RateLimiter WITH
              Kinds <- Keys, Period <- Cooldown, Never <- None,
              since <- cooldowns, clock <- now
LimitsRate == Limiter!Spec
=============================================================================
