----------------------- MODULE SecurityMonitorProofs -----------------------
(***************************************************************************)
(* What the detector keeps and what its alert manager promises, for every  *)
(* set of samples and commands, every forecast, cooldown and window, every *)
(* loss, restart and failure of the database, and whatever others publish, *)
(* proved from MonitorAssumption and NoneIsNoKey.                          *)
(*                                                                         *)
(* Every change of the cooldowns is an Emit or a new detector, so each     *)
(* invariant of the alerts needs one lemma about Emit and no case for each *)
(* handler.  What the detector has heard is related to a history by an     *)
(* invariant for each part: RowInv (the frozen feed), OrderInv (sequence   *)
(* numbers), PairInv (the two copies of a sample), WindowInv (the windows, *)
(* whose filter is a recursion that DataLemmas unfolds) and CountInv (how  *)
(* far the counter can go).  The order and the pairs are those of the      *)
(* plant's copies only, whatever frames of others lie between them: taking *)
(* the head off the wire and putting a frame of others on it both leave    *)
(* the copies that were there in their order (Within).                     *)
(***************************************************************************)
EXTENDS SecurityMonitor, FiniteSetTheorems, DataLemmas, TLAPS

\* The clock has passed every cooldown's beginning, and every logged alert
\* began the cooldown that is now in force or an earlier one.
TimesInv ==
    /\ now \in Nat
    /\ \A k \in Keys :
          /\ cooldowns[k] # None => cooldowns[k] \in Nat /\ cooldowns[k] <= now
          /\ alerted[k] # None => /\ cooldowns[k] # None
                                  /\ alerted[k] \in Nat /\ alerted[k] <= cooldowns[k]

\* The mode that suppresses is the one last heard, when it was heard to the end.
ModeInv ==
    /\ DOMAIN past = {"copies", "heard", "foreign", "commands", "setpoints",
                      "life", "mode", "cut"}
    /\ past.mode = "MAINTENANCE" /\ ~ past.cut => current_state.mode = "MAINTENANCE"

\* What a step does to the alert manager: nothing, one handler's candidates
\* (with the clock standing still), or a new one.
Untouched == UNCHANGED alerts
Emits == UNCHANGED now /\ \E candidates, failed : Emit(candidates, failed)
Renewed == /\ UNCHANGED now
           /\ cooldowns' = [k \in Keys |-> None] /\ alerted' = [k \in Keys |-> None]
           /\ lost' = {}

-----------------------------------------------------------------------------
\* Every step of the detector, the plant, the bus or the clock is one of the
\* three kinds; only the clock's moves the clock, forward.
LEMMA StepKinds ==
    ASSUME [Next]_vars
    PROVE  /\ Untouched \/ Emits \/ Renewed
           /\ UNCHANGED now \/ (now' = now + 1 /\ Untouched)
<1>1. CASE \E s \in Samples : PlantPublishes(s)
  BY <1>1 DEF PlantPublishes, Untouched
<1>2. CASE PlantRestarts
  BY <1>2 DEF PlantRestarts, Untouched
<1>3. CASE Lose
  BY <1>3 DEF Lose, Untouched
<1>4. CASE Tick
  BY <1>4 DEF Tick, Untouched
<1>5. CASE DetectorRestarts
  BY <1>5 DEF DetectorRestarts, NewDetector, Renewed
<1>6. CASE \E d \in Residuals, f \in TelemetryFailures : HandleTelemetry(d, f)
  BY <1>6 DEF HandleTelemetry, Emits
<1>7. CASE \E c \in Commands, f \in CommandFailures : HandleCommand(c, f)
  BY <1>7 DEF HandleCommand, Emits
<1>8. CASE \E m \in Foreign, i \in 0..Len(wire) : PublishForeign(m, i)
  BY <1>8 DEF PublishForeign, Untouched
<1>9. CASE FailTelemetry
  BY <1>9 DEF FailTelemetry, Untouched
<1>10. CASE UNCHANGED vars
  BY <1>10 DEF vars, Untouched
<1> QED
  BY <1>1, <1>2, <1>3, <1>4, <1>5, <1>6, <1>7, <1>8, <1>9, <1>10 DEF Next

\* emit_alert keeps the account of the silences: what begins a cooldown is
\* logged at once or has failed.
LEMMA EmitEarns ==
    ASSUME NEW candidates, NEW failed, Emit(candidates, failed), SilenceIsEarned
    PROVE  SilenceIsEarned'
<1> DEFINE begun == { k \in Fresh(candidates) : Reached(k, failed) }
           logged == begun \ {failed}
<1> SUFFICES ASSUME NEW k \in Keys, cooldowns'[k] # alerted'[k]
             PROVE  k \in lost'
  BY DEF SilenceIsEarned
<1>1. /\ cooldowns'[k] = IF k \in begun THEN now ELSE cooldowns[k]
      /\ alerted'[k] = IF k \in logged THEN now ELSE alerted[k]
      /\ lost' = (lost \ logged) \cup ({failed} \ {None})
  BY DEF Emit
<1>2. CASE k \in begun
  BY <1>1, <1>2, NoneIsNoKey
<1>3. CASE k \notin begun
  BY <1>1, <1>3 DEF SilenceIsEarned
<1> QED
  BY <1>2, <1>3

\* emit_alert keeps the order of the times.
LEMMA EmitTimes ==
    ASSUME NEW candidates, NEW failed, Emit(candidates, failed), TimesInv, UNCHANGED now
    PROVE  TimesInv'
<1> DEFINE begun == { k \in Fresh(candidates) : Reached(k, failed) }
           logged == begun \ {failed}
<1>1. now' \in Nat
  BY DEF TimesInv
<1>2. ASSUME NEW k \in Keys
      PROVE  /\ cooldowns'[k] # None => cooldowns'[k] \in Nat /\ cooldowns'[k] <= now'
             /\ alerted'[k] # None => /\ cooldowns'[k] # None
                                      /\ alerted'[k] \in Nat
                                      /\ alerted'[k] <= cooldowns'[k]
  <2>1. /\ cooldowns'[k] = IF k \in begun THEN now ELSE cooldowns[k]
        /\ alerted'[k] = IF k \in logged THEN now ELSE alerted[k]
    BY DEF Emit
  <2>2. now # None
    BY MonitorAssumption DEF TimesInv
  <2>3. logged \subseteq begun
    OBVIOUS
  <2> HIDE DEF begun, logged
  <2> QED
    BY <2>1, <2>2, <2>3 DEF TimesInv
<1> QED
  BY <1>1, <1>2 DEF TimesInv

\* emit_alert raises nothing but the candidates it is given.
LEMMA EmitRaises ==
    ASSUME NEW candidates, NEW failed, Emit(candidates, failed),
           NEW k \in Keys, k \notin candidates
    PROVE  ~ Raised(k)
  BY DEF Emit, Fresh, Raised

-----------------------------------------------------------------------------
\* The account of the silences is kept by every step.
LEMMA EarnedInductive ==
    /\ Init => SilenceIsEarned
    /\ SilenceIsEarned /\ [Next]_vars => SilenceIsEarned'
<1>1. Init => SilenceIsEarned
  BY DEF Init, NewDetector, SilenceIsEarned
<1>2. ASSUME SilenceIsEarned, [Next]_vars
      PROVE  SilenceIsEarned'
  <2>1. CASE Untouched
    BY <1>2, <2>1 DEF Untouched, alerts, SilenceIsEarned
  <2>2. CASE Emits
    BY <1>2, <2>2, EmitEarns DEF Emits
  <2>3. CASE Renewed
    BY <2>3 DEF Renewed, SilenceIsEarned
  <2> QED
    BY <1>2, <2>1, <2>2, <2>3, StepKinds
<1> QED
  BY <1>1, <1>2

\* The order of the times is kept by every step.
LEMMA TimesInductive ==
    /\ Init => TimesInv
    /\ TimesInv /\ [Next]_vars => TimesInv'
<1>1. Init => TimesInv
  BY DEF Init, NewDetector, TimesInv
<1>2. ASSUME TimesInv, [Next]_vars
      PROVE  TimesInv'
  <2>1. CASE Untouched
    <3>1. now' \in Nat /\ now <= now'
      BY <1>2, StepKinds DEF TimesInv
    <3> QED
      BY <1>2, <2>1, <3>1 DEF Untouched, alerts, TimesInv
  <2>2. CASE Emits
    BY <1>2, <2>2, EmitTimes DEF Emits
  <2>3. CASE Renewed
    BY <1>2, <2>3 DEF Renewed, TimesInv
  <2> QED
    BY <1>2, <2>1, <2>2, <2>3, StepKinds
<1> QED
  BY <1>1, <1>2

\* Every step keeps the mode that suppresses up to date: a handler that is cut
\* short says so, one that is not caches the mode.
LEMMA ModeInductive ==
    /\ Init => ModeInv
    /\ ModeInv /\ [Next]_vars => ModeInv'
<1>1. Init => ModeInv
  BY DEF Init, NewDetector, ModeInv
<1>2. ASSUME ModeInv, [Next]_vars
      PROVE  ModeInv'
  <2>1. CASE UNCHANGED <<past, current_state>>
    BY <1>2, <2>1 DEF ModeInv
  <2>2. CASE \E d \in Residuals, f \in TelemetryFailures : HandleTelemetry(d, f)
    <3>1. PICK d \in Residuals, f \in TelemetryFailures : HandleTelemetry(d, f)
      BY <2>2
    <3>2. /\ DOMAIN past' = DOMAIN past
          /\ past'.mode = Head(wire).sample.mode
          /\ past'.cut = (f # None)
      BY <1>2, <3>1 DEF HandleTelemetry, ModeInv
    <3>3. f = None => current_state'.mode = Head(wire).sample.mode
      BY <3>1 DEF HandleTelemetry
    <3> QED
      BY <1>2, <3>2, <3>3 DEF ModeInv
  <2>3. CASE \E c \in Commands, f \in CommandFailures : HandleCommand(c, f)
    <3>1. /\ DOMAIN past' = DOMAIN past
          /\ past'.mode = past.mode /\ past'.cut = past.cut
          /\ current_state' = current_state
      BY <1>2, <2>3 DEF HandleCommand, ModeInv
    <3> QED
      BY <1>2, <3>1 DEF ModeInv
  <2>4. CASE DetectorRestarts
    BY <2>4 DEF DetectorRestarts, NewDetector, ModeInv
  <2>5. CASE FailTelemetry
    <3>1. /\ DOMAIN past' = DOMAIN past
          /\ past'.mode = past.mode /\ past'.cut = past.cut
          /\ current_state' = current_state
      BY <1>2, <2>5 DEF FailTelemetry, ModeInv
    <3> QED
      BY <1>2, <3>1 DEF ModeInv
  <2> QED
    BY <1>2, <2>1, <2>2, <2>3, <2>4, <2>5
       DEF Next, vars, detector, PlantPublishes, PublishForeign, PlantRestarts, Lose, Tick
<1> QED
  BY <1>1, <1>2

-----------------------------------------------------------------------------
\* The values of all that the detector, the bus and the history hold
Sent == [sample : Samples, seq : 1..MaxSeq, life : 1..MaxLives] \cup Foreign
Seen == [h : Int, pump : 0..Full]
Past == [copies : Seq(Seen), heard : SUBSET ((1..MaxLives) \X (1..MaxSeq)),
         foreign : Nat, commands : Seq(Time), setpoints : Seq(Time \X Int),
         life : 0..MaxLives, mode : Modes, cut : BOOLEAN]
TypeInv ==
    /\ wire \in Seq(Sent) /\ past \in Past
    /\ seq \in 0..MaxSeq /\ life \in 1..MaxLives /\ now \in Time
    /\ others \in 0..MaxOthers
    /\ last_seq \in 1..MaxSeq \cup {None}
    /\ last_h \in Int \cup {None} /\ frozen_count \in Nat
    /\ command_times \in Seq(Time) /\ setpoint_history \in Seq(Time \X Int)
    /\ cooldowns \in [Keys -> Time \cup {None}]
    /\ alerted \in [Keys -> Time \cup {None}]
    /\ lost \subseteq Keys

\* The counter of repeated levels counts frames, of which the plant has sent
\* two for each sample of its lives, and others a number of their own.
CountInv == frozen_count + Len(wire) <= 2 * ((life - 1) * MaxSeq + seq) + others

\* The last c copies of w repeat the level of the one before them with the
\* pump running, and no earlier copy does.
Row(w, c) ==
    /\ \A i \in 1..Len(w) : /\ i >= Len(w) - c => w[i].h = w[Len(w)].h
                            /\ i > Len(w) - c => w[i].pump > 0
    /\ Len(w) - c >= 2 =>
          LET j == Len(w) - c IN ~ (w[j].h = w[j - 1].h /\ w[j].pump > 0)

\* The counter counts the row at the end of the copies that reached it, of
\* which the history keeps as many as an alert takes.
RowInv ==
    LET w == past.copies
    IN  /\ Len(w) <= FrozenSamples + 1
        /\ Row(w, frozen_count)
        /\ IF Len(w) = 0
           THEN last_h = None /\ frozen_count = 0
           ELSE last_h = w[Len(w)].h
        /\ 0 < Len(w) /\ Len(w) <= FrozenSamples => frozen_count < Len(w)

\* Number n of life l was sent no later than number m of life k.
NotAfter(l, n, k, m) == l < k \/ (l = k /\ n <= m)

\* The frames that are copies of the plant's samples
Mine(m) == m.life > 0

\* The copies on the wire w are in the order in which they were sent, after all
\* that was heard; the plant is at number n of life l.
Ordered(w, heard, l, n) ==
    /\ \A i, j \in 1..Len(w) :
          i < j /\ Mine(w[i]) /\ Mine(w[j])
          => NotAfter(w[i].life, w[i].seq, w[j].life, w[j].seq)
    /\ \A i \in 1..Len(w) : Mine(w[i]) =>
          /\ NotAfter(w[i].life, w[i].seq, l, n)
          /\ \A x \in heard : NotAfter(x[1], x[2], w[i].life, w[i].seq)
    /\ \A x \in heard : NotAfter(x[1], x[2], l, n)

\* So they are on the bus, and when the detector's number is the plant's, it is
\* that of the last copy heard.
OrderInv ==
    /\ Ordered(wire, past.heard, life, seq)
    /\ past.life > 0 =>
          /\ last_seq # None /\ <<past.life, last_seq>> \in past.heard
          /\ \A x \in past.heard : NotAfter(x[1], x[2], past.life, last_seq)

\* Of each sample there are at most two copies on the wire, with no other copy
\* between them, and only the first copy there can be one of what was heard.
Id(m) == <<m.life, m.seq>>
Paired(w, heard) ==
    /\ \A i, j, k \in 1..Len(w) :
          i < j /\ j < k /\ Mine(w[i]) /\ Mine(w[j]) /\ Mine(w[k])
          => Id(w[i]) # Id(w[k])
    /\ \A i, j \in 1..Len(w) :
          i < j /\ Mine(w[i]) /\ Mine(w[j]) => Id(w[j]) \notin heard

\* Whether a second copy of what was heard is on its way
Second(w, heard) ==
    IF \E i \in 1..Len(w) : Mine(w[i]) /\ Id(w[i]) \in heard THEN 1 ELSE 0

\* So the counter stays below the frames that can have been handled.
Counts(w, heard, foreign, h, count) ==
    IF heard = {} /\ foreign = 0 THEN h = None /\ count = 0
    ELSE count + 1 + Second(w, heard) <= 2 * Cardinality(heard) + foreign
PairInv ==
    /\ Paired(wire, past.heard)
    /\ Counts(wire, past.heard, past.foreign, last_h, frozen_count)

\* A window that was last used at the end of the history all holds its latest
\* entries: those from the k-th on, which are not too old then.
Holds(window, all, k, old) ==
    /\ window = SubSeq(all, k + 1, Len(all))
    /\ \A i \in 1..Len(all) : i <= k <=> i \in old
WindowInv ==
    LET c == past.commands
        s == past.setpoints
    IN  /\ \A i \in 1..Len(c) : c[i] <= now
        /\ \A i, j \in 1..Len(c) : i <= j => c[i] <= c[j]
        /\ \E k \in 0..Len(c) :
              Holds(command_times, c, k,
                    { i \in 1..Len(c) : c[Len(c)] - c[i] > CommandWindow })
        /\ \A i \in 1..Len(s) : s[i][1] <= now
        /\ \A i, j \in 1..Len(s) : i <= j => s[i][1] <= s[j][1]
        /\ \E k \in 0..Len(s) :
              Holds(setpoint_history, s, k,
                    { i \in 1..Len(s) : s[Len(s)][1] - s[i][1] > DriftWindow })

-----------------------------------------------------------------------------
\* emit_alert keeps the types of what the alert manager holds.
LEMMA EmitType ==
    ASSUME TypeInv, NEW candidates \in SUBSET Keys, NEW failed, Emit(candidates, failed)
    PROVE  /\ cooldowns' \in [Keys -> Time \cup {None}]
           /\ alerted' \in [Keys -> Time \cup {None}]
           /\ lost' \subseteq Keys
<1> DEFINE begun == { k \in Fresh(candidates) : Reached(k, failed) }
           logged == begun \ {failed}
<1>1. /\ now \in Time /\ lost \subseteq Keys
      /\ cooldowns \in [Keys -> Time \cup {None}]
      /\ alerted \in [Keys -> Time \cup {None}]
  BY DEF TypeInv
<1>2. /\ failed \in Fresh(candidates) \cup {None}
      /\ cooldowns' = [k \in Keys |-> IF k \in begun THEN now ELSE cooldowns[k]]
      /\ alerted' = [k \in Keys |-> IF k \in logged THEN now ELSE alerted[k]]
      /\ lost' = (lost \ logged) \cup ({failed} \ {None})
  BY DEF Emit
<1>3. Fresh(candidates) \subseteq Keys
  BY DEF Fresh
<1> HIDE DEF begun, logged
<1>4. cooldowns' \in [Keys -> Time \cup {None}] /\ alerted' \in [Keys -> Time \cup {None}]
  BY <1>1, <1>2
<1>5. lost' \subseteq Keys
  BY <1>1, <1>2, <1>3
<1> QED
  BY <1>4, <1>5

\* A new detector has the types.
LEMMA NewDetectorType ==
    ASSUME NEW last_n, NEW h, NEW frozen, NEW setpoints, NEW times, NEW state,
           NEW cools, NEW logged, NEW failed, NEW p,
           NewDetector(last_n, h, frozen, setpoints, times, state, cools, logged, failed, p)
    PROVE  /\ last_n = None /\ h = None /\ frozen = 0
           /\ setpoints \in Seq(Time \X Int) /\ times \in Seq(Time)
           /\ cools \in [Keys -> Time \cup {None}] /\ logged \in [Keys -> Time \cup {None}]
           /\ failed \subseteq Keys /\ p \in Past
           /\ p.copies = <<>> /\ p.heard = {} /\ p.commands = <<>>
           /\ p.setpoints = <<>> /\ p.life = 0 /\ p.foreign = 0
<1>1. p \in Past
  <2> DEFINE none == <<>>
  <2>1. none \in Seq(Seen) /\ none \in Seq(Time) /\ none \in Seq(Time \X Int)
    OBVIOUS
  <2>2. p = [copies |-> none, heard |-> {}, foreign |-> 0,
             commands |-> none, setpoints |-> none,
             life |-> 0, mode |-> "RUNNING", cut |-> FALSE]
    BY DEF NewDetector
  <2>3. {} \in SUBSET ((1..MaxLives) \X (1..MaxSeq)) /\ 0 \in 0..MaxLives /\ 0 \in Nat
    BY MonitorAssumption
  <2>4. "RUNNING" \in Modes
    BY DEF Modes
  <2> HIDE DEF none
  <2> QED
    BY <2>1, <2>2, <2>3, <2>4 DEF Past
<1> QED
  BY <1>1 DEF NewDetector

\* What a sample of a frame is made of
Readings == [h : Int, pump : 0..Full, valve : 0..Full, over : BOOLEAN, mode : Modes]

\* A frame is a copy of a sample, or it is of others and its number and sample
\* may be missing.
LEMMA FrameType ==
    ASSUME NEW m \in Sent
    PROVE  /\ m.life \in 0..MaxLives /\ m.seq \in 1..MaxSeq \cup {None}
           /\ m.sample # None => m.sample \in Readings
           /\ Mine(m) => /\ m.life \in 1..MaxLives /\ m.seq \in 1..MaxSeq
                         /\ m.seq # None /\ m.sample # None
<1> USE MonitorAssumption
<1>1. CASE m \in [sample : Samples, seq : 1..MaxSeq, life : 1..MaxLives]
  BY <1>1 DEF Readings
<1>2. CASE m \in Foreign
  <2>1. m \in [sample : Samples \cup {None}, seq : 1..MaxSeq \cup {None}, life : {0}]
    BY <1>2
  <2>2. m.sample \in Samples \cup {None} /\ m.seq \in 1..MaxSeq \cup {None} /\ m.life = 0
    BY <2>1
  <2> QED
    BY <2>2 DEF Mine, Readings
<1> QED
  BY <1>1, <1>2 DEF Sent

\* What the telemetry handler takes in is a frame.
LEMMA HeadType ==
    ASSUME TypeInv, wire # <<>>
    PROVE  /\ Tail(wire) \in Seq(Sent) /\ Len(Tail(wire)) = Len(wire) - 1
           /\ Len(wire) > 0 /\ Len(wire) \in Nat
           /\ Head(wire) = wire[1] /\ Head(wire) \in Sent
           /\ Head(wire).life \in 0..MaxLives /\ Head(wire).seq \in 1..MaxSeq \cup {None}
           /\ Head(wire).sample # None => Head(wire).sample \in Readings
           /\ Mine(Head(wire)) => /\ Head(wire).life \in 1..MaxLives
                                  /\ Head(wire).seq \in 1..MaxSeq
                                  /\ Head(wire).seq # None /\ Head(wire).sample # None
<1>1. /\ Tail(wire) \in Seq(Sent) /\ Len(Tail(wire)) = Len(wire) - 1
      /\ Len(wire) > 0 /\ Len(wire) \in Nat
      /\ Head(wire) = wire[1] /\ Head(wire) \in Sent
  BY DEF TypeInv
<1> QED
  BY <1>1, FrameType

\* What a frame of others does to the wire
LEMMA Inserted ==
    ASSUME TypeInv, NEW m \in Foreign, NEW k \in 0..Len(wire), PublishForeign(m, k)
    PROVE  /\ wire' \in Seq(Sent) /\ Len(wire') = Len(wire) + 1
           /\ \A i \in 1..k : wire'[i] = wire[i]
           /\ wire'[k + 1] = m /\ m.life = 0
           /\ \A i \in (k + 2)..(Len(wire) + 1) : wire'[i] = wire[i - 1]
<1> DEFINE n == Len(wire)
           first == SubSeq(wire, 1, k)
           rest == SubSeq(wire, k + 1, n)
<1>1. wire \in Seq(Sent) /\ n \in Nat /\ k \in Nat /\ k <= n /\ m \in Sent /\ m.life = 0
  BY MonitorAssumption DEF TypeInv, Sent
<1>2. /\ first \in Seq(Sent) /\ Len(first) = k
      /\ \A i \in 1..k : first[i] = wire[i]
  BY <1>1
<1>3. /\ rest \in Seq(Sent) /\ Len(rest) = n - k
      /\ \A i \in 1..(n - k) : rest[i] = wire[k + i]
  BY <1>1
<1>4. wire' = first \o <<m>> \o rest
  BY DEF PublishForeign
<1> HIDE DEF n, first, rest
<1>5. /\ first \o <<m>> \in Seq(Sent) /\ Len(first \o <<m>>) = k + 1
      /\ \A i \in 1..k : (first \o <<m>>)[i] = first[i]
      /\ (first \o <<m>>)[k + 1] = m
  BY <1>1, <1>2
<1> DEFINE front == first \o <<m>>
<1>6. /\ front \in Seq(Sent) /\ Len(front) = k + 1
      /\ \A i \in 1..k : front[i] = wire[i]
      /\ front[k + 1] = m /\ wire' = front \o rest
  BY <1>2, <1>4, <1>5
<1> HIDE DEF front
<1>7. /\ wire' \in Seq(Sent) /\ Len(wire') = n + 1
      /\ \A i \in 1..(k + 1) : wire'[i] = front[i]
      /\ \A i \in (k + 2)..(n + 1) : wire'[i] = rest[i - (k + 1)]
  <2>1. /\ front \o rest \in Seq(Sent)
        /\ Len(front \o rest) = Len(front) + Len(rest)
        /\ \A i \in 1..(Len(front) + Len(rest)) :
              (front \o rest)[i] = IF i <= Len(front) THEN front[i]
                                   ELSE rest[i - Len(front)]
    BY <1>3, <1>6, ConcatProperties
  <2>2. Len(front) + Len(rest) = n + 1
    BY <1>1, <1>3, <1>6
  <2>3. \A i \in 1..(n + 1) : wire'[i] = IF i <= k + 1 THEN front[i] ELSE rest[i - (k + 1)]
    BY <1>6, <2>1, <2>2
  <2>4. \A i \in 1..(k + 1) : i \in 1..(n + 1) /\ i <= k + 1
    BY <1>1
  <2>5. \A i \in (k + 2)..(n + 1) : i \in 1..(n + 1) /\ ~ (i <= k + 1)
    BY <1>1
  <2> QED
    BY <1>6, <2>1, <2>2, <2>3, <2>4, <2>5
<1>8. \A i \in (k + 2)..(n + 1) : wire'[i] = wire[i - 1]
  <2> SUFFICES ASSUME NEW i \in (k + 2)..(n + 1)
               PROVE  wire'[i] = wire[i - 1]
    OBVIOUS
  <2>1. i - (k + 1) \in 1..(n - k) /\ k + (i - (k + 1)) = i - 1
    BY <1>1
  <2> QED
    BY <1>3, <1>7, <2>1
<1>9. \A i \in 1..k : i \in 1..(k + 1)
  BY <1>1
<1>10. k + 1 \in 1..(k + 1)
  BY <1>1
<1> QED
  BY <1>1, <1>6, <1>7, <1>8, <1>9, <1>10 DEF n

\* What a handler of telemetry does, apart from its alerts, in the fields of
\* the history.
LEMMA TelemetryStep ==
    ASSUME TypeInv, NEW d, NEW failed, HandleTelemetry(d, failed)
    PROVE  LET copy   == Head(wire)
               seen   == [h |-> copy.sample.h, pump |-> copy.sample.pump]
               window == Append(past.copies, seen)
           IN  /\ wire # <<>> /\ wire' = Tail(wire)
               /\ last_seq' = LastSeq(copy.seq)
               /\ IF failed = "residual"
                  THEN UNCHANGED <<last_h, frozen_count>> /\ past'.copies = past.copies
                  ELSE /\ last_h' = seen.h
                       /\ frozen_count' = FrozenCount(seen.h, seen.pump)
                       /\ past'.copies = IF Len(window) > FrozenSamples + 1
                                         THEN Tail(window) ELSE window
               /\ seen \in Seen /\ past'.copies \in Seq(Seen)
               /\ past'.heard = IF Mine(copy) THEN past.heard \cup {<<copy.life, copy.seq>>}
                                ELSE past.heard
               /\ past'.foreign = IF Mine(copy) THEN past.foreign ELSE past.foreign + 1
               /\ past'.life = IF copy.seq # None THEN copy.life ELSE past.life
               /\ past'.commands = past.commands /\ past'.setpoints = past.setpoints
               /\ past' \in Past
               /\ UNCHANGED <<seq, life, now, others, setpoint_history, command_times>>
<1> DEFINE copy   == Head(wire)
           seen   == [h |-> copy.sample.h, pump |-> copy.sample.pump]
           window == Append(past.copies, seen)
           kept   == IF Len(window) > FrozenSamples + 1 THEN Tail(window) ELSE window
           copies == IF failed = "residual" THEN past.copies ELSE kept
           heard  == IF Mine(copy) THEN past.heard \cup {<<copy.life, copy.seq>>}
                     ELSE past.heard
           count  == IF Mine(copy) THEN past.foreign ELSE past.foreign + 1
           last   == IF copy.seq # None THEN copy.life ELSE past.life
           mode   == copy.sample.mode
           cut    == failed # None
<1>1. /\ wire # <<>> /\ wire' = Tail(wire) /\ copy.sample # None
      /\ last_seq' = LastSeq(copy.seq)
      /\ IF failed = "residual"
         THEN UNCHANGED <<last_h, frozen_count>>
         ELSE last_h' = copy.sample.h
              /\ frozen_count' = FrozenCount(copy.sample.h, copy.sample.pump)
      /\ UNCHANGED <<seq, life, now, others, setpoint_history, command_times>>
  BY DEF HandleTelemetry, plant
<1>2. past' = [past EXCEPT !.copies = copies, !.heard = heard, !.foreign = count,
                           !.life = last, !.mode = mode, !.cut = cut]
  BY DEF HandleTelemetry, Mine
<1>3. /\ copy \in Sent /\ copy.sample \in Readings /\ copy.life \in 0..MaxLives
      /\ Mine(copy) => copy.life \in 1..MaxLives /\ copy.seq \in 1..MaxSeq
  BY <1>1, HeadType
<1>4. past \in Past /\ past.copies \in Seq(Seen)
      /\ past.heard \in SUBSET ((1..MaxLives) \X (1..MaxSeq))
      /\ past.foreign \in Nat /\ past.life \in 0..MaxLives
  BY DEF TypeInv, Past
<1>5. seen \in Seen /\ mode \in Modes /\ cut \in BOOLEAN
      /\ seen.h = copy.sample.h /\ seen.pump = copy.sample.pump
  BY <1>3 DEF Seen, Readings
<1>6. last \in 0..MaxLives
  BY <1>3, <1>4
<1>7. heard \in SUBSET ((1..MaxLives) \X (1..MaxSeq)) /\ count \in Nat
  BY <1>3, <1>4
<1>8. copies \in Seq(Seen)
  <2> HIDE DEF seen
  <2>1. window \in Seq(Seen) /\ Len(window) > 0
    BY <1>4, <1>5
  <2>2. Tail(window) \in Seq(Seen)
    BY <2>1
  <2> HIDE DEF window
  <2> QED
    BY <1>4, <2>1, <2>2
<1> HIDE DEF copy, seen, mode, cut, copies, heard, count, last
<1>9. past' \in Past
  BY <1>2, <1>4, <1>5, <1>6, <1>7, <1>8 DEF Past
<1>10. /\ past'.copies = copies /\ past'.heard = heard
       /\ past'.foreign = count /\ past'.life = last
       /\ past'.commands = past.commands /\ past'.setpoints = past.setpoints
  BY <1>2, <1>4 DEF Past
<1> QED
  BY <1>1, <1>5, <1>8, <1>9, <1>10 DEF copy, seen, copies, heard, count, last

\* What a frame that float() raises on does: only its number is taken in.
LEMMA FailureStep ==
    ASSUME TypeInv, FailTelemetry
    PROVE  /\ wire # <<>> /\ wire' = Tail(wire)
           /\ last_seq' = LastSeq(Head(wire).seq)
           /\ last_seq' \in 1..MaxSeq \cup {None}
           /\ past'.life = IF Head(wire).seq # None THEN 0 ELSE past.life
           /\ past'.copies = past.copies
           /\ past'.heard = past.heard /\ past'.foreign = past.foreign
           /\ past'.commands = past.commands /\ past'.setpoints = past.setpoints
           /\ past' \in Past
           /\ UNCHANGED <<seq, life, now, others, last_h, frozen_count>>
           /\ UNCHANGED <<setpoint_history, command_times, cooldowns, alerted, lost>>
<1> DEFINE last == IF Head(wire).seq # None THEN 0 ELSE past.life
<1>1. /\ wire # <<>> /\ wire' = Tail(wire)
      /\ last_seq' = LastSeq(Head(wire).seq)
      /\ past' = [past EXCEPT !.life = last]
      /\ UNCHANGED <<seq, life, now, others, last_h, frozen_count>>
      /\ UNCHANGED <<setpoint_history, command_times, cooldowns, alerted, lost>>
  BY DEF FailTelemetry, plant, behaviour, alerts
<1>2. last_seq' \in 1..MaxSeq \cup {None}
  BY <1>1, HeadType DEF LastSeq, TypeInv
<1>3. past \in Past /\ last \in 0..MaxLives
  BY MonitorAssumption DEF TypeInv, Past
<1> HIDE DEF last
<1>4. /\ past' \in Past /\ past'.life = last
      /\ past'.copies = past.copies
      /\ past'.heard = past.heard /\ past'.foreign = past.foreign
      /\ past'.commands = past.commands /\ past'.setpoints = past.setpoints
  BY <1>1, <1>3 DEF Past
<1> QED
  BY <1>1, <1>2, <1>4 DEF last

\* And a handler of a command.
LEMMA CommandStep ==
    ASSUME TypeInv, NEW c \in Commands, NEW failed, HandleCommand(c, failed)
    PROVE  /\ command_times' = CommandTimes
           /\ past'.commands = Append(past.commands, now)
           /\ \/ /\ c.sp \in Int
                 /\ setpoint_history' = SetpointHistory(c.sp)
                 /\ past'.setpoints = Append(past.setpoints, <<now, c.sp>>)
              \/ UNCHANGED setpoint_history /\ past'.setpoints = past.setpoints
           /\ past'.copies = past.copies /\ past'.heard = past.heard
           /\ past'.life = past.life /\ past'.foreign = past.foreign
           /\ past' \in Past
           /\ UNCHANGED <<wire, seq, life, now, others, last_seq, last_h, frozen_count>>
<1> DEFINE recorded == c.sp # None /\ Reached("drift", failed)
           times == Append(past.commands, now)
           setpoints == IF recorded THEN Append(past.setpoints, <<now, c.sp>>)
                        ELSE past.setpoints
<1>1. /\ command_times' = CommandTimes
      /\ setpoint_history' = IF recorded THEN SetpointHistory(c.sp) ELSE setpoint_history
      /\ UNCHANGED <<wire, seq, life, now, others, last_seq, last_h, frozen_count>>
  BY DEF HandleCommand, plant
<1>2. past' = [past EXCEPT !.commands = times, !.setpoints = setpoints]
  BY DEF HandleCommand
<1>3. c.sp \in Int \cup {None}
  BY MonitorAssumption
<1>4. /\ past \in Past /\ now \in Time
      /\ past.commands \in Seq(Time) /\ past.setpoints \in Seq(Time \X Int)
  BY DEF TypeInv, Past
<1>5. times \in Seq(Time)
  BY <1>4
<1>6. setpoints \in Seq(Time \X Int)
  <2>1. recorded => <<now, c.sp>> \in Time \X Int
    BY <1>3, <1>4
  <2> QED
    BY <1>4, <2>1
<1> HIDE DEF times, setpoints
<1>7. past' \in Past
  BY <1>2, <1>4, <1>5, <1>6 DEF Past
<1>8. /\ past'.commands = times /\ past'.setpoints = setpoints
      /\ past'.copies = past.copies /\ past'.heard = past.heard /\ past'.life = past.life
      /\ past'.foreign = past.foreign
  BY <1>2, <1>4 DEF Past
<1> QED
  BY <1>1, <1>3, <1>7, <1>8 DEF times, setpoints

\* Every step keeps the types.
LEMMA TypeInductive ==
    /\ Init => TypeInv
    /\ TypeInv /\ [Next]_vars => TypeInv'
<1> USE MonitorAssumption
<1>1. Init => TypeInv
  <2> SUFFICES ASSUME Init
               PROVE  TypeInv
    OBVIOUS
  <2>1. NewDetector(last_seq, last_h, frozen_count, setpoint_history, command_times,
                    current_state, cooldowns, alerted, lost, past)
    BY DEF Init
  <2>2. wire \in Seq(Sent) /\ seq = 0 /\ life = 1 /\ now = 0 /\ others = 0
    BY DEF Init
  <2> QED
    BY <2>1, <2>2, NewDetectorType DEF TypeInv, Time
<1>2. ASSUME TypeInv, [Next]_vars
      PROVE  TypeInv'
  <2>1. ASSUME NEW s \in Samples, PlantPublishes(s)
        PROVE  TypeInv'
    <3>1. seq' \in 1..MaxSeq
      BY <1>2, <2>1 DEF PlantPublishes, TypeInv
    <3>2. Copy(s, seq') \in Sent
      BY <1>2, <3>1 DEF Copy, Sent, TypeInv
    <3>3. wire' \in Seq(Sent)
      <4> DEFINE c == Copy(s, seq')
      <4>1. wire \in Seq(Sent) /\ c \in Sent
        BY <1>2, <3>2 DEF TypeInv
      <4>2. wire' = IF Subscribed THEN wire \o <<c, c>> ELSE <<>>
        BY <2>1 DEF PlantPublishes
      <4> HIDE DEF c
      <4> QED
        BY <4>1, <4>2
    <3> QED
      BY <1>2, <2>1, <3>1, <3>3 DEF PlantPublishes, TypeInv, detector, behaviour, alerts
  <2>2. CASE PlantRestarts
    BY <1>2, <2>2 DEF PlantRestarts, TypeInv, detector, behaviour, alerts
  <2>3. CASE Lose
    BY <1>2, <2>3, HeadType DEF Lose, TypeInv, plant, detector, behaviour, alerts
  <2>4. CASE Tick
    BY <1>2, <2>4 DEF Tick, TypeInv, Time, plant, detector, behaviour, alerts
  <2>5. CASE DetectorRestarts
    <3>1. NewDetector(last_seq', last_h', frozen_count', setpoint_history', command_times',
                      current_state', cooldowns', alerted', lost', past')
      BY <2>5 DEF DetectorRestarts
    <3>2. wire' \in Seq(Sent) /\ UNCHANGED <<seq, life, now, others>>
      BY <2>5 DEF DetectorRestarts, plant
    <3> QED
      BY <1>2, <3>1, <3>2, NewDetectorType DEF TypeInv
  <2>6. ASSUME NEW d \in Residuals, NEW f \in TelemetryFailures, HandleTelemetry(d, f)
        PROVE  TypeInv'
    <3>1. PICK candidates \in SUBSET Keys : Emit(candidates, f)
      <4>1. \A C : C \subseteq {"residual", "frozen", "pressure"} => C \in SUBSET Keys
        BY DEF Keys, Rank
      <4>2. \E C : Emit(C, f) /\ C \subseteq {"residual", "frozen", "pressure"}
        BY <2>6 DEF HandleTelemetry, Chosen
      <4> QED
        BY <4>1, <4>2
    <3>2. /\ cooldowns' \in [Keys -> Time \cup {None}]
          /\ alerted' \in [Keys -> Time \cup {None}]
          /\ lost' \subseteq Keys
      BY <1>2, <3>1, EmitType
    <3>3. wire # <<>>
      BY <2>6 DEF HandleTelemetry
    <3>4. /\ wire' \in Seq(Sent) /\ last_seq' \in 1..MaxSeq \cup {None}
      BY <1>2, <2>6, <3>3, HeadType DEF HandleTelemetry, LastSeq, TypeInv
    <3>5. past' \in Past
          /\ UNCHANGED <<seq, life, now, others, setpoint_history, command_times>>
      BY <1>2, <2>6, TelemetryStep
    <3>6. last_h' \in Int \cup {None} /\ frozen_count' \in Nat
      <4>1. CASE f = "residual"
        BY <1>2, <2>6, <4>1 DEF HandleTelemetry, TypeInv
      <4>2. CASE f # "residual"
        <5>1. /\ last_h' = Head(wire).sample.h
              /\ frozen_count' = FrozenCount(Head(wire).sample.h, Head(wire).sample.pump)
          BY <2>6, <4>2 DEF HandleTelemetry
        <5>2. Head(wire).sample.h \in Int
          BY <1>2, <2>6, <3>3, HeadType DEF HandleTelemetry, Readings
        <5> QED
          BY <1>2, <5>1, <5>2 DEF FrozenCount, TypeInv
      <4> QED
        BY <4>1, <4>2
    <3> QED
      BY <1>2, <3>2, <3>4, <3>5, <3>6 DEF TypeInv
  <2>7. ASSUME NEW c \in Commands, NEW f \in CommandFailures, HandleCommand(c, f)
        PROVE  TypeInv'
    <3>1. PICK candidates \in SUBSET Keys : Emit(candidates, f)
      <4>1. \A C : C \subseteq {"oscillation", "rule_a", "rule_b", "trajectory", "drift"}
                   => C \in SUBSET Keys
        BY DEF Keys, Rank
      <4>2. \E C : /\ Emit(C, f)
                   /\ C \subseteq {"oscillation", "rule_a", "rule_b", "trajectory", "drift"}
        BY <2>7 DEF HandleCommand, Chosen
      <4> QED
        BY <4>1, <4>2
    <3>2. /\ cooldowns' \in [Keys -> Time \cup {None}]
          /\ alerted' \in [Keys -> Time \cup {None}]
          /\ lost' \subseteq Keys
      BY <1>2, <3>1, EmitType
    <3>3. /\ command_times' = CommandTimes
          /\ \/ c.sp \in Int /\ setpoint_history' = SetpointHistory(c.sp)
             \/ UNCHANGED setpoint_history
          /\ past' \in Past
          /\ UNCHANGED <<wire, seq, life, now, others, last_seq, last_h, frozen_count>>
      BY <1>2, <2>7, CommandStep
    <3>4. command_times' \in Seq(Time)
      <4>1. Append(command_times, now) \in Seq(Time)
        BY <1>2 DEF TypeInv
      <4> QED
        BY <3>3, <4>1, KeptType DEF CommandTimes
    <3>5. setpoint_history' \in Seq(Time \X Int)
      <4>1. CASE c.sp \in Int /\ setpoint_history' = SetpointHistory(c.sp)
        <5>1. Append(setpoint_history, <<now, c.sp>>) \in Seq(Time \X Int)
          BY <1>2, <4>1 DEF TypeInv
        <5> QED
          BY <4>1, <5>1, KeptType DEF SetpointHistory
      <4>2. CASE UNCHANGED setpoint_history
        BY <1>2, <4>2 DEF TypeInv
      <4> QED
        BY <3>3, <4>1, <4>2
    <3> QED
      BY <1>2, <3>2, <3>3, <3>4, <3>5 DEF TypeInv
  <2>8. ASSUME NEW m \in Foreign, NEW i \in 0..Len(wire), PublishForeign(m, i)
        PROVE  TypeInv'
    <3>1. wire' \in Seq(Sent)
      BY <1>2, <2>8, Inserted
    <3>2. others' \in 0..MaxOthers
      BY <1>2, <2>8 DEF PublishForeign, TypeInv
    <3> QED
      BY <1>2, <2>8, <3>1, <3>2
         DEF PublishForeign, TypeInv, plant, detector, behaviour, alerts
  <2>9. CASE FailTelemetry
    <3>1. /\ wire' \in Seq(Sent) /\ last_seq' \in 1..MaxSeq \cup {None} /\ past' \in Past
          /\ UNCHANGED <<seq, life, now, others, last_h, frozen_count>>
          /\ UNCHANGED <<setpoint_history, command_times, cooldowns, alerted, lost>>
      BY <1>2, <2>9, FailureStep, HeadType
    <3> QED
      BY <1>2, <3>1 DEF TypeInv
  <2>10. CASE UNCHANGED vars
    BY <1>2, <2>10 DEF vars, plant, detector, behaviour, alerts, TypeInv
  <2> QED
    BY <1>2, <2>1, <2>2, <2>3, <2>4, <2>5, <2>6, <2>7, <2>8, <2>9, <2>10 DEF Next
<1> QED
  BY <1>1, <1>2

-----------------------------------------------------------------------------
\* A copy goes on with the row or begins a new one.
LEMMA RowGrows ==
    ASSUME NEW E, NEW w \in Seq(E), NEW c \in Nat, Row(w, c), NEW e \in E
    PROVE  LET repeats == Len(w) > 0 /\ e.h = w[Len(w)].h /\ e.pump > 0
           IN  Row(Append(w, e), IF repeats THEN c + 1 ELSE 0)
<1> DEFINE n == Len(w)
           repeats == n > 0 /\ e.h = w[n].h /\ e.pump > 0
           u == Append(w, e)
<1>1. /\ n \in Nat /\ Len(u) = n + 1 /\ u[n + 1] = e
      /\ \A i \in 1..n : u[i] = w[i]
  OBVIOUS
<1>2. /\ \A i \in 1..n : /\ i >= n - c => w[i].h = w[n].h
                         /\ i > n - c => w[i].pump > 0
      /\ n - c >= 2 => ~ (w[n - c].h = w[(n - c) - 1].h /\ w[n - c].pump > 0)
  BY DEF Row
<1>3. CASE repeats
  <2>1. ASSUME NEW i \in 1..(n + 1)
        PROVE  /\ i >= (n + 1) - (c + 1) => u[i].h = e.h
               /\ i > (n + 1) - (c + 1) => u[i].pump > 0
    <3>1. CASE i = n + 1
      BY <1>1, <1>3, <3>1
    <3>2. CASE i # n + 1
      <4>1. i \in 1..n /\ u[i] = w[i]
        BY <1>1, <3>2
      <4> QED
        BY <1>1, <1>2, <1>3, <4>1
    <3> QED
      BY <3>1, <3>2
  <2>2. (n + 1) - (c + 1) >= 2 =>
           LET j == (n + 1) - (c + 1)
           IN  ~ (u[j].h = u[j - 1].h /\ u[j].pump > 0)
    <3> SUFFICES ASSUME n - c >= 2
                 PROVE  ~ (u[n - c].h = u[(n - c) - 1].h /\ u[n - c].pump > 0)
      BY <1>1
    <3>1. n - c \in 1..n /\ (n - c) - 1 \in 1..n
      BY <1>1
    <3> QED
      BY <1>1, <1>2, <3>1
  <2>3. Row(u, c + 1)
    <3> HIDE DEF u, n, repeats
    <3> QED
      BY <1>1, <2>1, <2>2 DEF Row
  <2> QED
    BY <1>3, <2>3
<1>4. CASE ~ repeats
  <2>1. ASSUME NEW i \in 1..(n + 1), i >= n + 1
        PROVE  u[i].h = e.h /\ ~ (i > n + 1)
    BY <1>1, <2>1
  <2>2. n + 1 >= 2 => ~ (u[n + 1].h = u[n].h /\ u[n + 1].pump > 0)
    <3> SUFFICES ASSUME n >= 1
                 PROVE  ~ (u[n + 1].h = u[n].h /\ u[n + 1].pump > 0)
      BY <1>1
    <3>1. u[n] = w[n]
      BY <1>1
    <3> QED
      BY <1>1, <1>4, <3>1
  <2>3. Row(u, 0)
    <3> HIDE DEF u, n, repeats
    <3> QED
      BY <1>1, <2>1, <2>2 DEF Row
  <2> QED
    BY <1>4, <2>3
<1> QED
  BY <1>3, <1>4

\* The row at the end is not changed by forgetting the first copy.
LEMMA RowForgets ==
    ASSUME NEW E, NEW w \in Seq(E), NEW c \in Nat, Row(w, c), Len(w) > 1
    PROVE  Row(Tail(w), c)
<1> DEFINE n == Len(w)
           u == Tail(w)
<1>1. /\ n \in Nat /\ n > 1 /\ Len(u) = n - 1
      /\ \A i \in 1..(n - 1) : u[i] = w[i + 1] /\ i + 1 \in 1..n
  OBVIOUS
<1>2. /\ \A i \in 1..n : /\ i >= n - c => w[i].h = w[n].h
                         /\ i > n - c => w[i].pump > 0
      /\ n - c >= 2 => ~ (w[n - c].h = w[(n - c) - 1].h /\ w[n - c].pump > 0)
  BY DEF Row
<1> HIDE DEF u, n
<1>3. ASSUME NEW i \in 1..(n - 1)
      PROVE  /\ i >= (n - 1) - c => u[i].h = u[n - 1].h
             /\ i > (n - 1) - c => u[i].pump > 0
  <2>1. u[i] = w[i + 1] /\ u[n - 1] = w[n] /\ i + 1 \in 1..n
    BY <1>1
  <2> QED
    BY <1>1, <1>2, <2>1
<1>4. (n - 1) - c >= 2 =>
         LET j == (n - 1) - c
         IN  ~ (u[j].h = u[j - 1].h /\ u[j].pump > 0)
  <2> SUFFICES ASSUME (n - 1) - c >= 2
               PROVE  ~ (u[(n - 1) - c].h = u[((n - 1) - c) - 1].h /\ u[(n - 1) - c].pump > 0)
    OBVIOUS
  <2>1. /\ (n - 1) - c \in 1..(n - 1) /\ ((n - 1) - c) - 1 \in 1..(n - 1)
        /\ ((n - 1) - c) + 1 = n - c /\ (((n - 1) - c) - 1) + 1 = (n - c) - 1
        /\ n - c >= 2
    BY <1>1
  <2>2. u[(n - 1) - c] = w[n - c] /\ u[((n - 1) - c) - 1] = w[(n - c) - 1]
    BY <1>1, <2>1
  <2> QED
    BY <1>2, <2>1, <2>2
<1>5. Row(u, c)
  BY <1>1, <1>3, <1>4 DEF Row
<1> QED
  BY <1>5 DEF u

\* The row is kept by every step; a copy whose handler ended before the
\* behavioural check is in neither the counter nor the history.
LEMMA RowInductive ==
    /\ Init => RowInv
    /\ TypeInv /\ RowInv /\ [Next]_vars => RowInv'
<1> USE MonitorAssumption
<1>1. Init => RowInv
  BY DEF Init, NewDetector, RowInv, Row
<1>2. ASSUME TypeInv, RowInv, [Next]_vars
      PROVE  RowInv'
  <2>1. CASE UNCHANGED <<past, last_h, frozen_count>>
    BY <1>2, <2>1 DEF RowInv
  <2>2. CASE DetectorRestarts
    BY <2>2 DEF DetectorRestarts, NewDetector, RowInv, Row
  <2>3. ASSUME NEW d \in Residuals, NEW f \in TelemetryFailures, HandleTelemetry(d, f)
        PROVE  RowInv'
    <3> DEFINE copy == Head(wire)
               e == [h |-> copy.sample.h, pump |-> copy.sample.pump]
               w == past.copies
               n == Len(w)
               window == Append(w, e)
               c == frozen_count
               repeats == n > 0 /\ e.h = w[n].h /\ e.pump > 0
               count == IF repeats THEN c + 1 ELSE 0
    <3>1. /\ IF f = "residual"
             THEN UNCHANGED <<last_h, frozen_count>> /\ past'.copies = past.copies
             ELSE /\ last_h' = e.h
                  /\ frozen_count' = FrozenCount(e.h, e.pump)
                  /\ past'.copies = IF Len(window) > FrozenSamples + 1
                                    THEN Tail(window) ELSE window
          /\ e \in Seen
      BY <1>2, <2>3, TelemetryStep
    <3>2. CASE f = "residual"
      BY <1>2, <3>1, <3>2 DEF RowInv
    <3>3. CASE f # "residual"
      <4>1. /\ last_h' = e.h
            /\ frozen_count' = FrozenCount(e.h, e.pump)
            /\ past'.copies = IF Len(window) > FrozenSamples + 1
                              THEN Tail(window) ELSE window
            /\ e \in Seen
        BY <3>1, <3>3
      <4>2. w \in Seq(Seen) /\ n \in Nat /\ c \in Nat /\ Row(w, c) /\ n <= FrozenSamples + 1
        BY <1>2 DEF TypeInv, Past, RowInv
      <4>3. /\ n = 0 => last_h = None
            /\ n # 0 => last_h = w[n].h
            /\ n = 0 => c = 0
            /\ 0 < n /\ n <= FrozenSamples => c < n
        BY <1>2 DEF RowInv
      <4>4. n > 0 => w[n] \in Seen
        <5> HIDE DEF w
        <5> QED
          BY <4>2
      <4>5. n > 0 => last_h # None
        BY <4>2, <4>3, <4>4 DEF Seen
      <4>6. frozen_count' = count
        <5> HIDE DEF e, w, n
        <5> QED
          BY <4>1, <4>2, <4>3, <4>5 DEF FrozenCount
      <4>7. Row(window, count)
        BY <4>1, <4>2, RowGrows
      <4>8. /\ window \in Seq(Seen) /\ Len(window) = n + 1 /\ window[n + 1] = e
            /\ n > 0 => Len(Tail(window)) = n /\ Tail(window)[n] = e
        BY <4>1, <4>2
      <4>9. count \in Nat /\ (n <= FrozenSamples => count < n + 1)
        BY <4>2, <4>3
      <4> HIDE DEF copy, e, w, n, window, c, repeats, count
      <4>10. CASE n + 1 > FrozenSamples + 1
        <5>1. n = FrozenSamples + 1 /\ n > 0 /\ past'.copies = Tail(window)
          BY <4>1, <4>2, <4>8, <4>10
        <5>2. Row(Tail(window), count)
          BY <4>7, <4>8, <4>9, <5>1, RowForgets
        <5> QED
          BY <4>1, <4>6, <4>8, <5>1, <5>2 DEF RowInv
      <4>11. CASE ~ (n + 1 > FrozenSamples + 1)
        <5>1. past'.copies = window /\ n <= FrozenSamples
          BY <4>1, <4>2, <4>8, <4>11
        <5> QED
          BY <4>1, <4>2, <4>6, <4>7, <4>8, <4>9, <5>1 DEF RowInv
      <4> QED
        BY <4>10, <4>11
    <3> QED
      BY <3>2, <3>3
  <2>4. ASSUME NEW c \in Commands, NEW f \in CommandFailures, HandleCommand(c, f)
        PROVE  RowInv'
    <3>1. past'.copies = past.copies /\ UNCHANGED <<last_h, frozen_count>>
      BY <1>2, <2>4, CommandStep
    <3> QED
      BY <1>2, <3>1 DEF RowInv
  <2>5. CASE FailTelemetry
    <3>1. past'.copies = past.copies /\ UNCHANGED <<last_h, frozen_count>>
      BY <1>2, <2>5, FailureStep
    <3> QED
      BY <1>2, <3>1 DEF RowInv
  <2> QED
    BY <1>2, <2>1, <2>2, <2>3, <2>4, <2>5
       DEF Next, vars, detector, behaviour, PlantPublishes, PublishForeign,
           PlantRestarts, Lose, Tick
<1> QED
  BY <1>1, <1>2

\* Such a row is as long as an alert takes just if all that is kept is in it.
LEMMA RowExact ==
    ASSUME TypeInv, RowInv
    PROVE  frozen_count >= FrozenSamples <=>
              /\ Len(past.copies) = FrozenSamples + 1
              /\ \A i \in DOMAIN past.copies : past.copies[i].h = past.copies[1].h
              /\ \A i \in DOMAIN past.copies : i > 1 => past.copies[i].pump > 0
<1> DEFINE w == past.copies
           n == Len(w)
           c == frozen_count
<1>1. /\ n \in Nat /\ n <= FrozenSamples + 1 /\ c \in Nat
      /\ FrozenSamples \in Nat /\ FrozenSamples > 0
      /\ n = 0 => c = 0
      /\ 0 < n /\ n <= FrozenSamples => c < n
      /\ DOMAIN w = 1..n
  BY MonitorAssumption DEF TypeInv, Past, RowInv
<1>2. /\ \A i \in 1..n : /\ i >= n - c => w[i].h = w[n].h
                         /\ i > n - c => w[i].pump > 0
      /\ n - c >= 2 => ~ (w[n - c].h = w[(n - c) - 1].h /\ w[n - c].pump > 0)
  BY DEF RowInv, Row
<1> HIDE DEF w, n, c
<1>3. ASSUME c >= FrozenSamples
      PROVE  /\ n = FrozenSamples + 1
             /\ \A i \in 1..n : w[i].h = w[1].h /\ (i > 1 => w[i].pump > 0)
  <2>1. n = FrozenSamples + 1 /\ \A i \in 1..n : i >= n - c /\ (i > 1 => i > n - c)
    BY <1>1, <1>3
  <2>2. 1 \in 1..n
    BY <1>1, <2>1
  <2> QED
    BY <1>2, <2>1, <2>2
<1>4. ASSUME n = FrozenSamples + 1,
             \A i \in 1..n : w[i].h = w[1].h /\ (i > 1 => w[i].pump > 0),
             ~ (c >= FrozenSamples)
      PROVE  FALSE
  <2>1. n - c >= 2 /\ n - c \in 1..n /\ (n - c) - 1 \in 1..n
    BY <1>1, <1>4
  <2> QED
    BY <1>2, <1>4, <2>1
<1> QED
  BY <1>1, <1>3, <1>4 DEF w, n, c

-----------------------------------------------------------------------------
\* The order of sending is transitive, and its own converse only for a copy of
\* the same sample.
LEMMA OrderTransitive ==
    ASSUME NEW l1 \in Nat, NEW n1 \in Nat, NEW l2 \in Nat, NEW n2 \in Nat,
           NEW l3 \in Nat, NEW n3 \in Nat,
           NotAfter(l1, n1, l2, n2), NotAfter(l2, n2, l3, n3)
    PROVE  NotAfter(l1, n1, l3, n3)
  BY DEF NotAfter

\* The numbers of the copies, at the plant and in the history are naturals.
LEMMA Naturals ==
    ASSUME TypeInv
    PROVE  /\ Len(wire) \in Nat
           /\ \A i \in 1..Len(wire) :
                 Mine(wire[i]) => wire[i].life \in Nat /\ wire[i].seq \in Nat
           /\ seq \in Nat /\ life \in Nat /\ past.life \in Nat /\ past.foreign \in Nat
           /\ last_seq # None => last_seq \in Nat
           /\ \A x \in past.heard : x[1] \in Nat /\ x[2] \in Nat
<1> USE MonitorAssumption
<1>1. /\ wire \in Seq(Sent)
      /\ past.heard \in SUBSET ((1..MaxLives) \X (1..MaxSeq))
      /\ past.life \in Nat /\ past.foreign \in Nat
  BY DEF TypeInv, Past
<1>2. \A m \in Sent : Mine(m) => m.life \in Nat /\ m.seq \in Nat
  BY FrameType
<1>3. Len(wire) \in Nat /\ \A i \in 1..Len(wire) : wire[i] \in Sent
  BY <1>1
<1>4. seq \in Nat /\ life \in Nat /\ (last_seq # None => last_seq \in Nat)
  BY DEF TypeInv
<1> QED
  BY <1>1, <1>2, <1>3, <1>4

\* The copies on u are some of those on w, in the same order: f says which.
Within(u, w, f) ==
    /\ \A i \in 1..Len(u) : Mine(u[i]) => f[i] \in 1..Len(w) /\ u[i] = w[f[i]]
    /\ \A i, j \in 1..Len(u) : i < j /\ Mine(u[i]) /\ Mine(u[j]) => f[i] < f[j]

\* So they are when the head is taken off the wire ...
LEMMA TailWithin ==
    ASSUME TypeInv, wire # <<>>
    PROVE  Within(Tail(wire), wire, [i \in 1..(Len(wire) - 1) |-> i + 1])
<1> DEFINE n == Len(wire)
           u == Tail(wire)
           f == [i \in 1..(n - 1) |-> i + 1]
<1>1. /\ n \in Nat /\ n > 0 /\ Len(u) = n - 1
      /\ \A i \in 1..(n - 1) : u[i] = wire[i + 1]
  BY DEF TypeInv
<1>2. \A i \in 1..(n - 1) : f[i] = i + 1 /\ f[i] \in 1..n
  BY <1>1
<1> HIDE DEF f, u, n
<1>3. \A i, j \in 1..(n - 1) : i < j => f[i] < f[j]
  BY <1>1, <1>2
<1>4. Within(u, wire, f)
  BY <1>1, <1>2, <1>3 DEF Within, n
<1> QED
  BY <1>4 DEF f, u, n

\* ... and when others put a frame on it.
LEMMA InsertedWithin ==
    ASSUME TypeInv, NEW m \in Foreign, NEW k \in 0..Len(wire), PublishForeign(m, k)
    PROVE  \E f : Within(wire', wire, f)
<1> DEFINE n == Len(wire)
           f == [i \in 1..(n + 1) |-> IF i <= k THEN i ELSE i - 1]
<1>1. /\ n \in Nat /\ k \in Nat /\ k <= n /\ Len(wire') = n + 1
      /\ \A i \in 1..k : wire'[i] = wire[i]
      /\ wire'[k + 1] = m /\ m.life = 0
      /\ \A i \in (k + 2)..(n + 1) : wire'[i] = wire[i - 1]
  BY Inserted DEF TypeInv
<1>2. \A i \in 1..(n + 1) : f[i] = IF i <= k THEN i ELSE i - 1
  OBVIOUS
<1> HIDE DEF f, n
<1>3. ASSUME NEW i \in 1..(n + 1), Mine(wire'[i])
      PROVE  i # k + 1 /\ f[i] \in 1..n /\ wire'[i] = wire[f[i]]
  <2>1. i # k + 1
    BY <1>1, <1>3 DEF Mine
  <2>2. CASE i <= k
    BY <1>1, <1>2, <2>2
  <2>3. CASE ~ (i <= k)
    <3>1. i \in (k + 2)..(n + 1) /\ f[i] = i - 1 /\ i - 1 \in 1..n
      BY <1>1, <1>2, <2>1, <2>3
    <3> QED
      BY <1>1, <2>1, <3>1
  <2> QED
    BY <2>1, <2>2, <2>3
<1>4. ASSUME NEW i \in 1..(n + 1), NEW j \in 1..(n + 1), i < j,
             Mine(wire'[i]), Mine(wire'[j])
      PROVE  f[i] < f[j]
  <2>1. i # k + 1 /\ j # k + 1
    BY <1>3, <1>4
  <2> QED
    BY <1>1, <1>2, <1>4, <2>1
<1> WITNESS f
<1> QED
  BY <1>1, <1>3, <1>4 DEF Within, n

\* Copies that are left in their order are ordered.
LEMMA OrderWithin ==
    ASSUME NEW u, NEW w, NEW f, Within(u, w, f),
           NEW heard, NEW l, NEW n, Ordered(w, heard, l, n)
    PROVE  Ordered(u, heard, l, n)
  BY DEF Within, Ordered

\* The plant's next sample comes after all that was sent.
LEMMA OrderGrows ==
    ASSUME TypeInv, OrderInv, NEW s \in Samples, PlantPublishes(s)
    PROVE  OrderInv'
<1> DEFINE n == Len(wire)
           c == Copy(s, seq')
           u == wire \o <<c, c>>
<1>1. /\ seq' = seq + 1 /\ life' = life
      /\ wire' = IF Subscribed THEN u ELSE <<>>
      /\ UNCHANGED <<last_seq, past>>
  BY DEF PlantPublishes, detector
<1>2. c.life = life /\ c.seq = seq + 1
  BY <1>1 DEF Copy
<1>3. wire \in Seq(Sent) /\ n \in Nat
  BY DEF TypeInv
<1> HIDE DEF c
<1>4. /\ Len(u) = n + 2 /\ u[n + 1] = c /\ u[n + 2] = c
      /\ \A i \in 1..n : u[i] = wire[i]
  <2>1. wire \in Seq(Sent \cup {c}) /\ <<c, c>> \in Seq(Sent \cup {c})
    BY <1>3
  <2> QED
    BY <1>3, <2>1
<1> HIDE DEF u
<1>5. ASSUME NEW k \in Nat, NEW m \in Nat, NotAfter(k, m, life, seq)
      PROVE  NotAfter(k, m, life, seq + 1)
  BY <1>5, Naturals DEF NotAfter
<1>6. Ordered(wire, past.heard, life, seq)
  BY DEF OrderInv
<1>7. \A x \in past.heard : NotAfter(x[1], x[2], life, seq + 1)
  BY <1>5, <1>6, Naturals DEF Ordered
<1>8. \A i \in 1..n : Mine(wire[i]) => NotAfter(wire[i].life, wire[i].seq, life, seq + 1)
  BY <1>5, <1>6, Naturals DEF Ordered, n
<1>9. \A i \in 1..(n + 2) : \/ i \in 1..n /\ u[i] = wire[i]
                            \/ i \notin 1..n /\ u[i] = c
  BY <1>3, <1>4
<1>10. \A i \in 1..(n + 2) : Mine(u[i]) =>
          /\ NotAfter(u[i].life, u[i].seq, life, seq + 1)
          /\ \A x \in past.heard : NotAfter(x[1], x[2], u[i].life, u[i].seq)
  <2>1. NotAfter(life, seq + 1, life, seq + 1)
    BY Naturals DEF NotAfter
  <2>2. \A i \in 1..n : Mine(wire[i]) =>
           \A x \in past.heard : NotAfter(x[1], x[2], wire[i].life, wire[i].seq)
    BY <1>6 DEF Ordered, n
  <2> QED
    BY <1>2, <1>7, <1>8, <1>9, <2>1, <2>2
<1>11. ASSUME NEW i \in 1..(n + 2), NEW j \in 1..(n + 2), i < j, Mine(u[i]), Mine(u[j])
       PROVE  NotAfter(u[i].life, u[i].seq, u[j].life, u[j].seq)
  <2>1. CASE j \in 1..n
    <3>1. i \in 1..n /\ u[i] = wire[i] /\ u[j] = wire[j]
      BY <1>3, <1>4, <1>11, <2>1
    <3> QED
      BY <1>6, <1>11, <2>1, <3>1 DEF Ordered, n
  <2>2. CASE j \notin 1..n
    <3>1. u[j] = c
      BY <1>9, <2>2
    <3> QED
      BY <1>2, <1>10, <1>11, <3>1
  <2> QED
    BY <2>1, <2>2
<1>12. Ordered(u, past.heard, life, seq + 1)
  BY <1>4, <1>7, <1>10, <1>11 DEF Ordered
<1>13. Ordered(<<>>, past.heard, life, seq + 1)
  BY <1>7 DEF Ordered
<1> QED
  BY <1>1, <1>12, <1>13 DEF OrderInv

\* Every step keeps the order of sending.
LEMMA OrderInductive ==
    /\ Init => OrderInv
    /\ TypeInv /\ OrderInv /\ [Next]_vars => OrderInv'
<1> USE MonitorAssumption
<1>1. Init => OrderInv
  BY DEF Init, NewDetector, OrderInv, Ordered
<1>2. ASSUME TypeInv, OrderInv, [Next]_vars
      PROVE  OrderInv'
  <2> DEFINE Known(h, k, n) ==
               k > 0 => /\ n # None /\ <<k, n>> \in h
                        /\ \A x \in h : NotAfter(x[1], x[2], k, n)
  <2>1. CASE \E s \in Samples : PlantPublishes(s)
    BY <1>2, <2>1, OrderGrows
  <2>2. Ordered(wire, past.heard, life, seq) /\ Known(past.heard, past.life, last_seq)
    BY <1>2 DEF OrderInv
  <2>3. /\ Ordered(wire', past'.heard, life', seq') /\ Known(past'.heard, past'.life, last_seq')
        => OrderInv'
    BY DEF OrderInv
  <2>4. CASE PlantRestarts
    <3>1. life' = life + 1 /\ seq' = 0 /\ UNCHANGED <<wire, last_seq, past>>
      BY <2>4 DEF PlantRestarts, detector
    <3>2. ASSUME NEW l \in Nat, NEW m \in Nat, NotAfter(l, m, life, seq)
          PROVE  NotAfter(l, m, life + 1, 0)
      BY <1>2, <3>2, Naturals DEF NotAfter
    <3>3. Ordered(wire, past.heard, life + 1, 0)
      BY <1>2, <2>2, <3>2, Naturals DEF Ordered
    <3> QED
      BY <1>2, <3>1, <3>3 DEF OrderInv
  <2>5. CASE wire # <<>> /\ wire' = Tail(wire) /\ UNCHANGED <<seq, life>>
             /\ past'.heard = past.heard
             /\ (past'.life > 0 => past'.life = past.life /\ last_seq' = last_seq)
    <3>1. Ordered(Tail(wire), past.heard, life, seq)
      BY <1>2, <2>2, <2>5, TailWithin, OrderWithin
    <3>2. Known(past'.heard, past'.life, last_seq')
      BY <2>2, <2>5
    <3> QED
      BY <2>3, <2>5, <3>1, <3>2
  <2>6. CASE Lose
    BY <2>5, <2>6 DEF Lose, plant, detector
  <2>7. CASE FailTelemetry
    <3>1. /\ wire # <<>> /\ wire' = Tail(wire) /\ UNCHANGED <<seq, life>>
          /\ past'.heard = past.heard
          /\ last_seq' = LastSeq(Head(wire).seq)
          /\ past'.life = IF Head(wire).seq # None THEN 0 ELSE past.life
      BY <1>2, <2>7, FailureStep
    <3>2. past'.life > 0 => past'.life = past.life /\ last_seq' = last_seq
      BY <3>1 DEF LastSeq
    <3> QED
      BY <2>5, <3>1, <3>2
  <2>8. ASSUME NEW m \in Foreign, NEW i \in 0..Len(wire), PublishForeign(m, i)
        PROVE  OrderInv'
    <3>1. UNCHANGED <<seq, life, last_seq, past>>
      BY <2>8 DEF PublishForeign, plant, detector
    <3>2. PICK f : Within(wire', wire, f)
      BY <1>2, <2>8, InsertedWithin
    <3>3. Ordered(wire', past.heard, life, seq)
      BY <2>2, <3>2, OrderWithin
    <3> QED
      BY <2>2, <2>3, <3>1, <3>3
  <2>9. CASE DetectorRestarts
    <3>1. /\ wire' = <<>> /\ past'.life = 0 /\ past'.heard = {}
      BY <2>9 DEF DetectorRestarts, NewDetector
    <3> QED
      BY <3>1 DEF OrderInv, Ordered
  <2>10. ASSUME NEW d \in Residuals, NEW f \in TelemetryFailures, HandleTelemetry(d, f)
         PROVE  OrderInv'
    <3> DEFINE u == Tail(wire)
               l == wire[1].life
               m == wire[1].seq
               heard == past.heard \cup {<<l, m>>}
    <3>1. /\ wire # <<>> /\ wire' = Tail(wire)
          /\ last_seq' = LastSeq(Head(wire).seq)
          /\ past'.heard = IF Mine(Head(wire))
                           THEN past.heard \cup {<<Head(wire).life, Head(wire).seq>>}
                           ELSE past.heard
          /\ past'.life = IF Head(wire).seq # None THEN Head(wire).life ELSE past.life
          /\ UNCHANGED <<seq, life>>
      BY <1>2, <2>10, TelemetryStep
    <3>2. /\ Head(wire) = wire[1] /\ 1 \in 1..Len(wire)
          /\ Head(wire).life \in Nat /\ (Mine(Head(wire)) => Head(wire).seq # None)
      BY <1>2, <3>1, HeadType
    <3>3. CASE ~ Mine(Head(wire))
      <4>1. Head(wire).life = 0 /\ past'.heard = past.heard
        BY <3>1, <3>2, <3>3 DEF Mine
      <4>2. past'.life > 0 => past'.life = past.life /\ last_seq' = last_seq
        BY <3>1, <4>1 DEF LastSeq
      <4> QED
        BY <2>5, <3>1, <4>1, <4>2
    <3>4. CASE Mine(Head(wire))
      <4>1. /\ Mine(wire[1]) /\ l \in Nat /\ l > 0 /\ m \in Nat /\ m # None
            /\ last_seq' = m /\ past'.life = l /\ past'.heard = heard
        BY <1>2, <3>1, <3>2, <3>4, Naturals DEF LastSeq, Mine
      <4>2. /\ NotAfter(l, m, life, seq)
            /\ \A x \in past.heard : NotAfter(x[1], x[2], l, m)
        BY <2>2, <3>2, <4>1 DEF Ordered
      <4>3. NotAfter(l, m, l, m)
        BY <4>1 DEF NotAfter
      <4>4. Ordered(u, past.heard, life, seq)
        BY <1>2, <2>2, <3>1, TailWithin, OrderWithin
      <4>5. \A i \in 1..Len(u) : Mine(u[i]) => NotAfter(l, m, u[i].life, u[i].seq)
        <5>1. /\ Len(u) = Len(wire) - 1 /\ Len(wire) \in Nat
              /\ \A i \in 1..(Len(wire) - 1) : u[i] = wire[i + 1]
          BY <1>2, <3>1 DEF TypeInv
        <5>2. \A i \in 1..(Len(wire) - 1) : i + 1 \in 1..Len(wire) /\ 1 < i + 1
          BY <5>1
        <5> HIDE DEF u
        <5> QED
          BY <2>2, <3>2, <4>1, <5>1, <5>2 DEF Ordered
      <4>6. \A x \in heard : x \in past.heard \/ (x[1] = l /\ x[2] = m)
        OBVIOUS
      <4>7. <<l, m>> \in heard
        OBVIOUS
      <4> HIDE DEF u, l, m, heard
      <4>8. Ordered(u, heard, life, seq)
        BY <4>2, <4>4, <4>5, <4>6 DEF Ordered
      <4>9. Known(heard, l, m)
        BY <4>1, <4>2, <4>3, <4>6, <4>7
      <4> QED
        BY <2>3, <3>1, <4>1, <4>8, <4>9 DEF u
    <3> QED
      BY <3>3, <3>4
  <2>11. ASSUME NEW c \in Commands, NEW f \in CommandFailures, HandleCommand(c, f)
         PROVE  OrderInv'
    <3>1. /\ past'.heard = past.heard /\ past'.life = past.life
          /\ UNCHANGED <<wire, seq, life, last_seq>>
      BY <1>2, <2>11, CommandStep
    <3> QED
      BY <1>2, <3>1 DEF OrderInv
  <2>12. CASE UNCHANGED <<wire, seq, life, last_seq, past>>
    BY <1>2, <2>12 DEF OrderInv
  <2> QED
    BY <1>2, <2>1, <2>4, <2>6, <2>7, <2>8, <2>9, <2>10, <2>11, <2>12
       DEF Next, vars, plant, detector, Tick
<1> QED
  BY <1>1, <1>2

\* In that order a copy is heard again only as the last one once more, and what
\* was heard of a process does not go beyond the detector's number.
LEMMA OrderTells == TypeInv /\ OrderInv => ReplayIffHeard
<1> DEFINE l == Head(wire).life
           m == Head(wire).seq
           reached == { x[2] : x \in { y \in past.heard : y[1] = past.life } }
<1> SUFFICES ASSUME TypeInv, OrderInv, wire # <<>>, past.life > 0, m # None
             PROVE  /\ l = past.life => (Replayed(m) <=> m \in reached)
                    /\ l = 0 => (Replayed(m) <=> \E n \in reached : m <= n)
  BY DEF ReplayIffHeard
<1>1. Head(wire) = wire[1] /\ 1 \in 1..Len(wire) /\ m \in Nat
  BY HeadType, MonitorAssumption
<1>2. /\ last_seq # None /\ <<past.life, last_seq>> \in past.heard
      /\ \A x \in past.heard : NotAfter(x[1], x[2], past.life, last_seq)
  BY DEF OrderInv
<1>3. last_seq \in Nat /\ past.life \in Nat
  BY <1>2, Naturals
<1>4. last_seq \in reached
  BY <1>2
<1>5. ASSUME NEW n \in reached
      PROVE  n \in Nat /\ n <= last_seq /\ <<past.life, n>> \in past.heard
  <2>1. PICK x \in past.heard : x[1] = past.life /\ n = x[2]
    OBVIOUS
  <2>2. x[1] \in Nat /\ x[2] \in Nat /\ NotAfter(x[1], x[2], past.life, last_seq)
    BY <1>2, Naturals
  <2>3. n \in Nat /\ n <= last_seq
    BY <1>3, <2>1, <2>2 DEF NotAfter
  <2>4. past.heard \in SUBSET ((1..MaxLives) \X (1..MaxSeq))
    BY DEF TypeInv, Past
  <2>5. x = <<x[1], x[2]>>
    BY <2>4
  <2> QED
    BY <2>1, <2>3, <2>5
<1>6. Replayed(m) <=> m <= last_seq
  BY <1>2 DEF Replayed
<1>7. ASSUME l = past.life, m <= last_seq
      PROVE  m = last_seq
  <2>1. Mine(wire[1])
    BY <1>1, <1>7 DEF Mine
  <2>2. NotAfter(past.life, last_seq, l, m)
    <3>1. \A x \in past.heard : NotAfter(x[1], x[2], wire[1].life, wire[1].seq)
      BY <1>1, <2>1 DEF OrderInv, Ordered
    <3> QED
      BY <1>1, <1>2, <3>1
  <2> HIDE DEF l, m
  <2> QED
    BY <1>1, <1>3, <1>7, <2>2 DEF NotAfter
<1> HIDE DEF l, m, reached
<1>8. l = past.life => (m <= last_seq <=> m \in reached)
  BY <1>4, <1>5, <1>7
<1>9. m <= last_seq <=> \E n \in reached : m <= n
  <2>1. ASSUME NEW n \in reached, m <= n
        PROVE  m <= last_seq
    <3>1. n \in Nat /\ n <= last_seq
      BY <1>5
    <3> QED
      BY <1>1, <1>3, <2>1, <3>1
  <2> QED
    BY <1>4, <2>1
<1> QED
  BY <1>6, <1>8, <1>9

-----------------------------------------------------------------------------
\* What was heard is finite.
LEMMA HeardFinite ==
    ASSUME TypeInv
    PROVE  IsFiniteSet(past.heard) /\ Cardinality(past.heard) \in Nat
<1>1. past.heard \in SUBSET ((1..MaxLives) \X (1..MaxSeq))
  BY DEF TypeInv, Past
<1>2. IsFiniteSet(1..MaxLives) /\ IsFiniteSet(1..MaxSeq)
  BY FS_Interval, MonitorAssumption
<1>3. IsFiniteSet((1..MaxLives) \X (1..MaxSeq))
  BY <1>2, FS_Product
<1>4. IsFiniteSet(past.heard)
  BY <1>1, <1>3, FS_Subset
<1> QED
  BY <1>4, FS_CardinalityType

\* Copies that are left in their order are paired, and a second copy among them
\* was there before.
LEMMA PairedWithin ==
    ASSUME NEW u, NEW w, NEW f, Within(u, w, f), NEW heard, Paired(w, heard),
           \A i \in 1..Len(u) : i \in Int
    PROVE  Paired(u, heard) /\ Second(u, heard) <= Second(w, heard)
<1>1. /\ \A i \in 1..Len(u) : Mine(u[i]) => f[i] \in 1..Len(w) /\ u[i] = w[f[i]]
      /\ \A i, j \in 1..Len(u) : i < j /\ Mine(u[i]) /\ Mine(u[j]) => f[i] < f[j]
  BY DEF Within
<1>2. ASSUME NEW i \in 1..Len(u), NEW j \in 1..Len(u), NEW k \in 1..Len(u),
             i < j, j < k, Mine(u[i]), Mine(u[j]), Mine(u[k])
      PROVE  Id(u[i]) # Id(u[k])
  <2>1. f[i] < f[j] /\ f[j] < f[k]
    BY <1>1, <1>2
  <2>2. /\ f[i] \in 1..Len(w) /\ f[j] \in 1..Len(w) /\ f[k] \in 1..Len(w)
        /\ u[i] = w[f[i]] /\ u[j] = w[f[j]] /\ u[k] = w[f[k]]
    BY <1>1, <1>2
  <2> QED
    BY <1>2, <2>1, <2>2 DEF Paired
<1>3. ASSUME NEW i \in 1..Len(u), NEW j \in 1..Len(u), i < j, Mine(u[i]), Mine(u[j])
      PROVE  Id(u[j]) \notin heard
  <2>1. /\ f[i] \in 1..Len(w) /\ f[j] \in 1..Len(w) /\ f[i] < f[j]
        /\ u[i] = w[f[i]] /\ u[j] = w[f[j]]
    BY <1>1, <1>3
  <2> QED
    BY <1>3, <2>1 DEF Paired
<1>4. (\E i \in 1..Len(u) : Mine(u[i]) /\ Id(u[i]) \in heard)
      => \E i \in 1..Len(w) : Mine(w[i]) /\ Id(w[i]) \in heard
  BY <1>1
<1>5. Paired(u, heard)
  BY <1>2, <1>3 DEF Paired
<1>6. Second(u, heard) <= Second(w, heard)
  BY <1>4 DEF Second
<1> QED
  BY <1>5, <1>6

\* A counter that is no higher, on a wire with no more second copies, is below
\* the frames that can have been handled.
LEMMA CountsOn ==
    ASSUME TypeInv, PairInv, NEW w, Second(w, past.heard) <= Second(wire, past.heard)
    PROVE  Counts(w, past.heard, past.foreign, last_h, frozen_count)
<1> DEFINE size == Cardinality(past.heard)
           all == 2 * size + past.foreign
           a == Second(w, past.heard)
           b == Second(wire, past.heard)
<1>1. /\ frozen_count \in Nat /\ size \in Nat /\ past.foreign \in Nat
      /\ a \in Nat /\ b \in Nat /\ a <= b
  BY HeardFinite, Naturals DEF TypeInv, Second
<1>2. CASE past.heard = {} /\ past.foreign = 0
  BY <1>2 DEF PairInv, Counts
<1>3. CASE ~ (past.heard = {} /\ past.foreign = 0)
  <2>1. frozen_count + 1 + b <= all
    BY <1>3 DEF PairInv, Counts
  <2>2. all \in Nat
    BY <1>1
  <2> HIDE DEF all, a, b
  <2>3. frozen_count + 1 + a <= all
    BY <1>1, <2>1, <2>2
  <2> QED
    BY <1>3, <2>3 DEF Counts, all, a
<1> QED
  BY <1>2, <1>3

\* What is published is neither on the wire nor heard.
LEMMA PairsGrow ==
    ASSUME TypeInv, OrderInv, PairInv, NEW s \in Samples, PlantPublishes(s)
    PROVE  PairInv'
<1> DEFINE n == Len(wire)
           c == Copy(s, seq')
           u == wire \o <<c, c>>
           new == <<life, seq + 1>>
<1>1. /\ seq' = seq + 1 /\ life' = life
      /\ wire' = IF Subscribed THEN u ELSE <<>>
      /\ UNCHANGED <<last_h, frozen_count, past>>
  BY DEF PlantPublishes, detector, behaviour
<1>2. Id(c) = new
  BY <1>1 DEF Copy, Id
<1>3. wire \in Seq(Sent) /\ n \in Nat
  BY DEF TypeInv
<1> HIDE DEF c
<1>4. /\ Len(u) = n + 2 /\ u[n + 1] = c /\ u[n + 2] = c
      /\ \A i \in 1..n : u[i] = wire[i]
  <2>1. wire \in Seq(Sent \cup {c}) /\ <<c, c>> \in Seq(Sent \cup {c})
    BY <1>3
  <2> QED
    BY <1>3, <2>1
<1> HIDE DEF u
<1>5. ~ NotAfter(life, seq + 1, life, seq)
  BY Naturals DEF NotAfter
<1>6. \A i \in 1..n : Mine(wire[i]) => Id(wire[i]) # new
  <2> SUFFICES ASSUME NEW i \in 1..n, Mine(wire[i]), Id(wire[i]) = new
               PROVE  FALSE
    OBVIOUS
  <2>1. wire[i].life = life /\ wire[i].seq = seq + 1
    BY DEF Id
  <2>2. NotAfter(wire[i].life, wire[i].seq, life, seq)
    BY DEF OrderInv, Ordered
  <2> QED
    BY <1>5, <2>1, <2>2
<1>7. new \notin past.heard
  <2>1. \A x \in past.heard : NotAfter(x[1], x[2], life, seq)
    BY DEF OrderInv, Ordered
  <2> QED
    BY <1>5, <2>1
<1> HIDE DEF new, n
<1>8. \A i \in 1..(n + 2) : \/ i \in 1..n /\ u[i] = wire[i]
                            \/ i \in {n + 1, n + 2} /\ Id(u[i]) = new
  BY <1>2, <1>3, <1>4
<1>9. Paired(wire, past.heard)
  BY DEF PairInv
<1>10. Paired(u, past.heard)
  <2>1. ASSUME NEW i \in 1..(n + 2), NEW j \in 1..(n + 2), NEW k \in 1..(n + 2),
               i < j, j < k, Mine(u[i]), Mine(u[j]), Mine(u[k])
        PROVE  Id(u[i]) # Id(u[k])
    <3>1. i \in 1..n /\ u[i] = wire[i]
      BY <1>3, <1>4, <2>1
    <3>2. CASE k \in 1..n
      <4>1. j \in 1..n /\ u[j] = wire[j] /\ u[k] = wire[k]
        BY <1>3, <1>4, <2>1, <3>2
      <4> QED
        BY <1>9, <2>1, <3>1, <3>2, <4>1 DEF Paired, n
    <3>3. CASE k \notin 1..n
      BY <1>6, <1>8, <2>1, <3>1, <3>3
    <3> QED
      BY <3>2, <3>3
  <2>2. ASSUME NEW i \in 1..(n + 2), NEW j \in 1..(n + 2), i < j, Mine(u[i]), Mine(u[j])
        PROVE  Id(u[j]) \notin past.heard
    <3>1. CASE j \in 1..n
      <4>1. i \in 1..n /\ u[i] = wire[i] /\ u[j] = wire[j]
        BY <1>3, <1>4, <2>2, <3>1
      <4> QED
        BY <1>9, <2>2, <3>1, <4>1 DEF Paired, n
    <3>2. CASE j \notin 1..n
      BY <1>7, <1>8, <3>2
    <3> QED
      BY <3>1, <3>2
  <2> QED
    BY <1>4, <2>1, <2>2 DEF Paired
<1>11. Second(u, past.heard) <= Second(wire, past.heard)
  <2>1. (\E i \in 1..(n + 2) : Mine(u[i]) /\ Id(u[i]) \in past.heard)
        => \E i \in 1..n : Mine(wire[i]) /\ Id(wire[i]) \in past.heard
    BY <1>7, <1>8
  <2> QED
    BY <1>4, <2>1 DEF Second, n
<1>12. Paired(<<>>, past.heard) /\ Second(<<>>, past.heard) <= Second(wire, past.heard)
  <2>1. Len(<<>>) = 0
    OBVIOUS
  <2> QED
    BY <2>1 DEF Paired, Second
<1>13. /\ Counts(u, past.heard, past.foreign, last_h, frozen_count)
       /\ Counts(<<>>, past.heard, past.foreign, last_h, frozen_count)
  BY <1>11, <1>12, CountsOn
<1> QED
  BY <1>1, <1>10, <1>12, <1>13 DEF PairInv

\* What a frame, handled or lost, leaves on the wire is paired; if it is a copy,
\* the others are paired with it as heard, and none of them is a second copy of
\* what was heard before.
LEMMA PairsOfTail ==
    ASSUME TypeInv, PairInv, wire # <<>>
    PROVE  LET u == Tail(wire)
               x == Id(wire[1])
           IN  /\ Paired(u, past.heard)
               /\ Second(u, past.heard) <= Second(wire, past.heard)
               /\ Mine(wire[1]) =>
                     /\ Paired(u, past.heard \cup {x})
                     /\ Second(u, past.heard) = 0
                     /\ x \in past.heard => Second(wire, past.heard) = 1
<1> DEFINE n == Len(wire)
           u == Tail(wire)
           x == Id(wire[1])
<1>1. /\ n \in Nat /\ n > 0 /\ Len(u) = n - 1 /\ 1 \in 1..n
      /\ \A i \in 1..(n - 1) : u[i] = wire[i + 1]
  BY DEF TypeInv
<1>2. Paired(wire, past.heard)
  BY DEF PairInv
<1>3. Paired(u, past.heard) /\ Second(u, past.heard) <= Second(wire, past.heard)
  BY <1>2, TailWithin, PairedWithin
<1> HIDE DEF u, n
<1>4. ASSUME Mine(wire[1])
      PROVE  /\ \A i \in 1..(n - 1) : Mine(u[i]) => Id(u[i]) \notin past.heard
             /\ \A i, j \in 1..(n - 1) :
                   i < j /\ Mine(u[i]) /\ Mine(u[j]) => Id(u[j]) # x
  <2>1. ASSUME NEW i \in 1..(n - 1), Mine(u[i])
        PROVE  Id(u[i]) \notin past.heard
    <3>1. i + 1 \in 1..n /\ 1 < i + 1 /\ u[i] = wire[i + 1]
      BY <1>1
    <3> QED
      BY <1>1, <1>2, <1>4, <2>1, <3>1 DEF Paired, n
  <2>2. ASSUME NEW i \in 1..(n - 1), NEW j \in 1..(n - 1), i < j, Mine(u[i]), Mine(u[j])
        PROVE  Id(u[j]) # x
    <3>1. /\ i + 1 \in 1..n /\ 1 < i + 1 /\ u[i] = wire[i + 1]
          /\ j + 1 \in 1..n /\ i + 1 < j + 1 /\ u[j] = wire[j + 1]
      BY <1>1, <2>2
    <3> QED
      BY <1>1, <1>2, <1>4, <2>2, <3>1 DEF Paired, n
  <2> QED
    BY <2>1, <2>2
<1>5. ASSUME Mine(wire[1])
      PROVE  /\ Paired(u, past.heard \cup {x})
             /\ Second(u, past.heard) = 0
             /\ x \in past.heard => Second(wire, past.heard) = 1
  <2> HIDE DEF x
  <2>1. Paired(u, past.heard \cup {x})
    BY <1>1, <1>3, <1>4, <1>5 DEF Paired
  <2>2. Second(u, past.heard) = 0
    BY <1>1, <1>4, <1>5 DEF Second
  <2>3. x \in past.heard => Second(wire, past.heard) = 1
    BY <1>1, <1>5 DEF Second, x, n
  <2> QED
    BY <2>1, <2>2, <2>3
<1> QED
  BY <1>3, <1>5 DEF u

\* Every step keeps the pairs, and counts a frame at most once.
LEMMA PairInductive ==
    /\ Init => PairInv
    /\ TypeInv /\ OrderInv /\ PairInv /\ [Next]_vars => PairInv'
<1>1. Init => PairInv
  <2>1. Len(<<>>) = 0
    OBVIOUS
  <2> QED
    BY <2>1 DEF Init, NewDetector, PairInv, Paired, Counts
<1>2. ASSUME TypeInv, OrderInv, PairInv, [Next]_vars
      PROVE  PairInv'
  <2>1. CASE \E s \in Samples : PlantPublishes(s)
    BY <1>2, <2>1, PairsGrow
  <2>2. /\ frozen_count \in Nat /\ past.foreign \in Nat
        /\ IsFiniteSet(past.heard) /\ Cardinality(past.heard) \in Nat
    BY <1>2, HeardFinite, Naturals DEF TypeInv
  <2>3. CASE /\ wire # <<>> /\ wire' = Tail(wire) /\ UNCHANGED <<last_h, frozen_count>>
             /\ past'.heard = past.heard /\ past'.foreign = past.foreign
    <3>1. /\ Paired(Tail(wire), past.heard)
          /\ Counts(Tail(wire), past.heard, past.foreign, last_h, frozen_count)
      BY <1>2, <2>3, PairsOfTail, CountsOn
    <3> QED
      BY <2>3, <3>1 DEF PairInv
  <2>4. CASE Lose
    BY <2>3, <2>4 DEF Lose, detector, behaviour
  <2>5. CASE FailTelemetry
    <3>1. /\ wire # <<>> /\ wire' = Tail(wire) /\ UNCHANGED <<last_h, frozen_count>>
          /\ past'.heard = past.heard /\ past'.foreign = past.foreign
      BY <1>2, <2>5, FailureStep
    <3> QED
      BY <2>3, <3>1
  <2>6. ASSUME NEW m \in Foreign, NEW i \in 0..Len(wire), PublishForeign(m, i)
        PROVE  PairInv'
    <3>1. UNCHANGED <<last_h, frozen_count, past>>
      BY <2>6 DEF PublishForeign, detector, behaviour
    <3>2. PICK f : Within(wire', wire, f)
      BY <1>2, <2>6, InsertedWithin
    <3>3. Paired(wire, past.heard)
      BY <1>2 DEF PairInv
    <3>4. Paired(wire', past.heard) /\ Second(wire', past.heard) <= Second(wire, past.heard)
      BY <3>2, <3>3, PairedWithin
    <3>5. Counts(wire', past.heard, past.foreign, last_h, frozen_count)
      BY <1>2, <3>4, CountsOn
    <3> QED
      BY <3>1, <3>4, <3>5 DEF PairInv
  <2>7. CASE DetectorRestarts
    <3>1. /\ wire' = <<>> /\ last_h' = None /\ frozen_count' = 0
          /\ past'.heard = {} /\ past'.foreign = 0
      BY <2>7 DEF DetectorRestarts, NewDetector
    <3>2. Len(<<>>) = 0
      OBVIOUS
    <3> QED
      BY <3>1, <3>2 DEF PairInv, Paired, Counts
  <2>8. ASSUME NEW d \in Residuals, NEW f \in TelemetryFailures, HandleTelemetry(d, f)
        PROVE  PairInv'
    <3> DEFINE x == Id(wire[1])
               u == Tail(wire)
               heard == IF Mine(wire[1]) THEN past.heard \cup {x} ELSE past.heard
               foreign == IF Mine(wire[1]) THEN past.foreign ELSE past.foreign + 1
    <3>1. /\ wire # <<>> /\ wire' = u
          /\ past'.heard = IF Mine(Head(wire))
                           THEN past.heard \cup {<<Head(wire).life, Head(wire).seq>>}
                           ELSE past.heard
          /\ past'.foreign = IF Mine(Head(wire)) THEN past.foreign ELSE past.foreign + 1
          /\ \/ UNCHANGED <<last_h, frozen_count>>
             \/ \E h, p : frozen_count' = FrozenCount(h, p)
      BY <1>2, <2>8, TelemetryStep
    <3>2. Head(wire) = wire[1]
      BY <1>2, <3>1, HeadType
    <3>3. past'.heard = heard /\ past'.foreign = foreign
      BY <3>1, <3>2 DEF Id
    <3>4. ~ (heard = {} /\ foreign = 0)
      <4>1. CASE Mine(wire[1])
        BY <4>1
      <4>2. CASE ~ Mine(wire[1])
        BY <2>2, <4>2
      <4> QED
        BY <4>1, <4>2
    <3>5. /\ Paired(u, past.heard)
          /\ Second(u, past.heard) <= Second(wire, past.heard)
          /\ Mine(wire[1]) =>
                /\ Paired(u, past.heard \cup {x})
                /\ Second(u, past.heard) = 0
                /\ x \in past.heard => Second(wire, past.heard) = 1
      BY <1>2, <3>1, PairsOfTail
    <3>6. Paired(u, heard)
      BY <3>5
    <3>7. /\ frozen_count' \in Nat /\ frozen_count' <= frozen_count + 1
          /\ last_h = None => frozen_count' \in {0, frozen_count}
      BY <2>2, <3>1 DEF FrozenCount
    <3>8. Counts(wire, past.heard, past.foreign, last_h, frozen_count)
      BY <1>2 DEF PairInv
    <3> DEFINE size == Cardinality(past.heard)
               next == Cardinality(heard)
               before == Second(wire, past.heard)
               after == Second(u, heard)
               count == frozen_count
               new == frozen_count'
               strangers == past.foreign
    <3>9. /\ count \in Nat /\ new \in Nat /\ new <= count + 1
          /\ size \in Nat /\ strangers \in Nat
          /\ before \in {0, 1} /\ after \in {0, 1}
      BY <2>2, <3>7 DEF Second
    <3>10. \/ new = 0 /\ before = 0 /\ size = 0 /\ strangers = 0
          \/ count + 1 + before <= 2 * size + strangers
      <4>1. CASE past.heard = {} /\ past.foreign = 0
        BY <3>7, <3>8, <4>1, FS_EmptySet DEF Counts, Second
      <4>2. CASE ~ (past.heard = {} /\ past.foreign = 0)
        BY <3>8, <4>2 DEF Counts
      <4> QED
        BY <4>1, <4>2
    <3>11. \/ next = size /\ foreign = strangers + 1 /\ after <= before
           \/ next = size /\ foreign = strangers /\ after = 0 /\ before = 1
           \/ next = size + 1 /\ foreign = strangers
      <4>1. CASE ~ Mine(wire[1])
        BY <3>5, <4>1
      <4>2. CASE Mine(wire[1]) /\ x \in past.heard
        <5>1. heard = past.heard
          BY <4>2
        <5> QED
          BY <3>5, <4>2, <5>1
      <4>3. CASE Mine(wire[1]) /\ x \notin past.heard
        <5>1. heard = past.heard \cup {x}
          BY <4>3
        <5> QED
          BY <2>2, <4>3, <5>1, FS_AddElement
      <4> QED
        BY <4>1, <4>2, <4>3
    <3> HIDE DEF size, next, before, after, count, new, strangers, foreign, heard, u
    <3>12. new + 1 + after <= 2 * next + foreign
      <4>1. CASE new = 0 /\ before = 0 /\ size = 0 /\ strangers = 0
        BY <3>9, <3>11, <4>1
      <4>2. CASE count + 1 + before <= 2 * size + strangers
        <5>1. CASE next = size /\ foreign = strangers + 1 /\ after <= before
          BY <3>9, <4>2, <5>1
        <5>2. CASE next = size /\ foreign = strangers /\ after = 0 /\ before = 1
          BY <3>9, <4>2, <5>2
        <5>3. CASE next = size + 1 /\ foreign = strangers
          BY <3>9, <4>2, <5>3
        <5> QED
          BY <3>11, <5>1, <5>2, <5>3
      <4> QED
        BY <3>10, <4>1, <4>2
    <3>13. Counts(u, heard, foreign, last_h', frozen_count')
      BY <3>12, <3>4 DEF Counts, next, after, new
    <3> QED
      BY <3>1, <3>3, <3>6, <3>13 DEF PairInv
  <2>9. ASSUME NEW c \in Commands, NEW f \in CommandFailures, HandleCommand(c, f)
        PROVE  PairInv'
    <3>1. /\ past'.heard = past.heard /\ past'.foreign = past.foreign
          /\ UNCHANGED <<wire, last_h, frozen_count>>
      BY <1>2, <2>9, CommandStep
    <3> QED
      BY <1>2, <3>1 DEF PairInv
  <2>10. CASE UNCHANGED <<wire, last_h, frozen_count, past>>
    BY <1>2, <2>10 DEF PairInv
  <2> QED
    BY <1>2, <2>1, <2>4, <2>5, <2>6, <2>7, <2>8, <2>9, <2>10
       DEF Next, vars, detector, behaviour, PlantRestarts, Tick
<1> QED
  BY <1>1, <1>2

\* The alert of a frozen feed is exact in frames, and in samples by the half.
LEMMA FrozenTells == TypeInv /\ RowInv /\ PairInv => FrozenExact
<1> SUFFICES ASSUME TypeInv, RowInv, PairInv
             PROVE  FrozenExact
  OBVIOUS
<1>1. /\ frozen_count \in Nat /\ Cardinality(past.heard) \in Nat /\ past.foreign \in Nat
      /\ Second(wire, past.heard) \in {0, 1}
  BY HeardFinite, Naturals DEF TypeInv, Second
<1>2. frozen_count > 0 => frozen_count < 2 * Cardinality(past.heard) + past.foreign
  BY <1>1 DEF PairInv, Counts
<1> QED
  BY <1>2, RowExact DEF FrozenExact

-----------------------------------------------------------------------------
\* A window that is appended to and filtered goes on holding the latest entries.
LEMMA HoldsOn ==
    ASSUME NEW E, NEW all \in Seq(E), NEW e \in E, NEW window, NEW S,
           NEW k \in 0..Len(all), window = SubSeq(all, k + 1, Len(all)),
           NEW old \in SUBSET (1..(Len(all) + 1)),
           \A i \in 1..k : i \in old,
           Len(all) + 1 \notin old,
           \A i, j \in 1..(Len(all) + 1) : i <= j /\ j \in old => i \in old,
           \A i \in 1..(Len(all) + 1) : Append(all, e)[i] \in S <=> i \notin old
    PROVE  \E m \in 0..(Len(all) + 1) :
              Holds(Kept(Append(window, e), S), Append(all, e), m, old)
<1>1. Len(all) \in Nat /\ Len(Append(all, e)) = Len(all) + 1
  OBVIOUS
<1>2. PICK m \in 0..Len(all) : \A i \in 1..(Len(all) + 1) : i <= m <=> i \in old
  BY <1>1, Cutoff
<1>3. m \in k..Len(all)
  <2>1. k > 0 => k <= m
    BY <1>1, <1>2
  <2> QED
    BY <1>1, <2>1
<1>4. \A i \in (k + 1)..(Len(all) + 1) : Append(all, e)[i] \in S <=> i > m
  <2> SUFFICES ASSUME NEW i \in (k + 1)..(Len(all) + 1)
               PROVE  Append(all, e)[i] \in S <=> i > m
    OBVIOUS
  <2>1. i \in 1..(Len(all) + 1) /\ (i > m <=> ~ (i <= m))
    BY <1>1
  <2> QED
    BY <1>2, <2>1
<1>5. Kept(Append(window, e), S) = SubSeq(Append(all, e), m + 1, Len(all) + 1)
  BY <1>3, <1>4, WindowSlides
<1>6. Holds(Kept(Append(window, e), S), Append(all, e), m, old)
  BY <1>1, <1>2, <1>5 DEF Holds
<1> QED
  BY <1>1, <1>6

\* What a window holds is as long as what is not too old.
LEMMA HoldsLength ==
    ASSUME NEW E, NEW all \in Seq(E), NEW window, NEW k \in 0..Len(all), NEW old,
           Holds(window, all, k, old)
    PROVE  Len(window) = Cardinality({ i \in 1..Len(all) : i \notin old })
<1>1. Len(all) \in Nat /\ Len(window) = Len(all) - k
  BY DEF Holds
<1>2. { i \in 1..Len(all) : i \notin old } = (k + 1)..Len(all)
  BY <1>1 DEF Holds
<1>3. Cardinality((k + 1)..Len(all)) = Len(all) - k
  <2>1. k + 1 \in Int /\ Len(all) \in Int
    BY <1>1
  <2>2. Cardinality((k + 1)..Len(all))
        = IF k + 1 > Len(all) THEN 0 ELSE Len(all) - (k + 1) + 1
    BY <2>1, FS_Interval
  <2> QED
    BY <1>1, <2>2
<1> QED
  BY <1>1, <1>2, <1>3

\* Each of the two halves of WindowInv
CommandsInv(times, c, t) ==
    /\ \A i \in 1..Len(c) : c[i] <= t
    /\ \A i, j \in 1..Len(c) : i <= j => c[i] <= c[j]
    /\ \E k \in 0..Len(c) :
          Holds(times, c, k, { i \in 1..Len(c) : c[Len(c)] - c[i] > CommandWindow })
SetpointsInv(history, s, t) ==
    /\ \A i \in 1..Len(s) : s[i][1] <= t
    /\ \A i, j \in 1..Len(s) : i <= j => s[i][1] <= s[j][1]
    /\ \E k \in 0..Len(s) :
          Holds(history, s, k, { i \in 1..Len(s) : s[Len(s)][1] - s[i][1] > DriftWindow })
LEMMA WindowHalves ==
    WindowInv <=> /\ CommandsInv(command_times, past.commands, now)
                  /\ SetpointsInv(setpoint_history, past.setpoints, now)
  BY DEF WindowInv, CommandsInv, SetpointsInv

\* The times of the history are numbers.
LEMMA TimesAreNumbers ==
    ASSUME TypeInv
    PROVE  /\ \A i \in 1..Len(past.commands) : past.commands[i] \in Int
           /\ \A i \in 1..Len(past.setpoints) : past.setpoints[i][1] \in Int
<1>1. past.commands \in Seq(Time) /\ past.setpoints \in Seq(Time \X Int)
  BY DEF TypeInv, Past
<1>2. /\ \A i \in 1..Len(past.commands) : past.commands[i] \in Time
      /\ \A i \in 1..Len(past.setpoints) : past.setpoints[i] \in Time \X Int
  BY <1>1
<1>3. Time \subseteq Int
  BY MonitorAssumption DEF Time
<1>4. \A i \in 1..Len(past.setpoints) : past.setpoints[i][1] \in Time
  BY <1>2
<1> QED
  BY <1>2, <1>3, <1>4

\* The command that is handled goes into the window of the commands.
LEMMA CommandsGoOn ==
    ASSUME TypeInv, CommandsInv(command_times, past.commands, now)
    PROVE  CommandsInv(CommandTimes, Append(past.commands, now), now)
<1> DEFINE c == past.commands
           n == Len(c)
           u == Append(c, now)
           S == { t \in Int : now - t <= CommandWindow }
           old == { i \in 1..(n + 1) : u[n + 1] - u[i] > CommandWindow }
<1>1. /\ c \in Seq(Time) /\ now \in Time /\ now \in Int /\ CommandWindow \in Nat
      /\ Time \subseteq Int
  BY MonitorAssumption DEF TypeInv, Past, Time
<1>2. /\ n \in Nat /\ Len(u) = n + 1 /\ u[n + 1] = now
      /\ \A i \in 1..n : u[i] = c[i]
      /\ \A i \in 1..(n + 1) : u[i] \in Int
  <2>1. /\ n \in Nat /\ Len(u) = n + 1 /\ u[n + 1] = now
        /\ \A i \in 1..n : u[i] = c[i]
    BY <1>1
  <2>2. \A i \in 1..n : c[i] \in Time
    BY <1>1
  <2> HIDE DEF c, n, u
  <2>3. \A i \in 1..(n + 1) : i = n + 1 \/ i \in 1..n
    BY <2>1
  <2> QED
    BY <1>1, <2>1, <2>2, <2>3
<1>3. PICK k \in 0..n :
          Holds(command_times, c, k, { i \in 1..n : c[n] - c[i] > CommandWindow })
  BY DEF CommandsInv
<1>4. command_times = SubSeq(c, k + 1, n)
      /\ \A i \in 1..n : i <= k => c[n] - c[i] > CommandWindow
  BY <1>3 DEF Holds
<1>5. /\ \A i \in 1..n : c[i] <= now
      /\ \A i, j \in 1..n : i <= j => c[i] <= c[j]
  BY DEF CommandsInv
<1>6. CommandTimes = Kept(Append(command_times, now), S)
  BY DEF CommandTimes
<1> HIDE DEF c, n, u
<1>7. \A i, j \in 1..(n + 1) : i <= j => u[i] <= u[j]
  <2> SUFFICES ASSUME NEW i \in 1..(n + 1), NEW j \in 1..(n + 1), i <= j
               PROVE  u[i] <= u[j]
    OBVIOUS
  <2>1. CASE j = n + 1
    <3>1. CASE i = n + 1
      BY <1>1, <1>2, <2>1, <3>1
    <3>2. CASE i # n + 1
      <4>1. i \in 1..n
        BY <1>2, <3>2
      <4> QED
        BY <1>2, <1>5, <2>1, <4>1
    <3> QED
      BY <3>1, <3>2
  <2>2. CASE j # n + 1
    <3>1. i \in 1..n /\ j \in 1..n
      BY <1>2, <2>2
    <3> QED
      BY <1>2, <1>5, <3>1
  <2> QED
    BY <2>1, <2>2
<1>8. \A i \in 1..(n + 1) : u[i] <= now
  <2> SUFFICES ASSUME NEW i \in 1..(n + 1)
               PROVE  u[i] <= now
    OBVIOUS
  <2>1. n + 1 \in 1..(n + 1) /\ i <= n + 1
    BY <1>2
  <2> QED
    BY <1>2, <1>7, <2>1
<1>9. \A i \in 1..k : i \in old
  <2> SUFFICES ASSUME NEW i \in 1..k
               PROVE  i \in old
    OBVIOUS
  <2>1. i \in 1..n /\ n \in 1..n /\ i <= k /\ i \in 1..(n + 1)
    BY <1>2
  <2>2. c[n] - c[i] > CommandWindow /\ c[n] <= now /\ u[i] = c[i] /\ u[n] = c[n]
    BY <1>2, <1>4, <1>5, <2>1
  <2>3. u[i] \in Int /\ u[n] \in Int
    BY <1>2, <2>1
  <2> QED
    BY <1>1, <1>2, <2>1, <2>2, <2>3
<1>10. n + 1 \notin old
  BY <1>1, <1>2
<1>11. \A i, j \in 1..(n + 1) : i <= j /\ j \in old => i \in old
  <2> SUFFICES ASSUME NEW i \in 1..(n + 1), NEW j \in 1..(n + 1), i <= j, j \in old
               PROVE  i \in old
    OBVIOUS
  <2>1. u[i] <= u[j] /\ u[i] \in Int /\ u[j] \in Int /\ u[n + 1] \in Int
    BY <1>1, <1>2, <1>7
  <2> QED
    BY <1>1, <2>1
<1>12. \A i \in 1..(n + 1) : u[i] \in S <=> i \notin old
  BY <1>1, <1>2
<1> HIDE DEF S, old
<1>13. \E m \in 0..(n + 1) : Holds(Kept(Append(command_times, now), S), u, m, old)
  <2>1. old \in SUBSET (1..(n + 1))
    BY DEF old
  <2> QED
    BY <1>1, <1>4, <1>9, <1>10, <1>11, <1>12, <2>1, HoldsOn DEF n, u
<1> QED
  BY <1>2, <1>6, <1>7, <1>8, <1>13 DEF CommandsInv, old, c, u

\* The setpoint that is recorded goes into the window of the setpoints.
LEMMA SetpointsGoOn ==
    ASSUME TypeInv, NEW sp \in Int, SetpointsInv(setpoint_history, past.setpoints, now)
    PROVE  SetpointsInv(SetpointHistory(sp), Append(past.setpoints, <<now, sp>>), now)
<1> DEFINE c == past.setpoints
           n == Len(c)
           new == <<now, sp>>
           u == Append(c, new)
           S == { e \in Int \X Int : e[1] >= now - DriftWindow }
           old == { i \in 1..(n + 1) : u[n + 1][1] - u[i][1] > DriftWindow }
<1>1. /\ c \in Seq(Time \X Int) /\ now \in Int /\ DriftWindow \in Nat
      /\ new \in Time \X Int /\ new[1] = now
  BY MonitorAssumption DEF TypeInv, Past, Time
<1> HIDE DEF new
<1>2. /\ n \in Nat /\ Len(u) = n + 1 /\ u[n + 1][1] = now
      /\ \A i \in 1..n : u[i] = c[i]
      /\ \A i \in 1..(n + 1) : u[i] \in Int \X Int
  BY <1>1 DEF Time
<1>3. PICK k \in 0..n :
          Holds(setpoint_history, c, k, { i \in 1..n : c[n][1] - c[i][1] > DriftWindow })
  BY DEF SetpointsInv
<1>4. setpoint_history = SubSeq(c, k + 1, n)
      /\ \A i \in 1..n : i <= k => c[n][1] - c[i][1] > DriftWindow
  BY <1>3 DEF Holds
<1>5. /\ \A i \in 1..n : c[i][1] <= now
      /\ \A i, j \in 1..n : i <= j => c[i][1] <= c[j][1]
  BY DEF SetpointsInv
<1>6. SetpointHistory(sp) = Kept(Append(setpoint_history, new), S)
  BY DEF SetpointHistory, new
<1> HIDE DEF c, n, u
<1>7. \A i, j \in 1..(n + 1) : i <= j => u[i][1] <= u[j][1]
  <2> SUFFICES ASSUME NEW i \in 1..(n + 1), NEW j \in 1..(n + 1), i <= j
               PROVE  u[i][1] <= u[j][1]
    OBVIOUS
  <2>1. CASE j = n + 1
    <3>1. CASE i = n + 1
      BY <1>1, <1>2, <2>1, <3>1
    <3>2. CASE i # n + 1
      <4>1. i \in 1..n
        BY <1>2, <3>2
      <4> QED
        BY <1>2, <1>5, <2>1, <4>1
    <3> QED
      BY <3>1, <3>2
  <2>2. CASE j # n + 1
    <3>1. i \in 1..n /\ j \in 1..n
      BY <1>2, <2>2
    <3> QED
      BY <1>2, <1>5, <3>1
  <2> QED
    BY <2>1, <2>2
<1>8. \A i \in 1..(n + 1) : u[i][1] <= now
  <2> SUFFICES ASSUME NEW i \in 1..(n + 1)
               PROVE  u[i][1] <= now
    OBVIOUS
  <2>1. n + 1 \in 1..(n + 1) /\ i <= n + 1
    BY <1>2
  <2> QED
    BY <1>2, <1>7, <2>1
<1>9. \A i \in 1..k : i \in old
  <2> SUFFICES ASSUME NEW i \in 1..k
               PROVE  i \in old
    OBVIOUS
  <2>1. i \in 1..n /\ n \in 1..n /\ i <= k /\ i \in 1..(n + 1) /\ n \in 1..(n + 1)
    BY <1>2
  <2>2. c[n][1] - c[i][1] > DriftWindow /\ c[n][1] <= now /\ u[i] = c[i] /\ u[n] = c[n]
    BY <1>2, <1>4, <1>5, <2>1
  <2>3. u[n + 1][1] - u[i][1] > DriftWindow
    <3> DEFINE a == u[i][1]
               b == u[n][1]
               z == u[n + 1][1]
    <3>1. a \in Int /\ b \in Int /\ z \in Int /\ b <= z /\ b - a > DriftWindow
      BY <1>1, <1>2, <2>1, <2>2
    <3> HIDE DEF a, b, z
    <3>2. z - a > DriftWindow
      BY <1>1, <3>1
    <3> QED
      BY <3>2 DEF a, z
  <2> QED
    BY <2>1, <2>3
<1>10. n + 1 \notin old
  BY <1>1, <1>2
<1>11. \A i, j \in 1..(n + 1) : i <= j /\ j \in old => i \in old
  <2> SUFFICES ASSUME NEW i \in 1..(n + 1), NEW j \in 1..(n + 1), i <= j, j \in old
               PROVE  i \in old
    OBVIOUS
  <2>1. /\ u[i][1] <= u[j][1] /\ u[i][1] \in Int /\ u[j][1] \in Int
        /\ u[n + 1][1] \in Int /\ u[n + 1][1] - u[j][1] > DriftWindow
    BY <1>1, <1>2, <1>7
  <2>2. u[n + 1][1] - u[i][1] > DriftWindow
    <3> DEFINE a == u[i][1]
               b == u[j][1]
               z == u[n + 1][1]
    <3>1. a \in Int /\ b \in Int /\ z \in Int /\ a <= b /\ z - b > DriftWindow
      BY <2>1
    <3> HIDE DEF a, b, z
    <3>2. z - a > DriftWindow
      BY <1>1, <3>1
    <3> QED
      BY <3>2 DEF a, z
  <2> QED
    BY <2>2
<1>12. \A i \in 1..(n + 1) : u[i] \in S <=> i \notin old
  <2> SUFFICES ASSUME NEW i \in 1..(n + 1)
               PROVE  u[i] \in S <=> i \notin old
    OBVIOUS
  <2>1. u[i] \in Int \X Int /\ u[i][1] \in Int
    BY <1>2
  <2> QED
    BY <1>1, <1>2, <2>1
<1> HIDE DEF S, old
<1>13. \E m \in 0..(n + 1) : Holds(Kept(Append(setpoint_history, new), S), u, m, old)
  <2>1. old \in SUBSET (1..(n + 1))
    BY DEF old
  <2> QED
    BY <1>1, <1>4, <1>9, <1>10, <1>11, <1>12, <2>1, HoldsOn DEF n, u
<1>14. SetpointsInv(SetpointHistory(sp), u, now)
  BY <1>2, <1>6, <1>7, <1>8, <1>13 DEF SetpointsInv, old
<1> QED
  BY <1>14 DEF c, u, new

\* Every step keeps the windows.
LEMMA WindowInductive ==
    /\ Init => WindowInv
    /\ TypeInv /\ WindowInv /\ [Next]_vars => WindowInv'
<1> USE MonitorAssumption
<1>1. ASSUME NEW t
      PROVE  CommandsInv(<<>>, <<>>, t) /\ SetpointsInv(<<>>, <<>>, t)
  <2>1. Len(<<>>) = 0 /\ 0 \in 0..0 /\ SubSeq(<<>>, 0 + 1, 0) = <<>>
    OBVIOUS
  <2> QED
    BY <2>1 DEF CommandsInv, SetpointsInv, Holds
<1>2. Init => WindowInv
  BY <1>1, WindowHalves DEF Init, NewDetector
<1>3. ASSUME TypeInv, WindowInv, [Next]_vars
      PROVE  WindowInv'
  <2> DEFINE Goal == /\ CommandsInv(command_times', past'.commands, now')
                     /\ SetpointsInv(setpoint_history', past'.setpoints, now')
  <2>1. Goal => WindowInv'
    BY DEF WindowInv, CommandsInv, SetpointsInv
  <2>2. /\ CommandsInv(command_times, past.commands, now)
        /\ SetpointsInv(setpoint_history, past.setpoints, now)
    BY <1>3, WindowHalves
  <2>3. CASE /\ UNCHANGED <<command_times, setpoint_history, now>>
             /\ past'.commands = past.commands /\ past'.setpoints = past.setpoints
    BY <2>1, <2>2, <2>3
  <2>4. CASE \E d \in Residuals, f \in TelemetryFailures : HandleTelemetry(d, f)
    <3>1. /\ UNCHANGED <<command_times, setpoint_history, now>>
          /\ past'.commands = past.commands /\ past'.setpoints = past.setpoints
      BY <1>3, <2>4, TelemetryStep
    <3> QED
      BY <2>3, <3>1
  <2>5. CASE Tick
    <3>1. now' = now + 1 /\ UNCHANGED <<command_times, setpoint_history, past>>
      BY <2>5 DEF Tick, detector, behaviour
    <3>2. now \in Int
      BY <1>3 DEF TypeInv, Time
    <3>3. /\ \A i \in 1..Len(past.commands) : past.commands[i] \in Int
          /\ \A i \in 1..Len(past.setpoints) : past.setpoints[i][1] \in Int
      BY <1>3, TimesAreNumbers
    <3>4. CommandsInv(command_times, past.commands, now + 1)
      <4>1. \A i \in 1..Len(past.commands) : past.commands[i] <= now + 1
        <5>1. \A i \in 1..Len(past.commands) : past.commands[i] <= now
          BY <2>2 DEF CommandsInv
        <5> QED
          BY <3>2, <3>3, <5>1
      <4> QED
        BY <2>2, <4>1 DEF CommandsInv
    <3>5. SetpointsInv(setpoint_history, past.setpoints, now + 1)
      <4>1. \A i \in 1..Len(past.setpoints) : past.setpoints[i][1] <= now + 1
        <5>1. \A i \in 1..Len(past.setpoints) : past.setpoints[i][1] <= now
          BY <2>2 DEF SetpointsInv
        <5> QED
          BY <3>2, <3>3, <5>1
      <4> QED
        BY <2>2, <4>1 DEF SetpointsInv
    <3> QED
      BY <2>1, <3>1, <3>4, <3>5
  <2>6. CASE DetectorRestarts
    <3>1. /\ command_times' = <<>> /\ setpoint_history' = <<>>
          /\ past'.commands = <<>> /\ past'.setpoints = <<>>
      BY <2>6 DEF DetectorRestarts, NewDetector
    <3> QED
      BY <1>1, <2>1, <3>1
  <2>7. ASSUME NEW c \in Commands, NEW f \in CommandFailures, HandleCommand(c, f)
        PROVE  WindowInv'
    <3>1. /\ command_times' = CommandTimes
          /\ past'.commands = Append(past.commands, now)
          /\ \/ /\ c.sp \in Int
                /\ setpoint_history' = SetpointHistory(c.sp)
                /\ past'.setpoints = Append(past.setpoints, <<now, c.sp>>)
             \/ UNCHANGED setpoint_history /\ past'.setpoints = past.setpoints
          /\ now' = now
      BY <1>3, <2>7, CommandStep
    <3>2. CommandsInv(command_times', past'.commands, now')
      BY <1>3, <2>2, <3>1, CommandsGoOn
    <3>3. SetpointsInv(setpoint_history', past'.setpoints, now')
      BY <1>3, <2>2, <3>1, SetpointsGoOn
    <3> QED
      BY <2>1, <3>2, <3>3
  <2>8. CASE FailTelemetry
    <3>1. /\ UNCHANGED <<command_times, setpoint_history, now>>
          /\ past'.commands = past.commands /\ past'.setpoints = past.setpoints
      BY <1>3, <2>8, FailureStep
    <3> QED
      BY <2>3, <3>1
  <2> QED
    BY <1>3, <2>3, <2>4, <2>5, <2>6, <2>7, <2>8
       DEF Next, vars, detector, behaviour, PlantPublishes, PublishForeign,
           PlantRestarts, Lose
<1> QED
  BY <1>2, <1>3

\* What is held is counted right.
LEMMA WindowExact == TypeInv /\ WindowInv => WindowsExact
<1> SUFFICES ASSUME TypeInv, WindowInv
             PROVE  WindowsExact
  OBVIOUS
<1> DEFINE c == past.commands
           s == past.setpoints
<1>1. /\ c \in Seq(Time) /\ s \in Seq(Time \X Int) /\ CommandWindow \in Nat /\ DriftWindow \in Nat
  BY MonitorAssumption DEF TypeInv, Past
<1>2. /\ DOMAIN c = 1..Len(c) /\ DOMAIN s = 1..Len(s) /\ Len(c) \in Nat /\ Len(s) \in Nat
      /\ \A i \in 1..Len(c) : c[i] \in Int
      /\ \A i \in 1..Len(s) : s[i][1] \in Int
  BY <1>1, TimesAreNumbers
<1> HIDE DEF c, s
<1>3. Len(command_times) =
      Cardinality({ i \in DOMAIN c : c[Len(c)] - c[i] <= CommandWindow })
  <2> DEFINE old == { i \in 1..Len(c) : c[Len(c)] - c[i] > CommandWindow }
  <2>1. PICK k \in 0..Len(c) : Holds(command_times, c, k, old)
    BY DEF WindowInv, c
  <2>2. Len(command_times) = Cardinality({ i \in 1..Len(c) : i \notin old })
    <3> HIDE DEF old
    <3> QED
      BY <1>1, <2>1, HoldsLength
  <2>3. { i \in 1..Len(c) : i \notin old }
        = { i \in DOMAIN c : c[Len(c)] - c[i] <= CommandWindow }
    <3>1. \A i \in 1..Len(c) : Len(c) \in 1..Len(c)
      BY <1>2
    <3> QED
      BY <1>1, <1>2, <3>1
  <2> QED
    BY <2>2, <2>3
<1>4. Len(setpoint_history) =
      Cardinality({ i \in DOMAIN s : s[Len(s)][1] - s[i][1] <= DriftWindow })
  <2> DEFINE old == { i \in 1..Len(s) : s[Len(s)][1] - s[i][1] > DriftWindow }
  <2>1. PICK k \in 0..Len(s) : Holds(setpoint_history, s, k, old)
    BY DEF WindowInv, s
  <2>2. Len(setpoint_history) = Cardinality({ i \in 1..Len(s) : i \notin old })
    <3> HIDE DEF old
    <3> QED
      BY <1>1, <2>1, HoldsLength
  <2>3. { i \in 1..Len(s) : i \notin old }
        = { i \in DOMAIN s : s[Len(s)][1] - s[i][1] <= DriftWindow }
    <3>1. \A i \in 1..Len(s) : Len(s) \in 1..Len(s)
      BY <1>2
    <3> QED
      BY <1>1, <1>2, <3>1
  <2> QED
    BY <2>2, <2>3
<1> QED
  BY <1>3, <1>4 DEF WindowsExact, c, s

-----------------------------------------------------------------------------
\* The samples that the plant has sent in all its lives
Published == (life - 1) * MaxSeq + seq

\* They are a number, and a new life does not take any back.
LEMMA PublishedType ==
    ASSUME TypeInv
    PROVE  /\ (life - 1) * MaxSeq \in Nat /\ Published \in Nat
           /\ Published <= MaxSeq * MaxLives
           /\ life' = life + 1 /\ seq' = 0 => Published' >= Published /\ Published' \in Nat
<1> DEFINE done == (life - 1) * MaxSeq
<1>1. life \in Nat /\ life >= 1 /\ life <= MaxLives /\ seq \in Nat /\ seq <= MaxSeq
      /\ MaxSeq \in Nat /\ MaxLives \in Nat
  BY MonitorAssumption DEF TypeInv
<1>2. done \in Nat
  <2>1. life - 1 \in Nat
    BY <1>1
  <2> HIDE DEF done
  <2> QED
    BY <1>1, <2>1, ProductMonotone DEF done
<1>3. life * MaxSeq = done + MaxSeq
  BY <1>1
<1>4. life * MaxSeq <= MaxLives * MaxSeq /\ MaxLives * MaxSeq = MaxSeq * MaxLives
  BY <1>1, ProductMonotone
<1>5. MaxLives * MaxSeq \in Int /\ MaxSeq * MaxLives \in Int /\ life * MaxSeq \in Int
  BY <1>1
<1>6. Published = done + seq
  BY DEF Published
<1>7. life' = life + 1 /\ seq' = 0 => Published' = life * MaxSeq
  <2> SUFFICES ASSUME life' = life + 1, seq' = 0
               PROVE  Published' = life * MaxSeq
    OBVIOUS
  <2>1. Published' = (life' - 1) * MaxSeq + seq'
    BY DEF Published
  <2>2. life' - 1 = life
    BY <1>1
  <2> QED
    BY <1>5, <2>1, <2>2
<1> HIDE DEF done
<1>8. Published \in Nat /\ Published <= life * MaxSeq /\ life * MaxSeq \in Nat
  <2> DEFINE all == life * MaxSeq
  <2>1. all = done + MaxSeq
    BY <1>3
  <2> HIDE DEF all
  <2>2. Published \in Nat /\ Published <= all /\ all \in Nat
    BY <1>1, <1>2, <1>6, <2>1
  <2> QED
    BY <2>2 DEF all
<1>9. Published <= MaxSeq * MaxLives
  <2> DEFINE all == life * MaxSeq
             top == MaxSeq * MaxLives
  <2>1. all <= top /\ all \in Int /\ top \in Int /\ Published <= all
    BY <1>4, <1>5, <1>8
  <2> HIDE DEF all, top
  <2>2. Published <= top
    BY <1>8, <2>1
  <2> QED
    BY <2>2 DEF top
<1>10. life' = life + 1 /\ seq' = 0 => Published' >= Published /\ Published' \in Nat
  <2> DEFINE all == life * MaxSeq
  <2>1. Published <= all /\ all \in Nat /\ (life' = life + 1 /\ seq' = 0 => Published' = all)
    BY <1>7, <1>8
  <2> HIDE DEF all
  <2> QED
    BY <1>8, <2>1
<1> QED
  BY <1>2, <1>8, <1>9, <1>10 DEF done

\* Every step counts a frame at most once.
LEMMA CountInductive ==
    /\ Init => CountInv
    /\ TypeInv /\ CountInv /\ [Next]_vars => CountInv'
<1>1. Init => CountInv
  <2> SUFFICES ASSUME Init
               PROVE  CountInv
    OBVIOUS
  <2>1. frozen_count = 0 /\ Len(wire) = 0 /\ life - 1 = 0 /\ seq = 0 /\ others = 0
    BY DEF Init, NewDetector
  <2>2. 0 * MaxSeq = 0
    BY MonitorAssumption
  <2> QED
    BY <2>1, <2>2 DEF CountInv
<1>2. ASSUME TypeInv, CountInv, [Next]_vars
      PROVE  CountInv'
  <2>1. /\ Published \in Nat /\ frozen_count \in Nat /\ others \in Nat
        /\ wire \in Seq(Sent) /\ Len(wire) \in Nat /\ life \in Int /\ seq \in Int
    BY <1>2, PublishedType DEF TypeInv
  <2>2. frozen_count + Len(wire) <= 2 * Published + others
    BY <1>2 DEF CountInv, Published
  <2>3. frozen_count' + Len(wire') <= 2 * Published' + others' => CountInv'
    BY DEF CountInv, Published
  <2>4. CASE UNCHANGED <<wire, seq, life, others, frozen_count>>
    BY <1>2, <2>4 DEF CountInv
  <2>5. ASSUME NEW s \in Samples, PlantPublishes(s)
        PROVE  CountInv'
    <3> DEFINE copy == Copy(s, seq')
    <3>1. /\ seq' = seq + 1 /\ UNCHANGED <<life, others, frozen_count>>
          /\ wire' = IF Subscribed THEN wire \o <<copy, copy>> ELSE <<>>
      BY <2>5 DEF PlantPublishes, detector, behaviour
    <3> HIDE DEF copy
    <3>2. Len(wire') <= Len(wire) + 2 /\ Len(wire') \in Nat
      BY <2>1, <3>1
    <3>3. Published' = Published + 1
      <4> DEFINE done == (life - 1) * MaxSeq
      <4>1. Published = done + seq /\ Published' = done + seq' /\ done \in Nat
        BY <1>2, <3>1, PublishedType DEF Published
      <4> HIDE DEF done
      <4> QED
        BY <2>1, <3>1, <4>1
    <3> QED
      BY <2>1, <2>2, <2>3, <3>1, <3>2, <3>3
  <2>6. CASE PlantRestarts
    <3>1. life' = life + 1 /\ seq' = 0 /\ UNCHANGED <<wire, others, frozen_count>>
      BY <2>6 DEF PlantRestarts, detector, behaviour
    <3>2. Published' >= Published /\ Published' \in Nat
      BY <1>2, <3>1, PublishedType
    <3> QED
      BY <2>1, <2>2, <2>3, <3>1, <3>2
  <2>7. CASE Lose \/ FailTelemetry
    <3>1. /\ wire # <<>> /\ wire' = Tail(wire)
          /\ UNCHANGED <<frozen_count, life, seq, others>>
      BY <2>7 DEF Lose, FailTelemetry, plant, detector, behaviour
    <3>2. Len(wire') = Len(wire) - 1
      BY <1>2, <3>1, HeadType
    <3>3. Published' = Published
      BY <3>1 DEF Published
    <3> QED
      BY <2>1, <2>2, <2>3, <3>1, <3>2, <3>3
  <2>8. CASE DetectorRestarts
    <3>1. frozen_count' = 0 /\ Len(wire') = 0 /\ UNCHANGED <<life, seq, others>>
      BY <2>8 DEF DetectorRestarts, NewDetector, plant
    <3>2. Published' = Published
      BY <3>1 DEF Published
    <3> QED
      BY <2>1, <2>3, <3>1, <3>2
  <2>9. ASSUME NEW d \in Residuals, NEW f \in TelemetryFailures, HandleTelemetry(d, f)
        PROVE  CountInv'
    <3>1. /\ wire # <<>> /\ wire' = Tail(wire) /\ UNCHANGED <<life, seq, others>>
          /\ \/ frozen_count' = frozen_count
             \/ \E h, p : frozen_count' = FrozenCount(h, p)
      BY <1>2, <2>9, TelemetryStep
    <3>2. Len(wire') = Len(wire) - 1
      BY <1>2, <3>1, HeadType
    <3>3. frozen_count' \in {0, frozen_count, frozen_count + 1}
      BY <3>1 DEF FrozenCount
    <3>4. Published' = Published
      BY <3>1 DEF Published
    <3> QED
      BY <2>1, <2>2, <2>3, <3>1, <3>2, <3>3, <3>4
  <2>10. ASSUME NEW c \in Commands, NEW f \in CommandFailures, HandleCommand(c, f)
         PROVE  CountInv'
    <3>1. UNCHANGED <<wire, seq, life, others, frozen_count>>
      BY <1>2, <2>10, CommandStep
    <3> QED
      BY <2>4, <3>1
  <2>11. ASSUME NEW m \in Foreign, NEW i \in 0..Len(wire), PublishForeign(m, i)
         PROVE  CountInv'
    <3>1. others' = others + 1 /\ UNCHANGED <<seq, life, frozen_count>>
      BY <2>11 DEF PublishForeign, plant, detector, behaviour
    <3>2. Len(wire') = Len(wire) + 1
      BY <1>2, <2>11, Inserted
    <3>3. Published' = Published
      BY <3>1 DEF Published
    <3> QED
      BY <2>1, <2>2, <2>3, <3>1, <3>2, <3>3
  <2> QED
    BY <1>2, <2>4, <2>5, <2>6, <2>7, <2>8, <2>9, <2>10, <2>11
       DEF Next, vars, plant, detector, behaviour, Tick
<1> QED
  BY <1>1, <1>2

\* The values of the variables are those of TypeOK.
LEMMA TypeExact == TypeInv /\ CountInv => TypeOK
<1> SUFFICES ASSUME TypeInv, CountInv
             PROVE  TypeOK
  OBVIOUS
<1>1. frozen_count \in 0..(2 * MaxSeq * MaxLives + MaxOthers)
  <2> DEFINE top == MaxSeq * MaxLives
  <2>1. 2 * MaxSeq * MaxLives = 2 * top /\ top \in Int
    BY MonitorAssumption
  <2>2. /\ frozen_count \in Nat /\ Len(wire) \in Nat /\ Published \in Nat
        /\ Published <= top
        /\ others \in Nat /\ others <= MaxOthers /\ MaxOthers \in Nat
    BY PublishedType, MonitorAssumption DEF TypeInv
  <2>3. frozen_count + Len(wire) <= 2 * Published + others
    BY DEF CountInv, Published
  <2> HIDE DEF top
  <2>4. frozen_count \in 0..(2 * top + MaxOthers)
    BY <2>1, <2>2, <2>3
  <2> QED
    BY <2>1, <2>4
<1> QED
  BY <1>1 DEF TypeInv, TypeOK

-----------------------------------------------------------------------------
\* Every variable of the detector, the plant and the alert manager has the
\* values its code can give it.  The count of repeated levels is bounded by the
\* frames that the plant and others have sent (behavioral_detector.py: it is
\* raised once for a message, and two messages carry each sample of the plant).
THEOREM TypeCorrect == Spec => []TypeOK
  BY TypeInductive, CountInductive, TypeExact, PTL DEF Spec

\* The frozen feed is reported exactly of FROZEN_SAMPLES copies in a row that
\* repeated the level before them with the pump running, whatever was lost,
\* and whichever handlers were cut short before they counted
\* (process_telemetry_behavior).  As each sample comes on two topics, and a frame
\* of others on one, the count is less than twice the samples heard and once the
\* frames of others.
THEOREM FrozenIsExact == Spec => []FrozenExact
  BY TypeInductive, RowInductive, OrderInductive, PairInductive, FrozenTells, PTL DEF Spec

\* While the last number taken in is the plant's, a copy of that process is taken
\* for a replay just if its sample was heard before, and a replayed or forged
\* frame just if its number does not go beyond what was heard, whatever was
\* lost, cut short by an exception, or came from others without a number
\* (process_telemetry_temporal, scenarios/telemetry_replay_attack.py).
THEOREM ReplaysAreHeard == Spec => []ReplayIffHeard
  BY TypeInductive, OrderInductive, OrderTells, PTL DEF Spec

\* The sliding windows of commands and of setpoints, pruned at each use, hold
\* just what the whole history has of their period, boundary included
\* (track_command_frequency, process_setpoint).
THEOREM WindowsAreExact == Spec => []WindowsExact
  BY TypeInductive, WindowInductive, WindowExact, PTL DEF Spec

\* A kind of alert is silenced only on account of an alert that was logged,
\* except after a failure of the database (alert_manager.py: the cooldown is
\* set before the alert is logged, and only then).
THEOREM SilenceEarned == Spec => []SilenceIsEarned
  BY EarnedInductive, PTL DEF Spec

\* An over-pressure that persists is alerted again: when a copy that reports it
\* outside maintenance is handled to its end, the last alert of it is less
\* than a cooldown old, or the logging of one has failed.
THEOREM PressureNotForgotten == Spec => OverPressureAlerted
<1> DEFINE Told ==
      \A d \in Residuals :
          HandleTelemetry(d, None)
          /\ Head(wire).sample.over /\ Head(wire).sample.mode # "MAINTENANCE"
          => \/ "pressure" \in lost'
             \/ /\ alerted'["pressure"] # None
                /\ now - alerted'["pressure"] < Cooldown
<1>1. ASSUME TimesInv, SilenceIsEarned
      PROVE  Told
  <2> SUFFICES ASSUME NEW d \in Residuals, HandleTelemetry(d, None),
                      Head(wire).sample.over, Head(wire).sample.mode # "MAINTENANCE",
                      "pressure" \notin lost'
               PROVE  alerted'["pressure"] # None /\ now - alerted'["pressure"] < Cooldown
    OBVIOUS
  <2>1. PICK candidates : Emit(candidates, None) /\ "pressure" \in candidates
    BY DEF HandleTelemetry, Chosen
  <2>2. "pressure" \in Keys
    BY DEF Keys, Rank
  <2>3. CASE "pressure" \in Fresh(candidates)
    <3>1. alerted'["pressure"] = now
      BY <2>1, <2>2, <2>3, NoneIsNoKey DEF Emit, Reached
    <3>2. now \in Nat /\ now # None
      BY <1>1, MonitorAssumption DEF TimesInv
    <3> QED
      BY <3>1, <3>2, MonitorAssumption
  <2>4. CASE "pressure" \notin Fresh(candidates)
    <3>1. cooldowns["pressure"] # None /\ now - cooldowns["pressure"] < Cooldown
      BY <2>1, <2>2, <2>4 DEF Fresh, Cooling
    <3>2. alerted'["pressure"] = alerted["pressure"] /\ "pressure" \notin lost
      BY <2>1, <2>2, <2>4 DEF Emit
    <3>3. alerted["pressure"] = cooldowns["pressure"]
      BY <1>1, <2>2, <3>2 DEF SilenceIsEarned
    <3> QED
      BY <3>1, <3>2, <3>3
  <2> QED
    BY <2>3, <2>4
<1> QED
  BY <1>1, TimesInductive, EarnedInductive, PTL DEF Spec, OverPressureAlerted

\* Once a copy that says MAINTENANCE has been handled without a failure, no
\* command raises a rule, oscillation or trajectory alert, until another mode
\* is heard or a handler is cut short.
THEOREM MaintenanceIsRespected == Spec => MaintenanceRespected
<1> DEFINE Quiet ==
      past.mode = "MAINTENANCE" /\ ~ past.cut => \A k \in Suppressible : ~ Raised(k)
<1>1. ASSUME ModeInv, [Next]_vars
      PROVE  [Quiet]_vars
  <2> SUFFICES ASSUME past.mode = "MAINTENANCE", ~ past.cut, NEW k \in Suppressible
               PROVE  ~ Raised(k)
    OBVIOUS
  <2>1. k \in Keys
    BY DEF Suppressible, Keys, Rank
  <2>2. CASE UNCHANGED cooldowns
    BY <2>2 DEF Raised
  <2>3. CASE \E d \in Residuals, f \in TelemetryFailures : HandleTelemetry(d, f)
    <3>1. PICK candidates, failed :
              Emit(candidates, failed) /\ candidates \subseteq {"residual", "frozen", "pressure"}
      BY <2>3 DEF HandleTelemetry, Chosen
    <3> QED
      BY <2>1, <3>1, EmitRaises DEF Suppressible
  <2>4. CASE \E c \in Commands, f \in CommandFailures : HandleCommand(c, f)
    <3>1. InMaintenance
      BY <1>1 DEF ModeInv, InMaintenance
    <3>2. PICK candidates, failed :
              Emit(candidates, failed) /\ candidates \subseteq {"drift"}
      BY <2>4, <3>1 DEF HandleCommand, Chosen
    <3> QED
      BY <2>1, <3>2, EmitRaises DEF Suppressible
  <2>5. CASE DetectorRestarts
    BY <2>1, <2>5 DEF DetectorRestarts, NewDetector, Raised
  <2> QED
    BY <1>1, <2>2, <2>3, <2>4, <2>5
       DEF Next, vars, alerts, PlantPublishes, PublishForeign, PlantRestarts, Lose, Tick,
           FailTelemetry
<1> QED
  BY <1>1, ModeInductive, PTL DEF Spec, MaintenanceRespected

\* The alert manager implements the rate limiter: a kind passes when it never
\* has, or a cooldown after it last did (emit_alert is the only code that
\* writes _cooldowns, and only a new detector forgets them).
THEOREM ManagerLimitsRate == Spec => LimitsRate
<1>1. Init => Limiter!Init
  BY DEF Init, NewDetector, Limiter!Init
<1>2. ASSUME TimesInv, [Next]_vars
      PROVE  [Limiter!Next]_<<cooldowns, now>>
  <2>1. CASE Untouched
    <3>1. now' >= now
      BY <1>2, StepKinds DEF TimesInv
    <3> QED
      BY <2>1, <3>1 DEF Untouched, alerts, Limiter!Next, Limiter!Advance
  <2>2. CASE Emits
    <3>1. PICK candidates, failed : Emit(candidates, failed)
      BY <2>2 DEF Emits
    <3> DEFINE begun == { k \in Fresh(candidates) : Reached(k, failed) }
    <3>2. cooldowns' = [k \in Keys |-> IF k \in begun THEN now ELSE cooldowns[k]]
      BY <3>1 DEF Emit
    <3>3. ASSUME NEW k \in Limiter!Passing
          PROVE  k \in begun /\ Limiter!Open(k)
      <4>1. k \in Keys /\ cooldowns'[k] # cooldowns[k]
        BY DEF Limiter!Passing
      <4>2. k \in begun
        BY <3>2, <4>1
      <4>3. ~ Cooling(k)
        BY <4>2 DEF Fresh
      <4> QED
        BY <4>1, <4>2, <4>3, <1>2, MonitorAssumption
           DEF Cooling, TimesInv, Limiter!Open
    <3>4. cooldowns' = [k \in Keys |->
                          IF k \in Limiter!Passing THEN now ELSE cooldowns[k]]
      <4>1. ASSUME NEW k \in Keys
            PROVE  cooldowns'[k] = IF k \in Limiter!Passing THEN now ELSE cooldowns[k]
        BY <3>2, <3>3 DEF Limiter!Passing
      <4> QED
        BY <3>2, <4>1
    <3> QED
      BY <2>2, <3>3, <3>4 DEF Emits, Limiter!Next, Limiter!Pass
  <2>3. CASE Renewed
    BY <2>3 DEF Renewed, Limiter!Next, Limiter!Forget
  <2> QED
    BY <1>2, <2>1, <2>2, <2>3, StepKinds
<1> QED
  BY <1>1, <1>2, TimesInductive, PTL DEF Spec, LimitsRate, Limiter!Spec
=============================================================================
