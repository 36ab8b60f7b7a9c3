----------------------- MODULE LegacyDetectorProofs -----------------------
(***************************************************************************)
(* What detector.py promises of its alerts for every set of samples and    *)
(* commands, every threshold and table of flows, every loss and restart,   *)
(* proved from LegacyAssumption, SimulationAssumption and                  *)
(* OutflowAssumption.                                                      *)
(*                                                                         *)
(* The cooldowns change by Emit or a restart only, so one lemma about Emit *)
(* serves every handler.  RowInv relates the counter of the frozen feed to *)
(* the samples taken in; OrderInv accounts for every number of the plant   *)
(* between the last one taken in and those on the wire, among which the    *)
(* samples of others may stand anywhere.  A forecast is judged by          *)
(* ForecastIsFaithful of ForwardSimulationProofs.                          *)
(***************************************************************************)
EXTENDS LegacyDetector, ForwardSimulationProofs, DataLemmas, TLAPS

\* What the alerts rest on: the clock has passed the beginning of every
\* cooldown and the last sample that was taken in, and the history knows when
\* that was.
TimesInv ==
    /\ now \in Nat
    /\ \A k \in Keys : cooldowns[k] # None => cooldowns[k] \in Nat /\ cooldowns[k] <= now
    /\ last_telemetry_time \in Nat /\ last_telemetry_time <= now
    /\ past.time = last_telemetry_time
    /\ DOMAIN past = {"samples", "life", "time", "missed"}

\* What a step does to the alerts: nothing, one handler's candidates (with the
\* clock standing still), or a new detector.
Untouched == UNCHANGED cooldowns
Emits == UNCHANGED now /\ \E candidates : Emit(candidates)
Renewed == UNCHANGED now /\ cooldowns' = [k \in Keys |-> None]

\* Every step is one of the three kinds; only the clock's moves the clock, on.
LEMMA StepKinds ==
    ASSUME [Next]_vars
    PROVE  /\ Untouched \/ Emits \/ Renewed
           /\ UNCHANGED now \/ (now' = now + 1 /\ Untouched)
<1>1. CASE \E s \in Samples : PlantPublishes(s)
  BY <1>1 DEF PlantPublishes, Untouched
<1>2. CASE PublishMalformed \/ PlantRestarts \/ Lose
           \/ \E m \in Foreign : PublishForeign(m)
  BY <1>2 DEF PublishMalformed, PublishForeign, PlantRestarts, Lose, Untouched
<1>3. CASE Tick
  BY <1>3 DEF Tick, Untouched
<1>4. CASE DetectorRestarts
  BY <1>4 DEF DetectorRestarts, NewDetector, Renewed
<1>5. CASE HandleUnparseable \/ RefuseTelemetry
  BY <1>5 DEF HandleUnparseable, RefuseTelemetry, Emits
<1>6. CASE \E d \in Deviations : HandleTelemetry(d)
  BY <1>6 DEF HandleTelemetry, Emits
<1>7. CASE \E c \in Commands : RefuseCommand(c) \/ HandleCommand(c)
  BY <1>7 DEF RefuseCommand, HandleCommand, Emits
<1>8. CASE UNCHANGED vars
  BY <1>8 DEF vars, Untouched
<1> QED
  BY <1>1, <1>2, <1>3, <1>4, <1>5, <1>6, <1>7, <1>8 DEF Next

\* _emit begins cooldowns at the present only.
LEMMA EmitTimes ==
    ASSUME NEW candidates, Emit(candidates), NEW k \in Keys, now \in Nat,
           cooldowns[k] # None => cooldowns[k] \in Nat /\ cooldowns[k] <= now
    PROVE  cooldowns'[k] # None => cooldowns'[k] \in Nat /\ cooldowns'[k] <= now
  BY DEF Emit

\* After _emit every candidate was raised less than a cooldown ago, by this
\* handler or by the one that silences it.
LEMMA EmitTells ==
    ASSUME NEW candidates, Emit(candidates), NEW k \in Keys, k \in candidates,
           now \in Nat
    PROVE  Recent(k)
<1>1. now # None
  BY SimulationAssumption
<1>2. CASE Cooling(k)
  BY <1>2 DEF Emit, Cooling, Recent
<1>3. CASE ~ Cooling(k)
  <2>1. cooldowns'[k] = now
    BY <1>3 DEF Emit
  <2> QED
    BY <1>1, <2>1, LegacyAssumption DEF Recent
<1> QED
  BY <1>2, <1>3

\* The order of the times is kept by every step; a refused message does not
\* pass for telemetry.
LEMMA TimesInductive ==
    /\ Init => TimesInv
    /\ TimesInv /\ [Next]_vars => TimesInv'
<1>1. Init => TimesInv
  BY DEF Init, NewDetector, TimesInv
<1>2. ASSUME TimesInv, [Next]_vars
      PROVE  TimesInv'
  <2>1. now' \in Nat /\ now <= now'
    BY <1>2, StepKinds DEF TimesInv
  <2>2. ASSUME NEW k \in Keys
        PROVE  cooldowns'[k] # None => cooldowns'[k] \in Nat /\ cooldowns'[k] <= now'
    <3>1. CASE Untouched
      BY <1>2, <2>1, <3>1 DEF Untouched, TimesInv
    <3>2. CASE Emits
      BY <1>2, <3>2, EmitTimes DEF Emits, TimesInv
    <3>3. CASE Renewed
      BY <3>3 DEF Renewed
    <3> QED
      BY <1>2, <3>1, <3>2, <3>3, StepKinds
  <2>3. /\ last_telemetry_time' \in Nat /\ last_telemetry_time' <= now'
        /\ past'.time = last_telemetry_time'
        /\ DOMAIN past' = {"samples", "life", "time", "missed"}
    <3>1. CASE UNCHANGED <<last_telemetry_time, past>>
      BY <1>2, <2>1, <3>1 DEF TimesInv
    <3>2. CASE Lose
      <4>1. /\ UNCHANGED last_telemetry_time
            /\ past'.time = past.time /\ DOMAIN past' = DOMAIN past
        BY <1>2, <3>2 DEF Lose, feed, TimesInv
      <4> QED
        BY <1>2, <2>1, <4>1 DEF TimesInv
    <3>3. CASE DetectorRestarts
      BY <1>2, <3>3 DEF DetectorRestarts, NewDetector, TimesInv
    <3>4. CASE \E d \in Deviations : HandleTelemetry(d)
      BY <1>2, <3>4 DEF HandleTelemetry, TimesInv
    <3> QED
      BY <1>2, <3>1, <3>2, <3>3, <3>4
         DEF Next, vars, feed, PlantPublishes, PublishMalformed, PublishForeign,
             PlantRestarts, Tick, HandleUnparseable, RefuseTelemetry, RefuseCommand, HandleCommand
  <2> QED
    BY <2>1, <2>2, <2>3 DEF TimesInv
<1> QED
  BY <1>1, <1>2

-----------------------------------------------------------------------------
\* What is on its way and what the history holds have their types too.
Sent == [sample : Samples, seq : 1..MaxSeq, ts : Time, life : 1..MaxLives]
        \cup Foreign \cup {Malformed}
Past == [samples : Seq([h : Level, pump : Pct]), life : 0..MaxLives,
         time : Time, missed : Nat]
TypeInv == TypeOK /\ wire \in Seq(Sent) /\ past \in Past

\* What takes in a message takes in a member of Sent.
LEMMA HeadType ==
    ASSUME wire \in Seq(Sent), wire # <<>>
    PROVE  /\ Tail(wire) \in Seq(Sent)
           /\ Head(wire) \in Sent
           /\ Head(wire).life \in 0..MaxLives
           /\ Head(wire).seq # None => Head(wire).seq \in 1..MaxSeq
           /\ Head(wire).seq = None => Head(wire).life = 0
           /\ Head(wire).sample = None => Head(wire).seq = None
           /\ Head(wire).sample # None =>
                 /\ Head(wire).sample \in
                       [h : Level, pump : Pct, valve : Pct, over : BOOLEAN, odd : BOOLEAN]
                 /\ Head(wire).ts \in Time
<1>1. Tail(wire) \in Seq(Sent) /\ Head(wire) \in Sent
  OBVIOUS
<1>2. Malformed.sample = None /\ Malformed.seq = None /\ Malformed.life = 0
  BY DEF Malformed
<1>3. CASE Head(wire) = Malformed
  BY <1>1, <1>2, <1>3, LegacyAssumption
<1>4. CASE Head(wire) \in Foreign
  BY <1>1, <1>4, LegacyAssumption DEF Time
<1>5. CASE Head(wire) \in [sample : Samples, seq : 1..MaxSeq, ts : Time, life : 1..MaxLives]
  BY <1>1, <1>5, LegacyAssumption, SimulationAssumption
<1> QED
  BY <1>1, <1>3, <1>4, <1>5 DEF Sent

\* _emit keeps the type of the cooldowns.
LEMMA EmitType ==
    ASSUME NEW candidates, Emit(candidates), now \in Time,
           cooldowns \in [Keys -> Time \cup {None}]
    PROVE  cooldowns' \in [Keys -> Time \cup {None}]
  BY DEF Emit

\* Every step keeps the types.
LEMMA TypeInductive ==
    /\ Init => TypeInv
    /\ TypeInv /\ [Next]_vars => TypeInv'
<1> USE LegacyAssumption, SimulationAssumption
<1>1. Init => TypeInv
  BY DEF Init, NewDetector, TypeInv, TypeOK, Past, Time, Pct
<1>2. ASSUME TypeInv, [Next]_vars
      PROVE  TypeInv'
  <2>1. ASSUME NEW s \in Samples, PlantPublishes(s)
        PROVE  TypeInv'
    <3>1. Message(s, seq') \in Sent
      BY <1>2, <2>1 DEF PlantPublishes, Message, Sent, TypeInv, TypeOK
    <3>2. wire' \in Seq(Sent)
      BY <1>2, <2>1, <3>1 DEF PlantPublishes, TypeInv
    <3> QED
      BY <1>2, <2>1, <3>2 DEF PlantPublishes, TypeInv, TypeOK, feed
  <2>2. CASE PublishMalformed
    <3>1. wire' \in Seq(Sent)
      BY <1>2, <2>2 DEF PublishMalformed, TypeInv, Sent
    <3> QED
      BY <1>2, <2>2, <3>1 DEF PublishMalformed, Other, TypeInv, TypeOK, feed, plant
  <2>13. ASSUME NEW m \in Foreign, PublishForeign(m)
         PROVE  TypeInv'
    <3>1. wire' \in Seq(Sent)
      <4>1. m \in Sent
        BY DEF Sent
      <4> QED
        BY <1>2, <2>13, <4>1 DEF PublishForeign, TypeInv
    <3> QED
      BY <1>2, <2>13, <3>1 DEF PublishForeign, Other, TypeInv, TypeOK, feed, plant
  <2>3. CASE PlantRestarts
    BY <1>2, <2>3 DEF PlantRestarts, TypeInv, TypeOK, feed
  <2>4. CASE Lose
    <3>1. wire' \in Seq(Sent)
      BY <1>2, <2>4, HeadType DEF Lose, TypeInv
    <3>2. past' \in Past
      <4> DEFINE n == IF past.life > 0 /\ Head(wire).life = past.life
                      THEN past.missed + 1 ELSE past.missed
      <4>1. past \in Past /\ n \in Nat
        BY <1>2 DEF TypeInv, Past
      <4>2. past' = [past EXCEPT !.missed = n]
        BY <2>4 DEF Lose
      <4> HIDE DEF n
      <4> QED
        BY <4>1, <4>2 DEF Past
    <3> QED
      BY <1>2, <2>4, <3>1, <3>2 DEF Lose, TypeInv, TypeOK, feed, plant
  <2>5. CASE Tick
    BY <1>2, <2>5 DEF Tick, TypeInv, TypeOK, feed, plant, Time
  <2>6. CASE DetectorRestarts
    BY <1>2, <2>6 DEF DetectorRestarts, NewDetector, TypeInv, TypeOK, Past, plant, Pct
  <2>7. CASE HandleUnparseable
    <3>1. cooldowns' \in [Keys -> Time \cup {None}]
      BY <1>2, <2>7, EmitType DEF HandleUnparseable, TypeInv, TypeOK
    <3> QED
      BY <1>2, <2>7, <3>1 DEF HandleUnparseable, Other, TypeInv, TypeOK, feed, plant
  <2>8. CASE RefuseTelemetry
    <3>1. cooldowns' \in [Keys -> Time \cup {None}]
      BY <1>2, <2>8, EmitType DEF RefuseTelemetry, TypeInv, TypeOK
    <3>2. wire' \in Seq(Sent)
      BY <1>2, <2>8, HeadType DEF RefuseTelemetry, TypeInv
    <3> QED
      BY <1>2, <2>8, <3>1, <3>2 DEF RefuseTelemetry, TypeInv, TypeOK, feed, plant
  <2>9. ASSUME NEW d \in Deviations, HandleTelemetry(d)
        PROVE  TypeInv'
    <3> DEFINE s == Head(wire).sample
               entry == [h |-> s.h, pump |-> s.pump]
               window == Append(past.samples, entry)
    <3>1. cooldowns' \in [Keys -> Time \cup {None}]
      BY <1>2, <2>9, EmitType DEF HandleTelemetry, TypeInv, TypeOK
    <3>2. /\ wire' \in Seq(Sent)
          /\ s \in [h : Level, pump : Pct, valve : Pct, over : BOOLEAN, odd : BOOLEAN]
          /\ Head(wire).seq # None => Head(wire).seq \in 1..MaxSeq
          /\ Head(wire).life \in 0..MaxLives
      BY <1>2, <2>9, HeadType DEF HandleTelemetry, TypeInv
    <3> HIDE DEF s
    <3>3. past' \in Past
      <4>1. entry \in [h : Level, pump : Pct] /\ past.samples \in Seq([h : Level, pump : Pct])
        BY <1>2, <3>2 DEF TypeInv, Past
      <4> HIDE DEF entry
      <4>2. /\ window \in Seq([h : Level, pump : Pct])
            /\ Tail(window) \in Seq([h : Level, pump : Pct])
        BY <4>1
      <4>3. past' = [samples |-> IF Len(window) > FrozenSamples + 1
                                 THEN Tail(window) ELSE window,
                     life |-> IF Head(wire).seq # None THEN Head(wire).life
                              ELSE past.life,
                     time |-> now,
                     missed |-> IF Head(wire).seq # None THEN 0 ELSE past.missed]
        BY <2>9 DEF HandleTelemetry, s, entry
      <4>4. now \in Time /\ past.life \in 0..MaxLives /\ past.missed \in Nat
        BY <1>2 DEF TypeInv, TypeOK, Past
      <4> HIDE DEF window
      <4> QED
        BY <3>2, <4>2, <4>3, <4>4 DEF Past
    <3>4. /\ state' = [h |-> s.h, pump |-> s.pump, valve |-> s.valve]
          /\ last_telemetry_time' = now /\ shadow_time' = now
          /\ last_seq' = LastSeq(Head(wire)) /\ last_h' = s.h
          /\ frozen_count' = FrozenCount(s)
          /\ UNCHANGED <<seq, life, now, setpoint_history, others>>
      BY <2>9 DEF HandleTelemetry, s, plant
    <3>5. frozen_count' \in Nat
      BY <1>2, <3>4 DEF FrozenCount, TypeInv, TypeOK
    <3>6. last_seq' \in 1..MaxSeq \cup {None}
      BY <1>2, <3>2, <3>4 DEF LastSeq, TypeInv, TypeOK
    <3> QED
      BY <1>2, <3>1, <3>2, <3>3, <3>4, <3>5, <3>6 DEF TypeInv, TypeOK
  <2>10. ASSUME NEW c \in Commands, RefuseCommand(c)
         PROVE  TypeInv'
    <3>1. cooldowns' \in [Keys -> Time \cup {None}]
      BY <1>2, <2>10, EmitType DEF RefuseCommand, TypeInv, TypeOK
    <3> QED
      BY <1>2, <2>10, <3>1 DEF RefuseCommand, Other, TypeInv, TypeOK, feed, plant
  <2>11. ASSUME NEW c \in Commands, HandleCommand(c)
         PROVE  TypeInv'
    <3>1. cooldowns' \in [Keys -> Time \cup {None}]
      BY <1>2, <2>11, EmitType DEF HandleCommand, TypeInv, TypeOK
    <3>2. setpoint_history' \in Seq(Time \X Level)
      <4>1. CASE c.action = "setpoint"
        <5>1. c.value \in Level
          BY <4>1
        <5>2. Append(setpoint_history, <<now, c.value>>) \in Seq(Time \X Level)
          BY <1>2, <5>1 DEF TypeInv, TypeOK
        <5> QED
          BY <2>11, <4>1, <5>2, KeptType DEF HandleCommand, SetpointHistory
      <4>2. CASE c.action # "setpoint"
        BY <1>2, <2>11, <4>2 DEF HandleCommand, SetpointHistory, TypeInv, TypeOK
      <4> QED
        BY <4>1, <4>2
    <3> QED
      BY <1>2, <2>11, <3>1, <3>2 DEF HandleCommand, Other, TypeInv, TypeOK, feed, plant
  <2>12. CASE UNCHANGED vars
    BY <1>2, <2>12 DEF vars, feed, plant, TypeInv, TypeOK
  <2> QED
    BY <1>2, <2>1, <2>2, <2>3, <2>4, <2>5, <2>6, <2>7, <2>8, <2>9, <2>10, <2>11,
       <2>12, <2>13 DEF Next
<1> QED
  BY <1>1, <1>2

-----------------------------------------------------------------------------
\* The last c entries of the samples w repeat the level of the one before
\* them, all with a running pump, and no earlier entry does.
Row(w, c) ==
    /\ \A i \in 1..Len(w) : i >= Len(w) - c =>
          /\ w[i].h = w[Len(w)].h
          /\ c > 0 => w[i].pump > 0
    /\ Len(w) - c >= 2 =>
          LET j == Len(w) - c
          IN  ~ (w[j].h = w[j - 1].h /\ w[j].pump > 0 /\ w[j - 1].pump > 0)

\* The counter counts the row at the end of the samples taken in, of which the
\* history keeps as many as an alert takes; the detector remembers the last.
RowInv ==
    LET w == past.samples
    IN  /\ Len(w) <= FrozenSamples + 1
        /\ Row(w, frozen_count)
        /\ IF Len(w) = 0
           THEN last_h = None /\ frozen_count = 0
           ELSE last_h = w[Len(w)].h /\ state.pump = w[Len(w)].pump
        /\ 0 < Len(w) /\ Len(w) <= FrozenSamples => frozen_count < Len(w)

\* Whatever else is on the wire, the samples of one life on it are numbered one
\* after the other; those of the life known begin after number n.
Chain(w, known, n) ==
    /\ \A i, j \in 1..Len(w) :
          i < j /\ w[i].life = w[j].life /\ w[j].life > 0 => w[i].seq < w[j].seq
    /\ \A i \in 1..Len(w) : w[i].life > 0 =>
          \/ \E k \in 1..(i - 1) : w[k].life = w[i].life /\ w[k].seq = w[i].seq - 1
          \/ /\ \A k \in 1..(i - 1) : w[k].life # w[i].life
             /\ w[i].life = known => w[i].seq = n + 1

\* The plant's number s in its life l is the last on the wire or, if none of
\* this life is there, the last accounted for.
Ends(w, known, n, l, s) ==
    /\ \A i \in 1..Len(w) : w[i].life <= l /\ (w[i].life = l => w[i].seq <= s)
    /\ \/ \E i \in 1..Len(w) : w[i].life = l /\ w[i].seq = s
       \/ /\ \A i \in 1..Len(w) : w[i].life # l
          /\ known = l => s = n

\* If its last number is of a life of the plant, the detector has accounted for
\* that life's samples up to this number and those lost since.
Accounted == last_seq + past.missed
OrderInv ==
    /\ past.life > 0 => last_seq # None
    /\ past.life <= life
    /\ Chain(wire, past.life, Accounted)
    /\ Ends(wire, past.life, Accounted, life, seq)

-----------------------------------------------------------------------------
\* A sample goes on with the row or begins a new one.
LEMMA RowGrows ==
    ASSUME NEW E, NEW w \in Seq(E), NEW c \in Nat, Row(w, c), NEW e \in E
    PROVE  LET last == w[Len(w)]
               repeats == /\ Len(w) > 0
                          /\ e.h = last.h /\ e.pump > 0 /\ last.pump > 0
           IN  Row(Append(w, e), IF repeats THEN c + 1 ELSE 0)
<1> DEFINE n == Len(w)
           last == w[n]
           repeats == n > 0 /\ e.h = last.h /\ e.pump > 0 /\ last.pump > 0
           u == Append(w, e)
<1>1. /\ n \in Nat /\ Len(u) = n + 1 /\ u[n + 1] = e
      /\ \A i \in 1..n : u[i] = w[i]
  OBVIOUS
<1>2. CASE repeats
  <2>1. ASSUME NEW i \in 1..(n + 1), i >= (n + 1) - (c + 1)
        PROVE  u[i].h = e.h /\ u[i].pump > 0
    <3>1. CASE i = n + 1
      BY <1>1, <1>2, <3>1
    <3>2. CASE i # n + 1
      <4>1. i \in 1..n /\ i >= n - c /\ u[i] = w[i]
        BY <1>1, <2>1, <3>2
      <4>2. w[i].h = last.h /\ (c > 0 => w[i].pump > 0)
        BY <4>1 DEF Row
      <4>3. c = 0 => i = n
        BY <1>1, <4>1
      <4> QED
        BY <1>2, <4>1, <4>2, <4>3
    <3> QED
      BY <3>1, <3>2
  <2>2. (n + 1) - (c + 1) >= 2 =>
           LET j == (n + 1) - (c + 1)
           IN  ~ (u[j].h = u[j - 1].h /\ u[j].pump > 0 /\ u[j - 1].pump > 0)
    <3> SUFFICES ASSUME n - c >= 2
                 PROVE  LET j == n - c
                        IN  ~ (u[j].h = u[j - 1].h /\ u[j].pump > 0 /\ u[j - 1].pump > 0)
      BY <1>1
    <3>1. n - c \in 1..n /\ (n - c) - 1 \in 1..n
      BY <1>1
    <3> QED
      BY <1>1, <3>1 DEF Row
  <2>3. Row(u, c + 1)
    <3> HIDE DEF u, n, last, repeats
    <3> QED
      BY <1>1, <2>1, <2>2 DEF Row
  <2> QED
    BY <1>2, <2>3
<1>3. CASE ~ repeats
  <2>1. ASSUME NEW i \in 1..(n + 1), i >= n + 1
        PROVE  u[i].h = e.h
    BY <1>1, <2>1
  <2>2. n + 1 >= 2 => ~ (u[n + 1].h = u[n].h /\ u[n + 1].pump > 0 /\ u[n].pump > 0)
    <3> SUFFICES ASSUME n >= 1
                 PROVE  ~ (u[n + 1].h = u[n].h /\ u[n + 1].pump > 0 /\ u[n].pump > 0)
      BY <1>1
    <3>1. u[n] = last
      BY <1>1
    <3> QED
      BY <1>1, <1>3, <3>1
  <2>3. Row(u, 0)
    <3> HIDE DEF u, n, last, repeats
    <3> QED
      BY <1>1, <2>1, <2>2 DEF Row
  <2> QED
    BY <1>3, <2>3
<1> QED
  BY <1>2, <1>3

\* The row at the end is not changed by forgetting the first entry.
LEMMA RowForgets ==
    ASSUME NEW E, NEW w \in Seq(E), NEW c \in Nat, Row(w, c), Len(w) > 1
    PROVE  Row(Tail(w), c)
<1> DEFINE n == Len(w)
           u == Tail(w)
<1>1. /\ n \in Nat /\ n > 1 /\ Len(u) = n - 1
      /\ \A i \in 1..(n - 1) : u[i] = w[i + 1] /\ i + 1 \in 1..n
  OBVIOUS
<1>2. ASSUME NEW i \in 1..(n - 1), i >= (n - 1) - c
      PROVE  u[i].h = u[n - 1].h /\ (c > 0 => u[i].pump > 0)
  <2>1. u[i] = w[i + 1] /\ u[n - 1] = w[n] /\ i + 1 \in 1..n /\ i + 1 >= n - c
    BY <1>1, <1>2
  <2> QED
    BY <2>1 DEF Row
<1>3. (n - 1) - c >= 2 =>
         LET j == (n - 1) - c
         IN  ~ (u[j].h = u[j - 1].h /\ u[j].pump > 0 /\ u[j - 1].pump > 0)
  <2> SUFFICES ASSUME (n - 1) - c >= 2
               PROVE  LET j == (n - 1) - c
                      IN  ~ (u[j].h = u[j - 1].h /\ u[j].pump > 0 /\ u[j - 1].pump > 0)
    OBVIOUS
  <2>1. /\ (n - 1) - c \in 1..(n - 1) /\ ((n - 1) - c) - 1 \in 1..(n - 1)
        /\ ((n - 1) - c) + 1 = n - c /\ (((n - 1) - c) - 1) + 1 = (n - c) - 1
        /\ n - c >= 2
    BY <1>1
  <2>2. u[(n - 1) - c] = w[n - c] /\ u[((n - 1) - c) - 1] = w[(n - c) - 1]
    BY <1>1, <2>1
  <2> QED
    BY <2>1, <2>2 DEF Row
<1> HIDE DEF u, n
<1>4. Row(u, c)
  BY <1>1, <1>2, <1>3 DEF Row
<1> QED
  BY <1>4 DEF u

\* The row is kept by every step: a refused message touches neither the
\* counter nor the samples.
LEMMA RowInductive ==
    /\ Init => RowInv
    /\ TypeInv /\ RowInv /\ [Next]_vars => RowInv'
<1> USE LegacyAssumption, SimulationAssumption
<1>1. Init => RowInv
  BY DEF Init, NewDetector, RowInv, Row
<1>2. ASSUME TypeInv, RowInv, [Next]_vars
      PROVE  RowInv'
  <2>1. CASE UNCHANGED <<past, feed>>
    BY <1>2, <2>1 DEF feed, RowInv
  <2>2. CASE Lose
    <3>1. past'.samples = past.samples /\ UNCHANGED <<frozen_count, last_h, state>>
      BY <1>2, <2>2 DEF Lose, feed, TypeInv, Past
    <3> QED
      BY <1>2, <3>1 DEF RowInv
  <2>3. CASE DetectorRestarts
    BY <2>3 DEF DetectorRestarts, NewDetector, RowInv, Row
  <2>4. ASSUME NEW d \in Deviations, HandleTelemetry(d)
        PROVE  RowInv'
    <3> DEFINE s == Head(wire).sample
               e == [h |-> s.h, pump |-> s.pump]
               E == [h : Level, pump : Pct]
               w == past.samples
               n == Len(w)
               window == Append(w, e)
               c == frozen_count
               repeats == n > 0 /\ e.h = w[n].h /\ e.pump > 0 /\ w[n].pump > 0
               count == IF repeats THEN c + 1 ELSE 0
    <3>1. s \in [h : Level, pump : Pct, valve : Pct, over : BOOLEAN, odd : BOOLEAN]
      BY <1>2, <2>4, HeadType DEF HandleTelemetry, TypeInv
    <3>2. /\ state'.pump = e.pump /\ last_h' = e.h
          /\ past'.samples = IF Len(window) > FrozenSamples + 1
                             THEN Tail(window) ELSE window
          /\ frozen_count' = FrozenCount(s)
      BY <2>4 DEF HandleTelemetry
    <3>3. e \in E /\ e.h = s.h /\ e.pump = s.pump
      BY <3>1
    <3>4. w \in Seq(E) /\ n \in Nat /\ c \in Nat /\ Row(w, c) /\ n <= FrozenSamples + 1
      BY <1>2 DEF TypeInv, TypeOK, Past, RowInv
    <3>5. frozen_count' = count
      <4>1. CASE n = 0
        BY <1>2, <3>2, <4>1 DEF RowInv, FrozenCount
      <4>2. CASE n # 0
        <5>1. last_h = w[n].h /\ state.pump = w[n].pump
          BY <1>2, <4>2 DEF RowInv
        <5>2. w[n] \in E /\ n > 0
          <6> HIDE DEF w, E
          <6> QED
            BY <3>4, <4>2
        <5>3. w[n].h \in Int
          BY <5>2 DEF Level
        <5>4. last_h # None
          BY <5>1, <5>3
        <5> QED
          BY <3>2, <3>3, <5>1, <5>2, <5>4 DEF FrozenCount
      <4> QED
        BY <4>1, <4>2
    <3>6. Row(window, count)
      BY <3>3, <3>4, RowGrows
    <3>7. /\ window \in Seq(E) /\ Len(window) = n + 1 /\ window[n + 1] = e
          /\ n > 0 => Len(Tail(window)) = n /\ Tail(window)[n] = e
      BY <3>3, <3>4
    <3>8. count \in Nat /\ (n <= FrozenSamples => count < n + 1)
      BY <1>2, <3>4 DEF RowInv
    <3> HIDE DEF s, e, E, w, n, window, c, repeats, count
    <3>9. CASE n + 1 > FrozenSamples + 1
      <4>1. n = FrozenSamples + 1 /\ n > 0 /\ past'.samples = Tail(window)
        BY <3>2, <3>4, <3>7, <3>9
      <4>2. Row(Tail(window), count)
        BY <3>6, <3>7, <3>8, <4>1, RowForgets
      <4> QED
        BY <3>2, <3>5, <3>7, <4>1, <4>2 DEF RowInv
    <3>10. CASE ~ (n + 1 > FrozenSamples + 1)
      <4>1. past'.samples = window /\ n <= FrozenSamples
        BY <3>2, <3>4, <3>7, <3>10
      <4> QED
        BY <3>2, <3>4, <3>5, <3>6, <3>7, <3>8, <4>1 DEF RowInv
    <3> QED
      BY <3>9, <3>10
  <2> QED
    BY <1>2, <2>1, <2>2, <2>3, <2>4
       DEF Next, vars, feed, PlantPublishes, PublishMalformed, PublishForeign,
           PlantRestarts, Tick, HandleUnparseable, RefuseTelemetry, RefuseCommand, HandleCommand
<1> QED
  BY <1>1, <1>2

\* Such a row is as long as an alert takes just if all that is kept is in it.
LEMMA RowExact == TypeInv /\ RowInv => FrozenExact
<1> SUFFICES ASSUME TypeInv, RowInv
             PROVE  FrozenExact
  OBVIOUS
<1> DEFINE w == past.samples
           n == Len(w)
           c == frozen_count
<1>1. /\ n \in Nat /\ n <= FrozenSamples + 1 /\ c \in Nat
      /\ FrozenSamples \in Nat /\ FrozenSamples > 0
      /\ n = 0 => c = 0
      /\ 0 < n /\ n <= FrozenSamples => c < n
      /\ DOMAIN w = 1..n
  BY LegacyAssumption DEF TypeInv, TypeOK, Past, RowInv
<1>2. /\ \A i \in 1..n : i >= n - c => w[i].h = w[n].h /\ (c > 0 => w[i].pump > 0)
      /\ n - c >= 2 => ~ (/\ w[n - c].h = w[(n - c) - 1].h
                          /\ w[n - c].pump > 0 /\ w[(n - c) - 1].pump > 0)
  BY DEF RowInv, Row
<1> HIDE DEF w, n, c
<1>3. ASSUME c >= FrozenSamples
      PROVE  n = FrozenSamples + 1 /\ \A i \in 1..n : w[i].h = w[1].h /\ w[i].pump > 0
  <2>1. n = FrozenSamples + 1 /\ c > 0 /\ \A i \in 1..n : i >= n - c
    BY <1>1, <1>3
  <2>2. \A i \in 1..n : w[i].h = w[n].h /\ w[i].pump > 0
    BY <1>2, <2>1
  <2>3. 1 \in 1..n
    BY <1>1, <2>1
  <2> QED
    BY <2>1, <2>2, <2>3
<1>4. ASSUME n = FrozenSamples + 1, \A i \in 1..n : w[i].h = w[1].h /\ w[i].pump > 0,
             ~ (c >= FrozenSamples)
      PROVE  FALSE
  <2>1. n - c >= 2 /\ n - c \in 1..n /\ (n - c) - 1 \in 1..n
    BY <1>1, <1>4
  <2> QED
    BY <1>2, <1>4, <2>1
<1> QED
  BY <1>1, <1>3, <1>4 DEF FrozenExact, w, n, c

-----------------------------------------------------------------------------
\* Numbered says that the entries of w are messages; the lemmas about their
\* order need no more of them.
Numbered(w) ==
    /\ Len(w) \in Nat
    /\ \A i \in 1..Len(w) : w[i].life \in Nat /\ (w[i].life > 0 => w[i].seq \in Nat)

\* The first message of the life known has the next number.
LEMMA HeadIsNext ==
    ASSUME NEW w, NEW known, NEW n, Numbered(w), Len(w) > 0, Chain(w, known, n),
           w[1].life > 0, w[1].life = known
    PROVE  w[1].seq = n + 1
<1>1. 1 \in 1..Len(w) /\ ~ \E k \in 1..(1 - 1) : TRUE
  BY DEF Numbered
<1> QED
  BY <1>1 DEF Chain

\* Taking the head off the wire keeps the order: it is accounted for, or is
\* not of the life known.
LEMMA OrderForgets ==
    ASSUME NEW E, NEW w \in Seq(E), NEW known, NEW n, NEW l \in Nat, NEW s \in Nat,
           Numbered(w), Len(w) > 0,
           Chain(w, known, n), Ends(w, known, n, l, s),
           l > 0, NEW known1, NEW n1,
           \/ known1 = w[1].life /\ n1 = w[1].seq
           \/ known1 = known /\ n1 = n /\ (w[1].life # known \/ w[1].life = 0)
    PROVE  Chain(Tail(w), known1, n1) /\ Ends(Tail(w), known1, n1, l, s)
<1> DEFINE m == Len(w)
           u == Tail(w)
<1>1. /\ m \in Nat /\ m > 0 /\ Len(u) = m - 1 /\ 1 \in 1..m
      /\ \A i \in 1..(m - 1) : u[i] = w[i + 1] /\ i + 1 \in 1..m
      /\ \A i \in 1..m : i # 1 => i - 1 \in 1..(m - 1) /\ u[i - 1] = w[i]
  OBVIOUS
<1>2. \A i \in 1..m : w[i].life \in Nat /\ (w[i].life > 0 => w[i].seq \in Nat)
  BY DEF Numbered
<1>3. \A i, j \in 1..m :
          i < j /\ w[i].life = w[j].life /\ w[j].life > 0 => w[i].seq < w[j].seq
  BY DEF Chain
<1>4. \A i \in 1..m : w[i].life > 0 =>
          \/ \E k \in 1..(i - 1) : w[k].life = w[i].life /\ w[k].seq = w[i].seq - 1
          \/ /\ \A k \in 1..(i - 1) : w[k].life # w[i].life
             /\ w[i].life = known => w[i].seq = n + 1
  BY DEF Chain
<1>5. /\ \A i \in 1..m : w[i].life <= l /\ (w[i].life = l => w[i].seq <= s)
      /\ \/ \E i \in 1..m : w[i].life = l /\ w[i].seq = s
         \/ /\ \A i \in 1..m : w[i].life # l
            /\ known = l => s = n
  BY DEF Ends
<1> HIDE DEF m, u
<1>6. ASSUME NEW i \in 1..(m - 1), NEW j \in 1..(m - 1),
             i < j, u[i].life = u[j].life, u[j].life > 0
      PROVE  u[i].seq < u[j].seq
  <2>1. i + 1 \in 1..m /\ j + 1 \in 1..m /\ i + 1 < j + 1
        /\ u[i] = w[i + 1] /\ u[j] = w[j + 1]
    BY <1>1, <1>6
  <2> QED
    BY <1>3, <1>6, <2>1
<1>7. ASSUME NEW i \in 1..(m - 1), u[i].life > 0
      PROVE  \/ \E k \in 1..(i - 1) : u[k].life = u[i].life /\ u[k].seq = u[i].seq - 1
             \/ /\ \A k \in 1..(i - 1) : u[k].life # u[i].life
                /\ u[i].life = known1 => u[i].seq = n1 + 1
  <2>1. i + 1 \in 1..m /\ u[i] = w[i + 1] /\ i \in Nat /\ (i + 1) - 1 = i
    BY <1>1
  <2>2. \A k \in 1..(i - 1) : k \in 1..(m - 1) /\ k + 1 \in 1..i /\ u[k] = w[k + 1]
    BY <1>1, <2>1
  <2>3. CASE \E k \in 1..i : w[k].life = u[i].life /\ w[k].seq = u[i].seq - 1
    <3>1. PICK k \in 1..i : w[k].life = u[i].life /\ w[k].seq = u[i].seq - 1
      BY <2>3
    <3>2. CASE k # 1
      <4>1. k - 1 \in 1..(i - 1) /\ k \in 1..m
        BY <1>1, <3>2
      <4>2. u[k - 1] = w[k]
        BY <1>1, <3>2, <4>1
      <4> QED
        BY <3>1, <4>1, <4>2
    <3>3. CASE k = 1
      <4>1. ASSUME NEW h \in 1..(i - 1)
            PROVE  u[h].life # u[i].life
        <5> SUFFICES ASSUME u[h].life = u[i].life
                     PROVE  FALSE
          OBVIOUS
        <5>1. h + 1 \in 1..m /\ 1 < h + 1 /\ h + 1 < i + 1 /\ u[h] = w[h + 1]
          BY <1>1, <2>1, <2>2
        <5>2. w[1].seq < w[h + 1].seq
          BY <1>1, <1>3, <1>7, <3>1, <3>3, <5>1
        <5>3. w[h + 1].seq < w[i + 1].seq
          BY <1>3, <1>7, <2>1, <5>1
        <5>4. w[1].seq \in Nat /\ w[h + 1].seq \in Nat /\ w[i + 1].seq \in Nat
          <6>1. w[1].life > 0 /\ w[h + 1].life > 0 /\ w[i + 1].life > 0
            BY <1>7, <2>1, <3>1, <3>3, <5>1
          <6> QED
            BY <1>1, <1>2, <2>1, <5>1, <6>1
        <5> QED
          BY <2>1, <3>1, <3>3, <5>2, <5>3, <5>4
      <4>2. u[i].life = known1 => u[i].seq = n1 + 1
        <5>1. w[1].life = u[i].life /\ w[1].seq = u[i].seq - 1
          BY <3>1, <3>3
        <5>2. w[1].seq \in Nat /\ u[i].seq \in Nat
          BY <1>1, <1>2, <1>7, <2>1, <5>1
        <5> QED
          BY <1>7, <5>1, <5>2
      <4> QED
        BY <4>1, <4>2
    <3> QED
      BY <3>2, <3>3
  <2>4. CASE ~ \E k \in 1..i : w[k].life = u[i].life /\ w[k].seq = u[i].seq - 1
    <3>1. /\ \A k \in 1..i : w[k].life # u[i].life
          /\ u[i].life = known => u[i].seq = n + 1
      BY <1>4, <1>7, <2>1, <2>4
    <3>2. w[1].life # u[i].life
      BY <2>1, <3>1
    <3> QED
      BY <2>2, <3>1, <3>2
  <2> QED
    BY <2>3, <2>4
<1>8. ASSUME NEW i \in 1..(m - 1)
      PROVE  u[i].life <= l /\ (u[i].life = l => u[i].seq <= s)
  BY <1>1, <1>5
<1>9. \/ \E i \in 1..(m - 1) : u[i].life = l /\ u[i].seq = s
      \/ /\ \A i \in 1..(m - 1) : u[i].life # l
         /\ known1 = l => s = n1
  <2>1. CASE \E i \in 1..m : w[i].life = l /\ w[i].seq = s
    <3>1. PICK i \in 1..m : w[i].life = l /\ w[i].seq = s
      BY <2>1
    <3>2. CASE i # 1
      <4>1. i - 1 \in 1..(m - 1) /\ u[i - 1] = w[i]
        BY <1>1, <3>2
      <4> QED
        BY <3>1, <4>1
    <3>3. CASE i = 1
      <4>1. ASSUME NEW j \in 1..(m - 1), u[j].life = l
            PROVE  FALSE
        <5>1. j + 1 \in 1..m /\ 1 < j + 1 /\ u[j] = w[j + 1]
          BY <1>1
        <5>2. w[1].seq < w[j + 1].seq
          BY <1>1, <1>3, <3>1, <3>3, <4>1, <5>1
        <5>3. w[j + 1].seq <= s /\ w[j + 1].seq \in Nat
          BY <1>2, <1>5, <4>1, <5>1
        <5> QED
          BY <3>1, <3>3, <5>2, <5>3
      <4> QED
        BY <3>1, <3>3, <4>1
    <3> QED
      BY <3>2, <3>3
  <2>2. CASE ~ \E i \in 1..m : w[i].life = l /\ w[i].seq = s
    <3>1. /\ \A i \in 1..m : w[i].life # l
          /\ known = l => s = n
      BY <1>5, <2>2
    <3> QED
      BY <1>1, <3>1
  <2> QED
    BY <2>1, <2>2
<1>10. Chain(u, known1, n1)
  BY <1>1, <1>6, <1>7 DEF Chain
<1>11. Ends(u, known1, n1, l, s)
  BY <1>1, <1>8, <1>9 DEF Ends
<1> QED
  BY <1>10, <1>11 DEF u

\* A message that is appended keeps the order: the plant's next one or one of
\* nobody's life.
LEMMA OrderGrows ==
    ASSUME NEW E, NEW w \in Seq(E), NEW known, NEW n, NEW l \in Nat, NEW s \in Nat,
           Numbered(w), Chain(w, known, n), Ends(w, known, n, l, s), l > 0,
           NEW e \in E, NEW s1 \in Nat,
           \/ e.life = l /\ e.seq = s + 1 /\ s1 = s + 1
           \/ e.life = 0 /\ s1 = s
    PROVE  Chain(Append(w, e), known, n) /\ Ends(Append(w, e), known, n, l, s1)
<1> DEFINE m == Len(w)
           u == Append(w, e)
<1>1. /\ m \in Nat /\ Len(u) = m + 1 /\ u[m + 1] = e
      /\ \A i \in 1..m : u[i] = w[i] /\ i \in 1..(m + 1)
  OBVIOUS
<1>2. \A i \in 1..m : w[i].life \in Nat /\ (w[i].life > 0 => w[i].seq \in Nat)
  BY DEF Numbered
<1>3. \A i, j \in 1..m :
          i < j /\ w[i].life = w[j].life /\ w[j].life > 0 => w[i].seq < w[j].seq
  BY DEF Chain
<1>4. \A i \in 1..m : w[i].life > 0 =>
          \/ \E k \in 1..(i - 1) : w[k].life = w[i].life /\ w[k].seq = w[i].seq - 1
          \/ /\ \A k \in 1..(i - 1) : w[k].life # w[i].life
             /\ w[i].life = known => w[i].seq = n + 1
  BY DEF Chain
<1>5. /\ \A i \in 1..m : w[i].life <= l /\ (w[i].life = l => w[i].seq <= s)
      /\ \/ \E i \in 1..m : w[i].life = l /\ w[i].seq = s
         \/ /\ \A i \in 1..m : w[i].life # l
            /\ known = l => s = n
  BY DEF Ends
<1> HIDE DEF m, u
<1>6. ASSUME NEW i \in 1..(m + 1), NEW j \in 1..(m + 1),
             i < j, u[i].life = u[j].life, u[j].life > 0
      PROVE  u[i].seq < u[j].seq
  <2>1. i \in 1..m /\ u[i] = w[i]
    BY <1>1, <1>6
  <2>2. CASE j = m + 1
    <3>1. w[i].life = l /\ u[j].seq = s + 1
      BY <1>1, <1>6, <2>1, <2>2
    <3> QED
      BY <1>2, <1>5, <2>1, <3>1
  <2>3. CASE j # m + 1
    BY <1>1, <1>3, <1>6, <2>1, <2>3
  <2> QED
    BY <2>2, <2>3
<1>7. ASSUME NEW i \in 1..(m + 1), u[i].life > 0
      PROVE  \/ \E k \in 1..(i - 1) : u[k].life = u[i].life /\ u[k].seq = u[i].seq - 1
             \/ /\ \A k \in 1..(i - 1) : u[k].life # u[i].life
                /\ u[i].life = known => u[i].seq = n + 1
  <2>1. \A k \in 1..(i - 1) : k \in 1..m /\ u[k] = w[k]
    BY <1>1
  <2>2. CASE i = m + 1
    <3>1. u[i] = e /\ e.life = l /\ e.seq = s + 1 /\ (m + 1) - 1 = m
      BY <1>1, <1>7, <2>2
    <3> QED
      BY <1>5, <2>1, <2>2, <3>1
  <2>3. CASE i # m + 1
    <3>1. i \in 1..m /\ u[i] = w[i]
      BY <1>1, <2>3
    <3> QED
      BY <1>4, <1>7, <2>1, <3>1
  <2> QED
    BY <2>2, <2>3
<1>8. ASSUME NEW i \in 1..(m + 1)
      PROVE  u[i].life <= l /\ (u[i].life = l => u[i].seq <= s1)
  <2>1. CASE i = m + 1
    BY <1>1, <2>1
  <2>2. CASE i # m + 1
    <3>1. i \in 1..m /\ u[i] = w[i]
      BY <1>1, <2>2
    <3> QED
      BY <1>2, <1>5, <3>1
  <2> QED
    BY <2>1, <2>2
<1>9. \/ \E i \in 1..(m + 1) : u[i].life = l /\ u[i].seq = s1
      \/ /\ \A i \in 1..(m + 1) : u[i].life # l
         /\ known = l => s1 = n
  <2>1. CASE e.life = l
    BY <1>1, <2>1
  <2>2. CASE e.life = 0 /\ s1 = s
    <3>1. CASE \E i \in 1..m : w[i].life = l /\ w[i].seq = s
      BY <1>1, <2>2, <3>1
    <3>2. CASE ~ \E i \in 1..m : w[i].life = l /\ w[i].seq = s
      <4>1. \A i \in 1..(m + 1) : u[i].life # l
        BY <1>1, <1>5, <2>2, <3>2
      <4> QED
        BY <1>5, <2>2, <3>2, <4>1
    <3> QED
      BY <3>1, <3>2
  <2> QED
    BY <2>1, <2>2
<1>10. Chain(u, known, n)
  BY <1>1, <1>6, <1>7 DEF Chain
<1>11. Ends(u, known, n, l, s1)
  BY <1>1, <1>8, <1>9 DEF Ends
<1> QED
  BY <1>10, <1>11 DEF u

\* What is on the wire is numbered.
LEMMA WireNumbered ==
    ASSUME TypeInv
    PROVE  /\ Numbered(wire)
           /\ wire # <<>> => Len(wire) > 0 /\ Head(wire) = wire[1]
<1>1. \A m \in Sent : m.life \in Nat /\ (m.life > 0 => m.seq \in Nat)
  <2>1. \A m \in Foreign : m.life = 0
    BY LegacyAssumption
  <2> QED
    BY <2>1, LegacyAssumption DEF Sent, Malformed
<1>2. wire \in Seq(Sent)
  BY DEF TypeInv
<1> QED
  BY <1>1, <1>2 DEF Numbered

\* A new life has nothing on the wire yet, and nothing to be accounted for.
LEMMA OrderRenews ==
    ASSUME NEW w, NEW known, NEW n, NEW l \in Nat, NEW s,
           Numbered(w), Ends(w, known, n, l, s),
           known # l + 1
    PROVE  Ends(w, known, n, l + 1, 0)
<1>1. ASSUME NEW i \in 1..Len(w)
      PROVE  w[i].life <= l + 1 /\ w[i].life # l + 1
  BY DEF Ends, Numbered
<1> QED
  BY <1>1 DEF Ends

\* Every step keeps the order of the numbers.
LEMMA OrderInductive ==
    /\ Init => OrderInv
    /\ TypeInv /\ OrderInv /\ [Next]_vars => OrderInv'
<1> USE LegacyAssumption, SimulationAssumption
<1>1. Init => OrderInv
  BY DEF Init, NewDetector, OrderInv, Chain, Ends
<1>2. ASSUME TypeInv, OrderInv, [Next]_vars
      PROVE  OrderInv'
  <2>1. /\ wire \in Seq(Sent) /\ past \in Past
        /\ seq \in Nat /\ life \in Nat /\ life > 0
        /\ last_seq \in Nat \cup {None}
    BY <1>2 DEF TypeInv, TypeOK
  <2>2. /\ Chain(wire, past.life, Accounted)
        /\ Ends(wire, past.life, Accounted, life, seq)
        /\ past.life > 0 => last_seq # None
        /\ past.life <= life
    BY <1>2 DEF OrderInv
  <2>3. /\ Numbered(wire)
        /\ wire # <<>> => Len(wire) > 0 /\ Head(wire) = wire[1]
    BY <1>2, WireNumbered
  <2>4. past.missed \in Nat /\ past.life \in Nat
    BY <2>1 DEF Past
  <2>5. ASSUME NEW s \in Samples, PlantPublishes(s)
        PROVE  OrderInv'
    <3> DEFINE m == Message(s, seq')
    <3>1. /\ wire' = Append(wire, m) /\ seq' = seq + 1
          /\ UNCHANGED <<life, last_seq, past>>
      BY <2>5 DEF PlantPublishes, feed
    <3>2. m \in {m} \cup Sent /\ m.life = life /\ m.seq = seq + 1
      BY <3>1 DEF Message
    <3>3. wire \in Seq({m} \cup Sent)
      BY <2>1
    <3>4. Accounted' = Accounted
      BY <3>1 DEF Accounted
    <3> HIDE DEF m
    <3>5. /\ Chain(wire', past.life, Accounted)
          /\ Ends(wire', past.life, Accounted, life, seq + 1)
      BY <2>1, <2>2, <2>3, <3>1, <3>2, <3>3, OrderGrows
    <3> QED
      BY <2>2, <3>1, <3>4, <3>5 DEF OrderInv
  <2>6. ASSUME NEW m \in Sent, m.life = 0, wire' = Append(wire, m),
               UNCHANGED <<seq, life, last_seq, past>>
        PROVE  OrderInv'
    <3>1. /\ wire' = Append(wire, m)
          /\ UNCHANGED <<seq, life, last_seq, past>>
      BY <2>6
    <3>2. m \in Sent /\ m.life = 0
      BY <2>6
    <3>3. Accounted' = Accounted
      BY <3>1 DEF Accounted
    <3>4. /\ Chain(wire', past.life, Accounted)
          /\ Ends(wire', past.life, Accounted, life, seq)
      BY <2>1, <2>2, <2>3, <3>1, <3>2, OrderGrows
    <3> QED
      BY <2>2, <3>1, <3>3, <3>4 DEF OrderInv
  <2>13. CASE PublishMalformed
    <3>1. Malformed \in Sent /\ Malformed.life = 0
      BY DEF Sent, Malformed
    <3> QED
      BY <2>6, <2>13, <3>1 DEF PublishMalformed, plant, feed
  <2>14. ASSUME NEW m \in Foreign, PublishForeign(m)
         PROVE  OrderInv'
    <3>1. m \in Sent /\ m.life = 0
      BY DEF Sent
    <3> QED
      BY <2>6, <2>14, <3>1 DEF PublishForeign, plant, feed
  <2>7. CASE PlantRestarts
    <3>1. /\ life' = life + 1 /\ seq' = 0
          /\ UNCHANGED <<wire, last_seq, past>>
      BY <2>7 DEF PlantRestarts, feed
    <3>2. past.life # life + 1
      BY <2>1, <2>2, <2>4
    <3>3. Ends(wire, past.life, Accounted, life + 1, 0)
      BY <2>1, <2>2, <2>3, <3>2, OrderRenews
    <3>4. Accounted' = Accounted
      BY <3>1 DEF Accounted
    <3>5. past.life <= life + 1
      BY <2>1, <2>2, <2>4
    <3> QED
      BY <2>2, <3>1, <3>3, <3>4, <3>5 DEF OrderInv
  <2>8. CASE Lose
    <3>1. /\ wire # <<>> /\ wire' = Tail(wire)
          /\ UNCHANGED <<seq, life, last_seq>>
          /\ past' = [past EXCEPT !.missed =
                        IF past.life > 0 /\ Head(wire).life = past.life
                        THEN @ + 1 ELSE @]
      BY <2>8 DEF Lose, plant, feed
    <3>2. /\ past'.life = past.life /\ last_seq' = last_seq
          /\ past'.missed = IF past.life > 0 /\ wire[1].life = past.life
                            THEN past.missed + 1 ELSE past.missed
      BY <2>1, <2>3, <3>1 DEF Past
    <3>3. CASE past.life > 0 /\ wire[1].life = past.life
      <4>1. last_seq \in Nat /\ last_seq # None /\ wire[1].life > 0
        BY <2>1, <2>2, <2>4, <3>3
      <4>2. wire[1].seq = Accounted + 1
        BY <2>2, <2>3, <3>1, <3>3, <4>1, HeadIsNext
      <4>3. Accounted' = wire[1].seq
        BY <2>4, <3>2, <3>3, <4>1, <4>2 DEF Accounted
      <4>4. /\ Chain(wire', past.life, wire[1].seq)
            /\ Ends(wire', past.life, wire[1].seq, life, seq)
        BY <2>1, <2>2, <2>3, <3>1, <3>3, OrderForgets
      <4> QED
        BY <2>2, <3>1, <3>2, <4>3, <4>4 DEF OrderInv
    <3>4. CASE ~ (past.life > 0 /\ wire[1].life = past.life)
      <4>1. Accounted' = Accounted
        BY <3>2, <3>4 DEF Accounted
      <4>2. wire[1].life # past.life \/ wire[1].life = 0
        BY <2>4, <3>4
      <4>3. /\ Chain(wire', past.life, Accounted)
            /\ Ends(wire', past.life, Accounted, life, seq)
        BY <2>1, <2>2, <2>3, <3>1, <4>2, OrderForgets
      <4> QED
        BY <2>2, <3>1, <3>2, <4>1, <4>3 DEF OrderInv
    <3> QED
      BY <3>3, <3>4
  <2>9. CASE DetectorRestarts
    <3>1. /\ wire' = <<>> /\ past'.life = 0
          /\ UNCHANGED <<seq, life>>
      BY <2>9 DEF DetectorRestarts, NewDetector, plant
    <3>2. 0 # life
      BY <2>1
    <3>3. Chain(<<>>, 0, Accounted') /\ Ends(<<>>, 0, Accounted', life, seq)
      BY <3>2 DEF Chain, Ends
    <3> QED
      BY <2>1, <3>1, <3>3 DEF OrderInv
  <2>10. CASE RefuseTelemetry
    <3>1. /\ wire # <<>> /\ wire' = Tail(wire) /\ Head(wire).sample = None
          /\ UNCHANGED <<seq, life, last_seq, past>>
      BY <2>10 DEF RefuseTelemetry, plant, feed
    <3>2. wire[1].life = 0
      BY <2>1, <2>3, <3>1, HeadType
    <3>3. wire[1].life # past.life \/ wire[1].life = 0
      BY <3>2
    <3>4. Accounted' = Accounted
      BY <3>1 DEF Accounted
    <3>5. /\ Chain(wire', past.life, Accounted)
          /\ Ends(wire', past.life, Accounted, life, seq)
      BY <2>1, <2>2, <2>3, <3>1, <3>3, OrderForgets
    <3> QED
      BY <2>2, <3>1, <3>4, <3>5 DEF OrderInv
  <2>11. ASSUME NEW d \in Deviations, HandleTelemetry(d)
         PROVE  OrderInv'
    <3>1. /\ wire # <<>> /\ wire' = Tail(wire)
          /\ last_seq' = LastSeq(Head(wire))
          /\ past'.life = IF Head(wire).seq # None THEN Head(wire).life ELSE past.life
          /\ past'.missed = IF Head(wire).seq # None THEN 0 ELSE past.missed
          /\ UNCHANGED <<seq, life>>
      BY <2>11 DEF HandleTelemetry, plant
    <3>2. /\ wire[1].seq # None => wire[1].seq \in Nat
          /\ wire[1].seq = None => wire[1].life = 0
          /\ wire[1] = Head(wire) /\ wire[1].life \in Nat
      BY <2>1, <2>3, <3>1, HeadType
    <3>3. CASE wire[1].seq # None
      <4>1. /\ last_seq' = wire[1].seq /\ past'.life = wire[1].life
            /\ past'.missed = 0 /\ last_seq' \in Nat
        BY <3>1, <3>2, <3>3 DEF LastSeq
      <4>2. Accounted' = wire[1].seq /\ last_seq' # None
        BY <4>1 DEF Accounted
      <4>3. /\ Chain(wire', wire[1].life, wire[1].seq)
            /\ Ends(wire', wire[1].life, wire[1].seq, life, seq)
        BY <2>1, <2>2, <2>3, <3>1, OrderForgets
      <4>4. wire[1].life <= life
        BY <2>2, <2>3, <3>1 DEF Ends, Numbered
      <4> QED
        BY <3>1, <4>1, <4>2, <4>3, <4>4 DEF OrderInv
    <3>4. CASE wire[1].seq = None
      <4>1. UNCHANGED last_seq /\ past'.life = past.life /\ past'.missed = past.missed
        BY <3>1, <3>2, <3>4 DEF LastSeq
      <4>2. Accounted' = Accounted
        BY <4>1 DEF Accounted
      <4>3. wire[1].life # past.life \/ wire[1].life = 0
        BY <3>2, <3>4
      <4>4. /\ Chain(wire', past.life, Accounted)
            /\ Ends(wire', past.life, Accounted, life, seq)
        BY <2>1, <2>2, <2>3, <3>1, <4>3, OrderForgets
      <4> QED
        BY <2>2, <3>1, <4>1, <4>2, <4>4 DEF OrderInv
    <3> QED
      BY <3>3, <3>4
  <2>12. CASE UNCHANGED <<wire, plant, last_seq, past>>
    BY <1>2, <2>12 DEF plant, OrderInv, Accounted
  <2> QED
    BY <1>2, <2>5, <2>7, <2>8, <2>9, <2>10, <2>11, <2>12, <2>13,
       <2>14 DEF Next, vars, feed, Tick, HandleUnparseable, RefuseCommand, HandleCommand
<1> QED
  BY <1>1, <1>2

\* So the head's number tells what was lost before it.
LEMMA OrderTells == TypeInv /\ OrderInv => SequenceVerdictsExact
<1> SUFFICES ASSUME TypeInv, OrderInv, wire # <<>>, Head(wire).life > 0,
                    Head(wire).life = past.life
             PROVE  /\ ~ Replayed(Head(wire))
                    /\ Gap(Head(wire)) <=> past.missed >= GapMax
  BY DEF SequenceVerdictsExact
<1> DEFINE m == Head(wire)
<1>1. /\ wire \in Seq(Sent) /\ past.missed \in Nat /\ last_seq \in Nat \cup {None}
  BY LegacyAssumption DEF TypeInv, TypeOK, Past
<1>2. m = wire[1] /\ Len(wire) > 0 /\ Numbered(wire)
  BY WireNumbered
<1>3. m.seq # None
  <2>1. m.seq = None => m.life = 0
    BY <1>1, HeadType
  <2> QED
    BY <2>1
<1>4. m.life > 0 /\ past.life > 0
  OBVIOUS
<1>5. last_seq # None /\ last_seq \in Nat
  BY <1>1, <1>4 DEF OrderInv
<1>6. m.seq = last_seq + past.missed + 1
  <2>1. m.seq = Accounted + 1
    BY <1>2, <1>4, HeadIsNext DEF OrderInv
  <2> QED
    BY <1>1, <1>5, <2>1 DEF Accounted
<1> HIDE DEF m
<1>7. /\ ~ (m.seq <= last_seq)
      /\ (m.seq - last_seq > GapMax) <=> past.missed >= GapMax
  BY <1>1, <1>5, <1>6, LegacyAssumption
<1> QED
  BY <1>3, <1>5, <1>7 DEF m, Comparable, Replayed, Gap

-----------------------------------------------------------------------------
\* Every variable keeps to the values its code can give it.
THEOREM TypeCorrect == Spec => []TypeOK
<1>1. TypeInv => TypeOK
  BY DEF TypeInv
<1> QED
  BY <1>1, TypeInductive, PTL DEF Spec

\* The frozen feed's counter means what its alert says (process_telemetry):
\* it reaches FROZEN_SAMPLES exactly when that many samples in a row repeated
\* the level before them with the pump running.
THEOREM FrozenIsExact == Spec => []FrozenExact
  BY TypeInductive, RowInductive, RowExact, PTL DEF Spec

\* Between two samples of one plant process a gap alert means that so many were
\* lost, and there is no replay alert (process_telemetry's sequence check),
\* whatever is lost, refused, unnumbered or restarted; a replay alert tells of
\* a restart of the plant or of a number of somebody else.
THEOREM SequenceVerdictsAreExact == Spec => []SequenceVerdictsExact
  BY TypeInductive, OrderInductive, OrderTells, PTL DEF Spec

\* What a command's forecast is made of
LEMMA ForecastType ==
    ASSUME TypeOK, NEW c \in Commands, c.action \in {"pump", "valve"}
    PROVE  PumpUnder(c) \in Pct /\ ValveUnder(c) \in Pct /\ state.h \in Level
<1>1. c.value \in Pct
  BY LegacyAssumption
<1> QED
  BY <1>1 DEF PumpUnder, ValveUnder, TypeOK

\* The forecast a command is judged by misses no crossing of a safety limit
\* (process_command calls forward_simulate, which leaves its loop early).
THEOREM ForecastIsExact == Spec => ForecastExact
<1> DEFINE Exact ==
      \A c \in Commands :
          c.action \in {"pump", "valve"} /\ HandleCommand(c)
          => Faithful(PumpUnder(c), ValveUnder(c), state.h)
<1>1. ASSUME TypeInv
      PROVE  Exact
  BY <1>1, ForecastType, ForecastIsFaithful DEF TypeInv
<1> QED
  BY <1>1, TypeInductive, PTL DEF Spec, ForecastExact

\* A command that would take the level to MAX_SAFE_HEIGHT within the horizon
\* is told of by the rule or by the model, although each of them is left out or
\* suppressed at times.
THEOREM OverfillIsTold == Spec => OverfillNotSilent
<1> DEFINE Told ==
      \A c \in Commands :
          HandleCommand(c) /\ Threatens(c) => Recent("rule-a") \/ Recent("model-overfill")
<1>1. ASSUME TypeInv, TimesInv
      PROVE  Told
  <2> SUFFICES ASSUME NEW c \in Commands, Threatens(c), HandleCommand(c)
               PROVE  Recent("rule-a") \/ Recent("model-overfill")
    OBVIOUS
  <2> DEFINE level == Trajectory(PumpUnder(c), ValveUnder(c), state.h)
             forecast == ForwardSimulate(PumpUnder(c), ValveUnder(c), state.h)
  <2>1. c.action \in {"pump", "valve"} /\ \E i \in 1..Steps : level[i] >= MaxSafe
    BY DEF Threatens
  <2>2. Faithful(PumpUnder(c), ValveUnder(c), state.h)
    BY <1>1, <2>1, ForecastType, ForecastIsFaithful DEF TypeInv
  <2>3. forecast.overfill # None
    BY <2>1, <2>2 DEF Faithful, IsFirst
  <2>4. Emit(CommandCandidates(c))
    BY DEF HandleCommand
  <2>5. "rule-a" \in CommandCandidates(c) \/ "model-overfill" \in CommandCandidates(c)
    BY <2>1, <2>3 DEF CommandCandidates, Chosen, ForecastOf
  <2>6. "rule-a" \in Keys /\ "model-overfill" \in Keys /\ now \in Nat
    BY <1>1 DEF Keys, TimesInv
  <2> QED
    BY <2>4, <2>5, <2>6, EmitTells
<1> QED
  BY <1>1, TypeInductive, TimesInductive, PTL DEF Spec, OverfillNotSilent

\* A command judged without telemetry for longer than TELEMETRY_STALE_AFTER has
\* a recent alert that says so (process_command's first check), and no refused
\* message hides it.
THEOREM StaleIsAlerted == Spec => StaleContextAlerted
<1> DEFINE Told == now - past.time > StaleAfter /\ (\E c \in Commands : HandleCommand(c))
                   => Recent("stale")
<1>1. ASSUME TimesInv
      PROVE  Told
  <2> SUFFICES ASSUME now - past.time > StaleAfter,
                      NEW c \in Commands, HandleCommand(c)
               PROVE  Recent("stale")
    OBVIOUS
  <2>1. Emit(CommandCandidates(c))
    BY DEF HandleCommand
  <2>2. "stale" \in CommandCandidates(c) /\ "stale" \in Keys
    BY <1>1 DEF CommandCandidates, Chosen, Stale, TimesInv, Keys
  <2> QED
    BY <1>1, <2>1, <2>2, EmitTells DEF TimesInv
<1> QED
  BY <1>1, TimesInductive, PTL DEF Spec, StaleContextAlerted

\* The first version's cooldowns implement the rate limiter, like those of the
\* alert manager that replaced them (_emit is the only code that writes them).
THEOREM DetectorLimitsRate == Spec => LimitsRate
<1>1. Init => Limiter!Init
  BY DEF Init, NewDetector, Limiter!Init
<1>2. ASSUME TimesInv, [Next]_vars
      PROVE  [Limiter!Next]_<<cooldowns, now>>
  <2>1. CASE Untouched
    <3>1. now' >= now
      BY <1>2, StepKinds DEF TimesInv
    <3> QED
      BY <2>1, <3>1 DEF Untouched, Limiter!Next, Limiter!Advance
  <2>2. CASE Emits
    <3>1. PICK candidates : Emit(candidates)
      BY <2>2 DEF Emits
    <3>2. cooldowns' = [k \in Keys |->
                          IF k \in candidates /\ ~ Cooling(k) THEN now ELSE cooldowns[k]]
      BY <3>1 DEF Emit
    <3>3. ASSUME NEW k \in Limiter!Passing
          PROVE  cooldowns'[k] = now /\ Limiter!Open(k)
      <4>1. k \in Keys /\ cooldowns'[k] # cooldowns[k]
        BY DEF Limiter!Passing
      <4>2. cooldowns'[k] = now /\ ~ Cooling(k)
        BY <3>2, <4>1
      <4> QED
        BY <4>1, <4>2, <1>2, LegacyAssumption DEF Cooling, TimesInv, Limiter!Open
    <3>4. cooldowns' = [k \in Keys |->
                          IF k \in Limiter!Passing THEN now ELSE cooldowns[k]]
      <4>1. ASSUME NEW k \in Keys
            PROVE  cooldowns'[k] = IF k \in Limiter!Passing THEN now ELSE cooldowns[k]
        BY <3>2, <3>3 DEF Limiter!Passing
      <4> QED
        BY <3>2, <4>1
    <3> QED
      BY <2>2, <3>3, <3>4 DEF Emits, Limiter!Next, Limiter!Pass
  <2>3. CASE Renewed
    BY <2>3 DEF Renewed, Limiter!Next, Limiter!Forget
  <2> QED
    BY <1>2, <2>1, <2>2, <2>3, StepKinds
<1> QED
  BY <1>1, <1>2, TimesInductive, PTL DEF Spec, LimitsRate, Limiter!Spec
=============================================================================
