---------------------- MODULE ForwardSimulationProofs ----------------------
(***************************************************************************)
(* forward_simulate is exact for every table of flows that satisfies       *)
(* SimulationAssumption and OutflowAssumption: leaving the loop at the     *)
(* bottom or the rim misses no crossing of a safety limit.                 *)
(*                                                                         *)
(* Left at the bottom, the level can no more rise to MAX_SAFE_HEIGHT: the  *)
(* step that emptied the tank lost all that came in, and so do the steps   *)
(* after it.  At the rim it is the same with MIN_SAFE_HEIGHT.  Until then  *)
(* the loop goes through the levels of the trajectory, so its variables    *)
(* are the first crossings so far (an induction along its rounds).         *)
(***************************************************************************)
EXTENDS ForwardSimulation, DataLemmas

\* The loop's variables
Variables == [h : Level, overfill : 1..Steps \cup {None}, dry : 1..Steps \cup {None},
              stopped : BOOLEAN]

\* What the loop begins with and what one round makes of it
Begin(h) == [h |-> h, overfill |-> None, dry |-> None, stopped |-> FALSE]
Round(s, i, pump, valve) == IF s.stopped THEN s ELSE LoopBody(s, i, pump, valve)

\* t is the first member of S up to n, or None if there is none.
FirstIn(t, S, n) ==
    IF t = None THEN \A j \in 1..n : j \notin S
    ELSE t \in 1..n /\ t \in S /\ \A j \in 1..(t - 1) : j \notin S

-----------------------------------------------------------------------------
\* What a step lets out: it grows with the level, up to what it is at the rim.
LEMMA LossBounds ==
    ASSUME NEW valve \in Pct
    PROVE  /\ \A x \in Level : valve * Outflow[x] \in Nat
           /\ \A x, y \in Level : x <= y => valve * Outflow[x] <= valve * Outflow[y]
           /\ \A x \in Level : valve * Outflow[x] <= Full * Outflow[MaxLevel]
           /\ Full * Outflow[MaxLevel] \in Nat
<1>1. /\ valve \in Nat /\ valve <= Full /\ Full \in Nat /\ MaxLevel \in Level
      /\ \A x \in Level : Outflow[x] \in Nat /\ x <= MaxLevel
  BY SimulationAssumption DEF Pct, Level
<1>2. ASSUME NEW x \in Level
      PROVE  valve * Outflow[x] \in Nat
  BY <1>1
<1>3. ASSUME NEW x \in Level, NEW y \in Level, x <= y
      PROVE  valve * Outflow[x] <= valve * Outflow[y]
  BY <1>1, <1>3, OutflowAssumption, ProductMonotone
<1>4. valve * Outflow[MaxLevel] <= Full * Outflow[MaxLevel]
  BY <1>1, ProductMonotone
<1>5. Full * Outflow[MaxLevel] \in Nat
  BY <1>1
<1>6. ASSUME NEW x \in Level
      PROVE  valve * Outflow[x] <= Full * Outflow[MaxLevel]
  <2>1. valve * Outflow[x] <= valve * Outflow[MaxLevel]
    BY <1>1, <1>3
  <2>2. valve * Outflow[x] \in Nat /\ valve * Outflow[MaxLevel] \in Nat
    BY <1>1, <1>2
  <2> QED
    BY <1>4, <1>5, <2>1, <2>2
<1> QED
  BY <1>2, <1>3, <1>5, <1>6

\* A step stays in the tank.
LEMMA EulerStepType ==
    ASSUME NEW h \in Level, NEW pump \in Pct, NEW valve \in Pct
    PROVE  EulerStep(h, pump, valve) \in Level
<1>1. pump * Inflow \in Nat /\ valve * Outflow[h] \in Nat
  BY SimulationAssumption, LossBounds DEF Pct
<1> QED
  BY <1>1, SimulationAssumption DEF EulerStep, Level

\* If the step from y empties the tank, every step from a level below what it
\* lost ends below it as well.
LEMMA BottomHolds ==
    ASSUME NEW y \in Level, NEW pump \in Pct, NEW valve \in Pct,
           EulerStep(y, pump, valve) = 0,
           NEW x \in Level, x <= valve * Outflow[y]
    PROVE  EulerStep(x, pump, valve) <= valve * Outflow[y]
<1> DEFINE a == pump * Inflow
           b(z) == valve * Outflow[z]
<1>1. /\ a \in Nat /\ b(x) \in Nat /\ b(y) \in Nat
      /\ x <= y => b(x) <= b(y)
      /\ y <= x => b(y) <= b(x)
  BY SimulationAssumption, LossBounds DEF Pct
<1>2. /\ EulerStep(x, pump, valve) =
           IF x + a - b(x) < 0 THEN 0
           ELSE IF x + a - b(x) > MaxLevel THEN MaxLevel ELSE x + a - b(x)
      /\ EulerStep(y, pump, valve) =
           IF y + a - b(y) < 0 THEN 0
           ELSE IF y + a - b(y) > MaxLevel THEN MaxLevel ELSE y + a - b(y)
  BY DEF EulerStep
<1>3. x \in Nat /\ y \in Nat /\ MaxLevel \in Nat /\ MaxLevel > 0
  BY SimulationAssumption DEF Level
<1>4. x <= b(y)
  OBVIOUS
<1> HIDE DEF a, b
<1>5. y + a <= b(y)
  BY <1>1, <1>2, <1>3
<1>6. EulerStep(x, pump, valve) <= b(y)
  BY <1>1, <1>2, <1>3, <1>4, <1>5
<1> QED
  BY <1>6 DEF b

\* If the step from y fills the tank, every step from a level above the rim
\* less what is lost there ends above it as well.
LEMMA RimHolds ==
    ASSUME NEW y \in Level, NEW pump \in Pct, NEW valve \in Pct,
           EulerStep(y, pump, valve) = MaxLevel,
           NEW x \in Level, x >= MaxLevel - valve * Outflow[MaxLevel]
    PROVE  EulerStep(x, pump, valve) >= MaxLevel - valve * Outflow[MaxLevel]
<1> DEFINE a == pump * Inflow
           b(z) == valve * Outflow[z]
<1>1. MaxLevel \in Level /\ x <= MaxLevel
  BY SimulationAssumption DEF Level
<1>2. /\ a \in Nat /\ b(x) \in Nat /\ b(y) \in Nat /\ b(MaxLevel) \in Nat
      /\ x <= y => b(x) <= b(y)
      /\ b(x) <= b(MaxLevel)
  BY <1>1, SimulationAssumption, LossBounds DEF Pct
<1>3. /\ EulerStep(x, pump, valve) =
           IF x + a - b(x) < 0 THEN 0
           ELSE IF x + a - b(x) > MaxLevel THEN MaxLevel ELSE x + a - b(x)
      /\ EulerStep(y, pump, valve) =
           IF y + a - b(y) < 0 THEN 0
           ELSE IF y + a - b(y) > MaxLevel THEN MaxLevel ELSE y + a - b(y)
  BY DEF EulerStep
<1>4. x \in Nat /\ y \in Nat /\ MaxLevel \in Nat /\ MaxLevel > 0 /\ y <= MaxLevel
  BY SimulationAssumption DEF Level
<1>5. x >= MaxLevel - b(MaxLevel)
  OBVIOUS
<1> HIDE DEF a, b
<1>6. y + a - b(y) >= MaxLevel
  BY <1>2, <1>3, <1>4
<1>7. EulerStep(x, pump, valve) >= MaxLevel - b(MaxLevel)
  BY <1>2, <1>3, <1>4, <1>5, <1>6
<1> QED
  BY <1>7 DEF b

-----------------------------------------------------------------------------
\* The trajectory goes on from h by Euler steps and stays in the tank.
LEMMA TrajectorySteps ==
    ASSUME NEW pump \in Pct, NEW valve \in Pct, NEW h \in Level
    PROVE  LET level == Trajectory(pump, valve, h)
           IN  /\ level \in [0..Steps -> Level]
               /\ level[0] = h
               /\ \A i \in 1..Steps : level[i] = EulerStep(level[i - 1], pump, valve)
<1> DEFINE After(x) == EulerStep(x, pump, valve)
           B(f) == [i \in 0..Steps |-> IF i = 0 THEN h ELSE After(f[i - 1])]
           level == CHOOSE f : f = B(f)
           g == [p \in Level \X (1..Steps) |-> After(p[1])]
<1>1. Trajectory(pump, valve, h) = level
  BY DEF Trajectory
<1>2. Steps \in Nat
  BY SimulationAssumption
<1>3. \A x \in Level : After(x) \in Level
  BY EulerStepType
<1> HIDE DEF After
<1>4. /\ g \in [Level \X (1..Steps) -> Level]
      /\ \A i \in 1..Steps, x \in Level : g[<<x, i>>] = After(x)
  BY <1>3
<1> HIDE DEF g
<1>5. PICK f \in [0..Steps -> Level] : Solves(f, Steps, h, g)
  BY <1>2, <1>4, RecursionExists
<1>6. f = B(f)
  <2>1. ASSUME NEW i \in 0..Steps
        PROVE  f[i] = IF i = 0 THEN h ELSE After(f[i - 1])
    <3>1. i # 0 => i \in 1..Steps /\ i - 1 \in 0..Steps /\ f[i - 1] \in Level
      BY <1>2
    <3> QED
      BY <1>4, <1>5, <3>1 DEF Solves
  <2> QED
    BY <2>1
<1>7. level = B(level)
  <2> HIDE DEF B
  <2> QED
    BY <1>6
<1> HIDE DEF level
<1>8. \A i \in 0..Steps : level[i] = IF i = 0 THEN h ELSE After(level[i - 1])
  BY <1>7
<1> DEFINE T == { i \in 0..Steps : level[i] \in Level }
<1>9. 0 \in T
  BY <1>2, <1>8
<1>10. ASSUME NEW i \in 1..Steps, i - 1 \in T
       PROVE  i \in T
  BY <1>3, <1>8, <1>10
<1>11. 0..Steps \subseteq T
  <2> HIDE DEF T
  <2> QED
    BY <1>2, <1>9, <1>10, IntervalInduction
<1>12. level = [i \in 0..Steps |-> level[i]]
  BY <1>7
<1>13. level \in [0..Steps -> Level]
  BY <1>11, <1>12
<1>14. level[0] = h /\ \A i \in 1..Steps : level[i] = After(level[i - 1])
  BY <1>2, <1>8
<1> QED
  BY <1>1, <1>13, <1>14 DEF After

\* The loop's body keeps its variables' types.
LEMMA RoundType ==
    ASSUME NEW pump \in Pct, NEW valve \in Pct,
           NEW s \in Variables, NEW i \in 1..Steps
    PROVE  Round(s, i, pump, valve) \in Variables
<1>1. s.h \in Level
  BY DEF Variables
<1>2. EulerStep(s.h, pump, valve) \in Level
  BY <1>1, EulerStepType
<1> QED
  BY <1>2 DEF Round, LoopBody, Variables

\* The forecast is what the rounds have made of the loop's variables.
LEMMA LoopSteps ==
    ASSUME NEW pump \in Pct, NEW valve \in Pct, NEW h \in Level
    PROVE  \E loop \in [0..Steps -> Variables] :
              /\ ForwardSimulate(pump, valve, h) = loop[Steps]
              /\ loop[0] = Begin(h)
              /\ \A i \in 1..Steps : loop[i] = Round(loop[i - 1], i, pump, valve)
<1> DEFINE After(s, i) == Round(s, i, pump, valve)
           B(f) == [i \in 0..Steps |-> IF i = 0 THEN Begin(h) ELSE After(f[i - 1], i)]
           loop == CHOOSE f : f = B(f)
           g == [p \in Variables \X (1..Steps) |-> After(p[1], p[2])]
<1>1. ForwardSimulate(pump, valve, h) = loop[Steps]
  BY DEF ForwardSimulate, Begin, Round
<1>2. Steps \in Nat /\ Begin(h) \in Variables
  BY SimulationAssumption DEF Begin, Variables
<1>3. \A s \in Variables, i \in 1..Steps : After(s, i) \in Variables
  BY RoundType
<1> HIDE DEF After
<1>4. /\ g \in [Variables \X (1..Steps) -> Variables]
      /\ \A i \in 1..Steps, s \in Variables : g[<<s, i>>] = After(s, i)
  BY <1>3
<1> HIDE DEF g
<1>5. PICK f \in [0..Steps -> Variables] : Solves(f, Steps, Begin(h), g)
  BY <1>2, <1>4, RecursionExists
<1>6. f = B(f)
  <2>1. ASSUME NEW i \in 0..Steps
        PROVE  f[i] = IF i = 0 THEN Begin(h) ELSE After(f[i - 1], i)
    <3>1. i # 0 => i \in 1..Steps /\ i - 1 \in 0..Steps /\ f[i - 1] \in Variables
      BY <1>2
    <3> QED
      BY <1>4, <1>5, <3>1 DEF Solves
  <2> QED
    BY <2>1
<1>7. loop = B(loop)
  <2> HIDE DEF B
  <2> QED
    BY <1>6
<1> HIDE DEF loop
<1>8. \A i \in 0..Steps : loop[i] = IF i = 0 THEN Begin(h) ELSE After(loop[i - 1], i)
  BY <1>7
<1> DEFINE T == { i \in 0..Steps : loop[i] \in Variables }
<1>9. 0 \in T
  BY <1>2, <1>8
<1>10. ASSUME NEW i \in 1..Steps, i - 1 \in T
       PROVE  i \in T
  BY <1>3, <1>8, <1>10
<1>11. 0..Steps \subseteq T
  <2> HIDE DEF T
  <2> QED
    BY <1>2, <1>9, <1>10, IntervalInduction
<1>12. loop = [i \in 0..Steps |-> loop[i]]
  BY <1>7
<1>13. loop \in [0..Steps -> Variables]
  BY <1>11, <1>12
<1>14. loop[0] = Begin(h) /\ \A i \in 1..Steps : loop[i] = After(loop[i - 1], i)
  BY <1>2, <1>8
<1> QED
  BY <1>1, <1>13, <1>14 DEF After

-----------------------------------------------------------------------------
\* Once it has been empty the tank does not fill up.
LEMMA NeverFullAfterBottom ==
    ASSUME NEW pump \in Pct, NEW valve \in Pct, NEW level \in [0..Steps -> Level],
           \A i \in 1..Steps : level[i] = EulerStep(level[i - 1], pump, valve),
           NEW k \in 1..Steps, level[k] = 0
    PROVE  \A j \in k..Steps : level[j] < MaxSafe
<1> DEFINE y == level[k - 1]
           bound == valve * Outflow[y]
           T == { j \in 0..Steps : j >= k => level[j] <= bound }
<1>1. Steps \in Nat /\ MaxSafe \in Nat /\ \A x \in Level : x \in Nat
  BY SimulationAssumption DEF Level
<1>2. y \in Level /\ EulerStep(y, pump, valve) = 0
  BY <1>1
<1>3. bound \in Nat /\ bound < MaxSafe
  BY <1>1, <1>2, LossBounds, OutflowAssumption
<1> HIDE DEF y
<1>4. 0 \in T
  BY <1>1
<1>5. ASSUME NEW i \in 1..Steps, i - 1 \in T
      PROVE  i \in T
  <2>1. CASE i < k
    BY <2>1
  <2>2. CASE i = k
    BY <1>3, <2>2
  <2>3. CASE i > k
    <3>1. level[i - 1] <= bound /\ level[i - 1] \in Level
      BY <1>5, <2>3
    <3>2. EulerStep(level[i - 1], pump, valve) <= bound
      BY <1>2, <3>1, BottomHolds
    <3> QED
      BY <3>2
  <2> QED
    BY <2>1, <2>2, <2>3
<1>6. 0..Steps \subseteq T
  <2> HIDE DEF T
  <2> QED
    BY <1>1, <1>4, <1>5, IntervalInduction
<1>7. ASSUME NEW j \in k..Steps
      PROVE  level[j] < MaxSafe
  <2>1. j \in 0..Steps /\ level[j] \in Nat
    BY <1>1
  <2>2. level[j] <= bound
    BY <1>6, <2>1
  <2> HIDE DEF bound
  <2> QED
    BY <1>1, <1>3, <2>1, <2>2
<1> QED
  BY <1>7

\* Once it has been full the tank does not run dry.
LEMMA NeverDryAfterRim ==
    ASSUME NEW pump \in Pct, NEW valve \in Pct, NEW level \in [0..Steps -> Level],
           \A i \in 1..Steps : level[i] = EulerStep(level[i - 1], pump, valve),
           NEW k \in 1..Steps, level[k] = MaxLevel
    PROVE  \A j \in k..Steps : level[j] > MinSafe
<1> DEFINE y == level[k - 1]
           loss == valve * Outflow[MaxLevel]
           T == { j \in 0..Steps : j >= k => level[j] >= MaxLevel - loss }
<1>1. /\ Steps \in Nat /\ MinSafe \in Nat /\ MaxLevel \in Level
      /\ \A x \in Level : x \in Nat
  BY SimulationAssumption DEF Level
<1>2. y \in Level /\ EulerStep(y, pump, valve) = MaxLevel
  BY <1>1
<1>3. loss \in Nat /\ loss < MaxLevel - MinSafe
  BY <1>1, LossBounds, OutflowAssumption
<1> HIDE DEF y
<1>4. 0 \in T
  BY <1>1
<1>5. ASSUME NEW i \in 1..Steps, i - 1 \in T
      PROVE  i \in T
  <2>1. CASE i < k
    BY <2>1
  <2>2. CASE i = k
    BY <1>1, <1>3, <2>2
  <2>3. CASE i > k
    <3>1. level[i - 1] >= MaxLevel - loss /\ level[i - 1] \in Level
      BY <1>5, <2>3
    <3>2. EulerStep(level[i - 1], pump, valve) >= MaxLevel - loss
      BY <1>2, <3>1, RimHolds
    <3> QED
      BY <3>2
  <2> QED
    BY <2>1, <2>2, <2>3
<1>6. 0..Steps \subseteq T
  <2> HIDE DEF T
  <2> QED
    BY <1>1, <1>4, <1>5, IntervalInduction
<1>7. ASSUME NEW j \in k..Steps
      PROVE  level[j] > MinSafe
  <2>1. j \in 0..Steps /\ level[j] \in Nat
    BY <1>1
  <2>2. level[j] >= MaxLevel - loss
    BY <1>6, <2>1
  <2> HIDE DEF loss
  <2> QED
    BY <1>1, <1>3, <2>1, <2>2
<1> QED
  BY <1>7

\* What the loop's variables know after i rounds: of a loop that goes on, the
\* level and the first crossings so far; of one that has stopped, the first
\* crossings of the whole horizon.
LoopInv(s, i, level) ==
    LET high == { j \in 1..Steps : level[j] >= MaxSafe }
        low  == { j \in 1..Steps : level[j] <= MinSafe }
        known == IF s.stopped THEN Steps ELSE i
    IN  /\ ~ s.stopped => s.h = level[i]
        /\ FirstIn(s.overfill, high, known)
        /\ FirstIn(s.dry, low, known)

\* A round that goes on or stops keeps what the variables know.
LEMMA LoopInvariant ==
    ASSUME NEW pump \in Pct, NEW valve \in Pct, NEW level \in [0..Steps -> Level],
           \A j \in 1..Steps : level[j] = EulerStep(level[j - 1], pump, valve),
           NEW i \in 1..Steps, NEW s \in Variables, LoopInv(s, i - 1, level)
    PROVE  LoopInv(Round(s, i, pump, valve), i, level)
<1> DEFINE high == { j \in 1..Steps : level[j] >= MaxSafe }
           low  == { j \in 1..Steps : level[j] <= MinSafe }
           x == level[i]
           r == Round(s, i, pump, valve)
<1>1. CASE s.stopped
  BY <1>1 DEF Round, LoopInv
<1>2. CASE ~ s.stopped
  <2>1. /\ Steps \in Nat /\ i \in Nat /\ x \in Nat /\ x \in Level /\ None \notin Nat
        /\ MinSafe \in Nat /\ MaxSafe \in Nat /\ MaxLevel \in Nat
        /\ MinSafe < MaxSafe /\ MaxSafe <= MaxLevel
    BY SimulationAssumption DEF Level
  <2>2. EulerStep(s.h, pump, valve) = x
    BY <1>2, <2>1 DEF LoopInv
  <2>3. /\ r.h = x
        /\ r.overfill = IF s.overfill = None /\ x >= MaxSafe THEN i ELSE s.overfill
        /\ r.dry = IF s.dry = None /\ x <= MinSafe THEN i ELSE s.dry
        /\ r.stopped = (x = 0 \/ x = MaxLevel)
    BY <1>2, <2>2 DEF Round, LoopBody
  <2>4. FirstIn(s.overfill, high, i - 1) /\ FirstIn(s.dry, low, i - 1)
    BY <1>2 DEF LoopInv
  <2>5. (i \in high <=> x >= MaxSafe) /\ (i \in low <=> x <= MinSafe)
    OBVIOUS
  <2>6. x = 0 => \A j \in i..Steps : j \notin high
    <3> SUFFICES ASSUME x = 0, NEW j \in i..Steps
                 PROVE  ~ (level[j] >= MaxSafe)
      OBVIOUS
    <3>1. level[j] < MaxSafe
      BY NeverFullAfterBottom
    <3>2. level[j] \in Nat
      BY <2>1 DEF Level
    <3> QED
      BY <2>1, <3>1, <3>2
  <2>7. x = MaxLevel => \A j \in i..Steps : j \notin low
    <3> SUFFICES ASSUME x = MaxLevel, NEW j \in i..Steps
                 PROVE  ~ (level[j] <= MinSafe)
      OBVIOUS
    <3>1. level[j] > MinSafe
      BY NeverDryAfterRim
    <3>2. level[j] \in Nat
      BY <2>1 DEF Level
    <3> QED
      BY <2>1, <3>1, <3>2
  <2> HIDE DEF high, low, x, r
  <2>8. FirstIn(r.overfill, high, i) /\ FirstIn(r.dry, low, i)
    BY <2>1, <2>3, <2>4, <2>5 DEF FirstIn
  <2>9. r.stopped => FirstIn(r.overfill, high, Steps) /\ FirstIn(r.dry, low, Steps)
    <3>1. CASE x = 0
      <4>1. r.dry # None
        BY <2>1, <2>3, <2>4, <3>1 DEF FirstIn
      <4> QED
        BY <2>1, <2>6, <2>8, <3>1, <4>1 DEF FirstIn
    <3>2. CASE x = MaxLevel
      <4>1. r.overfill # None
        BY <2>1, <2>3, <2>4, <3>2 DEF FirstIn
      <4> QED
        BY <2>1, <2>7, <2>8, <3>2, <4>1 DEF FirstIn
    <3> QED
      BY <2>3, <3>1, <3>2
  <2>10. LoopInv(r, i, level)
    BY <2>3, <2>8, <2>9 DEF LoopInv, high, low, x
  <2> QED
    BY <2>10 DEF r
<1> QED
  BY <1>1, <1>2

\* The forecast tells the first crossings of the whole trajectory
\* (forward_simulate of both detectors: the early break misses nothing).
THEOREM ForecastIsFaithful ==
    ASSUME NEW pump \in Pct, NEW valve \in Pct, NEW h \in Level
    PROVE  Faithful(pump, valve, h)
<1> DEFINE level == Trajectory(pump, valve, h)
           forecast == ForwardSimulate(pump, valve, h)
<1>1. /\ level \in [0..Steps -> Level]
      /\ level[0] = h
      /\ \A i \in 1..Steps : level[i] = EulerStep(level[i - 1], pump, valve)
  BY TrajectorySteps
<1> HIDE DEF level
<1>2. PICK loop \in [0..Steps -> Variables] :
          /\ forecast = loop[Steps]
          /\ loop[0] = Begin(h)
          /\ \A i \in 1..Steps : loop[i] = Round(loop[i - 1], i, pump, valve)
  BY LoopSteps
<1> HIDE DEF forecast
<1> DEFINE T == { i \in 0..Steps : LoopInv(loop[i], i, level) }
<1>3. Steps \in Nat /\ Steps \in 1..Steps
  BY SimulationAssumption
<1>4. 0 \in T
  BY <1>1, <1>2, <1>3 DEF LoopInv, Begin, FirstIn
<1>5. ASSUME NEW i \in 1..Steps, i - 1 \in T
      PROVE  i \in T
  <2>1. loop[i - 1] \in Variables /\ LoopInv(loop[i - 1], i - 1, level)
    BY <1>3, <1>5
  <2>2. LoopInv(Round(loop[i - 1], i, pump, valve), i, level)
    BY <1>1, <2>1, LoopInvariant
  <2> QED
    BY <1>2, <2>2
<1>6. 0..Steps \subseteq T
  <2> HIDE DEF T
  <2> QED
    BY <1>3, <1>4, <1>5, IntervalInduction
<1>7. LoopInv(forecast, Steps, level)
  BY <1>2, <1>3, <1>6
<1>8. /\ IsFirst(forecast.overfill, LAMBDA j : level[j] >= MaxSafe)
      /\ IsFirst(forecast.dry, LAMBDA j : level[j] <= MinSafe)
  BY <1>3, <1>7 DEF LoopInv, FirstIn, IsFirst
<1> QED
  BY <1>8 DEF Faithful, level, forecast
=============================================================================
