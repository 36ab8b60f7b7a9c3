------------------------- MODULE ForwardSimulation -------------------------
(***************************************************************************)
(* forward_simulate, the forecast both detectors make before they judge a  *)
(* command (detector.py, security/physics_detector.py): Euler steps of the *)
(* tank's ODE with fixed actuators, which note when the level first        *)
(* crosses a safety limit and stop early at the bottom or the rim.         *)
(*                                                                         *)
(* Levels are on a grid.  The flows of one step are grid values too: the   *)
(* inflow for each unit of the pump, and for each level the outflow for    *)
(* each unit of the valve, the table of Torricelli's square root.          *)
(***************************************************************************)
EXTENDS Integers

CONSTANTS
    Full,       \* grid value of an actuator at 100%
    MaxLevel,   \* grid value of MAX_LEVEL
    MinSafe,    \* grid value of MIN_SAFE_HEIGHT
    MaxSafe,    \* grid value of MAX_SAFE_HEIGHT
    Inflow,     \* levels one step gains from a unit of the pump
    Outflow,    \* levels one step loses to a unit of the valve, for each level
    Steps,      \* int(PREDICTION_HORIZON / PREDICTION_DT)
    None        \* no value

Pct   == 0..Full
Level == 0..MaxLevel

ASSUME SimulationAssumption ==
    /\ Full \in Nat \ {0} /\ MaxLevel \in Nat
    /\ MinSafe \in Level /\ MaxSafe \in Level /\ MinSafe < MaxSafe
    /\ Inflow \in Nat /\ Outflow \in [Level -> Nat]
    /\ Steps \in Nat \ {0}
    /\ None \notin Int

\* Torricelli's outflow grows with the level, and one step lets out less than
\* the levels between the bottom and MAX_SAFE_HEIGHT, or between the rim and
\* MIN_SAFE_HEIGHT (0.04 m of 0.9 and 9.9, by MAX_OUTFLOW and PREDICTION_DT).
ASSUME OutflowAssumption ==
    /\ \A x, y \in Level : x <= y => Outflow[x] <= Outflow[y]
    /\ Full * Outflow[MaxLevel] < MaxSafe
    /\ Full * Outflow[MaxLevel] < MaxLevel - MinSafe

\* One Euler step and the clip to the tank
EulerStep(h, pump, valve) ==
    LET x == h + pump * Inflow - valve * Outflow[h]
    IN  IF x < 0 THEN 0 ELSE IF x > MaxLevel THEN MaxLevel ELSE x

\* Mutant of LoopBody: the loop is left before the crossings are noted.
LoopBodyBreaksFirst(s, i, pump, valve) ==
    LET x == EulerStep(s.h, pump, valve)
        out == x = 0 \/ x = MaxLevel
    IN  [h |-> x,
         overfill |-> IF ~ out /\ s.overfill = None /\ x >= MaxSafe THEN i ELSE s.overfill,
         dry |-> IF ~ out /\ s.dry = None /\ x <= MinSafe THEN i ELSE s.dry,
         stopped |-> out]

\* The body of the loop in its i-th round, s being its variables
LoopBody(s, i, pump, valve) ==
    LET x == EulerStep(s.h, pump, valve)
    IN  [h |-> x,
         overfill |-> IF s.overfill = None /\ x >= MaxSafe THEN i ELSE s.overfill,
         dry |-> IF s.dry = None /\ x <= MinSafe THEN i ELSE s.dry,
         stopped |-> x = 0 \/ x = MaxLevel]

\* The variables after the loop: the last level and the two first crossings
ForwardSimulate(pump, valve, h) ==
    LET loop[i \in 0..Steps] ==
          IF i = 0
          THEN [h |-> h, overfill |-> None, dry |-> None, stopped |-> FALSE]
          ELSE IF loop[i - 1].stopped THEN loop[i - 1]
          ELSE LoopBody(loop[i - 1], i, pump, valve)
    IN  loop[Steps]

-----------------------------------------------------------------------------
(* What the forecast is to say, without the loop *)

\* The level after each step of the whole horizon
Trajectory(pump, valve, h) ==
    LET level[i \in 0..Steps] ==
          IF i = 0 THEN h ELSE EulerStep(level[i - 1], pump, valve)
    IN  level

\* i is the first step after which P holds, or None if there is none.
IsFirst(i, P(_)) ==
    IF i = None THEN \A j \in 1..Steps : ~ P(j)
    ELSE i \in 1..Steps /\ P(i) /\ \A j \in 1..(i - 1) : ~ P(j)

\* The forecast has the times of the whole trajectory: nothing is missed for
\* leaving the loop early.
Faithful(pump, valve, h) ==
    LET level == Trajectory(pump, valve, h)
        forecast == ForwardSimulate(pump, valve, h)
    IN  /\ IsFirst(forecast.overfill, LAMBDA j : level[j] >= MaxSafe)
        /\ IsFirst(forecast.dry, LAMBDA j : level[j] <= MinSafe)
=============================================================================
