---------------------------- MODULE TankProcess ----------------------------
(***************************************************************************)
(* The physical process under control (plant/tank.py, pump.py, valve.py,   *)
(* sensors.py) as operators on a grid of actuator positions and levels.    *)
(*                                                                         *)
(* The simulation works on floats.  What the controller tells apart is on  *)
(* which side of a threshold a level lies and whether an actuator has      *)
(* reached its target, so positions are 0..Full (0 is closed/off, Full is  *)
(* 100%) and levels are 0..MaxLevel, with thresholds MinSafe and MaxSafe.  *)
(* A numeric step is the set of grid values it may lead to.                *)
(***************************************************************************)
EXTENDS Integers

CONSTANTS
    Full,       \* grid value of an actuator at 100%
    MaxLevel,   \* grid value of core.config.MAX_LEVEL
    MinSafe,    \* grid value of MIN_SAFE_HEIGHT
    MaxSafe     \* grid value of MAX_SAFE_HEIGHT

ASSUME TankAssumption ==
    /\ Full \in Nat \ {0}
    /\ MinSafe \in Nat /\ MaxSafe \in Nat /\ MaxLevel \in Nat
    /\ MinSafe < MaxSafe /\ MaxSafe <= MaxLevel

Pct   == 0..Full
Level == 0..MaxLevel

\* max(lo, min(hi, x)), the clip written in every actuator, tank and sensor
Clip(x, lo, hi) == IF x < lo THEN lo ELSE IF x > hi THEN hi ELSE x

\* Mutant of Target: the clip is forgotten.
TargetUnclipped(x) == x

\* set_target: the commanded position, clipped to 0..100%
Target(x) == Clip(x, 0, Full)

\* update: a += (t - a) * dt/tau with 0 < dt/tau < 1.  The position moves
\* towards the target and never passes it.  One update covers a fraction of
\* the way, so it may stay on its grid value, for any number of updates.
LagStep(actual, target) ==
    { x \in Pct : \/ actual <= x /\ x <= target
                  \/ target <= x /\ x <= actual }

\* One Euler step of the level.  A stopped pump cannot raise it, a closed
\* valve cannot lower it, and dt is small enough to cross one grid line only.
FlowStep(h, pump, valve) ==
    { x \in Level : /\ h - 1 <= x /\ x <= h + 1
                    /\ pump = 0 => x <= h
                    /\ valve = 0 => x >= h }

\* A level reading: Gaussian noise (sigma 5 mm), clipped to the tank.
Readings(h) == { x \in Level : h - 1 <= x /\ x <= h + 1 }

\* Whether the pressure reading reaches MAX_SAFE_PRESSURE, the pressure of
\* MAX_SAFE_HEIGHT.  Its own noise (10 Pa, 1 mm) decides near the threshold.
OverPressure(measured) == IF measured >= MaxSafe - 1 THEN BOOLEAN ELSE {FALSE}
=============================================================================
