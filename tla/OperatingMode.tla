--------------------------- MODULE OperatingMode ---------------------------
(***************************************************************************)
(* What the plant controller promises of its operating mode to whoever     *)
(* sends it commands, with no tank, sensor, sample or thread in sight.     *)
(* A mode that is derived from the process gives way to any other.  A      *)
(* latching mode is only sure to stay once the state machine has come past *)
(* and respected it; from then on a command, or a new process, is what     *)
(* ends it.  An emergency stop takes time, and its mode is not announced   *)
(* before the actuators have been commanded to safety.                     *)
(***************************************************************************)

CONSTANT None    \* no mode

Latching == {"MAINTENANCE", "EMERGENCY"}
Derived == {"RUNNING", "WARNING", "FAULT"}

VARIABLES
    mode,       \* the operating mode
    held,       \* the latching mode the state machine has respected, or None
    stopping,   \* an emergency stop is being carried out
    safe        \* the pump is commanded to 0% and the valve to 100%

vars == <<mode, held, stopping, safe>>

Init == mode = "RUNNING" /\ held = None /\ stopping = FALSE /\ safe = FALSE

\* The state machine, in two steps: it looks for a latching mode, and if it
\* saw none it writes the mode it derives from the sample.
Look ==
    /\ held' = IF mode \in Latching THEN mode ELSE None
    /\ UNCHANGED <<mode, stopping, safe>>

Derive ==
    /\ held = None
    /\ mode' \in Derived
    /\ UNCHANGED <<held, stopping, safe>>

\* reset and maintenance write the mode whatever it was.
Order(m) ==
    /\ ~ stopping
    /\ mode' = m /\ held' = None
    /\ UNCHANGED <<stopping, safe>>

\* pump and valve
Position ==
    /\ ~ stopping
    /\ safe' \in BOOLEAN
    /\ UNCHANGED <<mode, held, stopping>>

\* estop: the pump, the valve, the mode
BeginStop ==
    /\ ~ stopping
    /\ stopping' = TRUE /\ safe' \in BOOLEAN
    /\ UNCHANGED <<mode, held>>

MakeSafe ==
    /\ stopping /\ safe' = TRUE
    /\ UNCHANGED <<mode, held, stopping>>

EndStop ==
    /\ stopping /\ safe
    /\ mode' = "EMERGENCY" /\ held' = None /\ stopping' = FALSE
    /\ UNCHANGED safe

\* A new process remembers nothing.
StartAgain ==
    /\ mode' = "RUNNING" /\ held' = None
    /\ stopping' = FALSE /\ safe' = FALSE

Next ==
    \/ Look \/ Derive
    \/ (\E m \in {"RUNNING", "MAINTENANCE"} : Order(m)) \/ Position
    \/ BeginStop \/ MakeSafe \/ EndStop
    \/ StartAgain

Spec == Init /\ [][Next]_vars
=============================================================================
