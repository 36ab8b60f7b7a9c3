------------------------- MODULE MCSecurityMonitor -------------------------
(* Instances of SecurityMonitor for TLC, on levels 0..2 and positions 0..1. *)
EXTENDS SecurityMonitor

\* The feed: a level that may repeat with the pump on or off, another one, and
\* over-pressure in and out of maintenance.
MCFlat == [h |-> 1, pump |-> 1, valve |-> 1, over |-> FALSE, mode |-> "RUNNING"]
MCFeed == {
    MCFlat,
    [h |-> 1, pump |-> 0, valve |-> 1, over |-> TRUE, mode |-> "FAULT"],
    [h |-> 2, pump |-> 1, valve |-> 0, over |-> TRUE, mode |-> "MAINTENANCE"]}
MCNoCommands == {}

\* A sample recorded before or made up, with a number of the plant's, one
\* without a number, and one that float() raises on
MCForeign == {
    [sample |-> MCFlat, seq |-> 2, life |-> 0],
    [sample |-> MCFlat, seq |-> None, life |-> 0],
    [sample |-> None, seq |-> 1, life |-> 0]}
MCNoForeign == {}

\* For the commands: a nearly empty tank that drains, and a full one with the
\* outlet shut, outside and in maintenance.
MCCalm == [h |-> 2, pump |-> 0, valve |-> 0, over |-> FALSE, mode |-> "RUNNING"]
MCStates == {
    [h |-> 0, pump |-> 1, valve |-> 1, over |-> FALSE, mode |-> "WARNING"],
    [h |-> 2, pump |-> 0, valve |-> 0, over |-> FALSE, mode |-> "MAINTENANCE"],
    MCCalm}

\* A replayed frame that says MAINTENANCE no more, and a malformed one
MCStatesForeign == {
    [sample |-> MCCalm, seq |-> 1, life |-> 0],
    [sample |-> None, seq |-> None, life |-> 0]}

MCCommands == {
    [cmd |-> "pump", val |-> 0, sp |-> None],
    [cmd |-> "pump", val |-> 1, sp |-> None],
    [cmd |-> "setpoint", val |-> None, sp |-> 0],
    [cmd |-> "setpoint", val |-> None, sp |-> 1]}

\* An overfill is predicted when more comes in than goes out.
MCForecast == { t \in (0..2) \X (0..1) \X (0..1) : t[2] > t[3] }
=============================================================================
