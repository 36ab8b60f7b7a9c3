------------------------- MODULE MCLegacyDetector -------------------------
(* An instance of LegacyDetector for TLC: levels 0..4, of which 1 to 3 are *)
(* safe, and positions 0..2.                                               *)
EXTENDS LegacyDetector

\* A full pump gains two levels in a step, an open valve loses two.
MCOutflow == [h \in 0..4 |-> IF h = 0 THEN 0 ELSE 1]

\* Filling with the outlet shut and an odd over-pressure, and a nearly empty
\* tank that drains.
MCFilling == [h |-> 3, pump |-> 2, valve |-> 0, over |-> TRUE, odd |-> TRUE]
MCDraining == [h |-> 0, pump |-> 1, valve |-> 2, over |-> FALSE, odd |-> FALSE]
MCSamples == {MCFilling, MCDraining}

\* A sample of the plant's second number, which comes before it or after it,
\* and one without a number
MCForeign == {
    [sample |-> MCFilling, seq |-> 2, ts |-> 0, life |-> 0],
    [sample |-> MCDraining, seq |-> None, ts |-> 1, life |-> 0]}

MCCommands ==
    [action : {"pump"}, value : {0, 2}] \cup [action : {"valve"}, value : {0}]
    \cup [action : {"setpoint"}, value : {2}]
    \cup [action : {"malformed"}, value : {None}]
=============================================================================
