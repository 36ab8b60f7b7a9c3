------------------------- MODULE MCPlantController -------------------------
(* Instances of PlantController for TLC. *)
EXTENDS PlantController

\* Every branch of on_command_received: positions at and outside both ends,
\* an argument float() refuses, both directions of maintenance.
MCPayloads ==
    [cmd : {"pump", "valve"}, arg : {-1, Full + 1}]
    \cup {[cmd |-> "pump", arg |-> Junk], [cmd |-> "setpoint", arg |-> 1]}
    \cup [cmd : {"maintenance"}, arg : {0, 1}]
    \cup [cmd : {"estop", "reset", "other"}, arg : {0}]

\* The stop, what ends it, and commands that may come in between.
MCLivePayloads ==
    [cmd : {"estop", "reset"}, arg : {0}]
    \cup [cmd : {"pump"}, arg : {0, Full}] \cup [cmd : {"maintenance"}, arg : {1}]
=============================================================================
