----------------------------- MODULE MCTestbed -----------------------------
(* Testbed for TLC: one terminal, at which a guest or an engineer logs in, *)
(* to stop the plant or to leave maintenance.                              *)
EXTENDS Testbed

CONSTANTS c1, attacker_01, engineer_01

MCRoleOf == [u \in Users |-> IF u = attacker_01 THEN "GUEST" ELSE "ENGINEER"]
MCSecurityMode == [c \in Clients |-> "ADVISORY"]
MCLines == {[cmd |-> "estop", arg |-> "bad"], [cmd |-> "maintenance", arg |-> "off"]}
=============================================================================
