------------------------- MODULE MCCommandGateway -------------------------
(* An instance of CommandGateway for TLC: two terminals, one of them in    *)
(* ACTIVE mode, and people with different capabilities.                    *)
EXTENDS CommandGateway

CONSTANTS c1, c2, operator_01, engineer_01, attacker_01

MCRoleOf == [u \in Users |->
                CASE u = operator_01 -> "OPERATOR"
                  [] u = engineer_01 -> "ENGINEER"
                  [] u = attacker_01 -> "GUEST"]

MCSecurityMode == [c \in Clients |-> IF c = c1 THEN "ADVISORY" ELSE "ACTIVE"]

\* pump 50, maintenance off and a line that does not parse
MCLines == {[cmd |-> "pump", arg |-> "some"],
            [cmd |-> "maintenance", arg |-> "off"],
            [cmd |-> "valve", arg |-> "bad"]}
=============================================================================
