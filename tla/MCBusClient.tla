---------------------------- MODULE MCBusClient ----------------------------
(* BusClient for TLC: a process with the two command topics of the plant   *)
(* controller, one of them with two callbacks.  Later it may register a    *)
(* callback on a topic it has, and a topic it does not have.               *)
EXTENDS BusClient

Reg(t, c) == [topic |-> t, cb |-> c]
MCEarly == {Reg("commands", "obey"), Reg("legacy", "obey"), Reg("legacy", "log")}
MCLate == {Reg("commands", "log"), Reg("acks", "log")}
=============================================================================
