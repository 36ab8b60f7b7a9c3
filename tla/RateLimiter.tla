---------------------------- MODULE RateLimiter ----------------------------
(***************************************************************************)
(* What a cooldown promises, whoever keeps it: security/alert_manager.py   *)
(* (_cooldowns) and the detector of the first version, detector.py         *)
(* (_cooldowns), which both start one for each kind of alert they raise.   *)
(*                                                                         *)
(* A kind may pass when it never has, or when Period has gone by since it  *)
(* last did.  Any number of kinds may pass at one time, none needs to, and *)
(* a process that is started again has forgotten them all.                 *)
(***************************************************************************)
EXTENDS Integers

CONSTANTS
    Kinds,      \* what is limited
    Period,     \* the cooldown
    Never       \* the time of what has not passed yet

VARIABLES
    since,      \* when each kind passed last
    clock

Open(k) == since[k] = Never \/ clock - since[k] >= Period

Init == since = [k \in Kinds |-> Never] /\ clock = 0

\* Those whose time changes pass, all of them open; the others keep theirs.
Passing == { k \in Kinds : since'[k] # since[k] }
Pass ==
    /\ UNCHANGED clock
    /\ \A k \in Passing : Open(k)
    /\ since' = [k \in Kinds |-> IF k \in Passing THEN clock ELSE since[k]]

Forget == since' = [k \in Kinds |-> Never] /\ UNCHANGED clock

Advance == clock' >= clock /\ UNCHANGED since

Next == Advance \/ Pass \/ Forget

Spec == Init /\ [][Next]_<<since, clock>>
=============================================================================
