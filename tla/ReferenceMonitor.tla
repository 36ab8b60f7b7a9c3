-------------------------- MODULE ReferenceMonitor --------------------------
(***************************************************************************)
(* What the command path promises to the plant and to its auditors, with   *)
(* no session, token, client or database in sight.  A call is one command  *)
(* line submitted by a person.  It comes to at most one order to the plant *)
(* and at most one verdict; a verdict of acceptance is only given after    *)
(* the order, and a verdict of refusal means there is none, ever.  An      *)
(* order needs the right of the person who called, or a trace of the call  *)
(* and a command that is lent to everybody who leaves one.                 *)
(* A call can be made where there is no way to the plant, and that is      *)
(* settled when it is made: it orders nothing, and may still be accepted.  *)
(***************************************************************************)
EXTENDS Naturals

CONSTANTS
    Persons,   \* who can call
    Commands,  \* what can be ordered
    Rights,    \* the <<person, command>> pairs a person has by right
    Lendable   \* the commands that are lent against a trace

VARIABLES
    opened,    \* number of calls made so far
    traces,    \* traces left by calls, [call, by]
    orders,    \* orders given to the plant, [call, by, cmd]
    verdicts,  \* what the record says of calls, [call, verdict]
    offline    \* calls made where there is no way to the plant

vars == <<opened, traces, orders, verdicts, offline>>

Ordered(n) == \E o \in orders : o.call = n
Judged(n) == \E v \in verdicts : v.call = n

\* The command is the person's own right, or lent against this call's trace.
Entitled(n, p, cmd) ==
    \/ <<p, cmd>> \in Rights
    \/ cmd \in Lendable /\ [call |-> n, by |-> p] \in traces

Init == opened = 0 /\ traces = {} /\ orders = {} /\ verdicts = {} /\ offline = {}

Open ==
    /\ opened' = opened + 1
    /\ offline' \in {offline, offline \cup {opened + 1}}
    /\ UNCHANGED <<traces, orders, verdicts>>

Trace(n, p) ==
    /\ ~ Ordered(n) /\ ~ Judged(n)
    /\ traces' = traces \cup {[call |-> n, by |-> p]}
    /\ UNCHANGED <<opened, orders, verdicts, offline>>

Order(n, p, cmd) ==
    /\ ~ Ordered(n) /\ ~ Judged(n) /\ n \notin offline /\ Entitled(n, p, cmd)
    /\ orders' = orders \cup {[call |-> n, by |-> p, cmd |-> cmd]}
    /\ UNCHANGED <<opened, traces, verdicts, offline>>

\* Accepted after the order, or where there can be none; refused without one.
Judge(n, verdict) ==
    /\ ~ Judged(n)
    /\ verdict = "accepted" => Ordered(n) \/ n \in offline
    /\ verdict = "refused" => ~ Ordered(n)
    /\ verdicts' = verdicts \cup {[call |-> n, verdict |-> verdict]}
    /\ UNCHANGED <<opened, traces, orders, offline>>

Next ==
    \/ Open
    \/ \E n \in 1..opened :
          \/ \E p \in Persons : Trace(n, p) \/ \E cmd \in Commands : Order(n, p, cmd)
          \/ \E verdict \in {"accepted", "refused"} : Judge(n, verdict)

Spec == Init /\ [][Next]_vars
=============================================================================
