-------------------------- MODULE BusClientProofs --------------------------
(***************************************************************************)
(* Safety of BusClient for any registrations, losses and messages, proved  *)
(* from BusAssumption.                                                     *)
(*                                                                         *)
(* Two threads share a dictionary that only grows, and a list of callbacks *)
(* for each of its keys that only grows.  The invariant says how far each  *)
(* loop of the network thread has come over what it iterates (Greeting,    *)
(* Dispatching) and that a key that appears behind the back of on_connect  *)
(* is in the hands of the subscribe() that made it.                        *)
(***************************************************************************)
EXTENDS BusClient, TLAPS

Given(t, cb) == \E k \in DOMAIN callbacks[t] : callbacks[t][k] = cb
LateKey == \E t \in Keys : t \notin {r.topic : r \in Early}

\* A subscribe() in progress has its topic in the dictionary; one that has
\* returned has its callback there too; and those of a main come first.
Registering ==
    /\ app.pc \in {"check", "send", "append"} =>
          app.reg \in Registrations /\ app.reg.topic \in Keys
    /\ \A r \in done : r.topic \in Keys /\ Given(r.topic, r.cb)
    /\ net.pc # "unstarted" => Early \subseteq done

\* on_connect has queued what it has passed; what it did not count is late.
Greeting ==
    /\ net.pc \in {"hello", "greet", "loop", "dispatch"} => connected
    /\ net.pc = "greet" =>
          \A k \in DOMAIN table : k < net.i /\ link => table[k] \in subs \cup outgoing
    /\ net.pc = "greet" /\ Len(table) # net.size => LateKey

\* on_message has called what it has passed, and will come to what it owes.
Owes(m) == \A cb \in m.owed : Given(m.topic, cb)
Dispatching ==
    /\ \A k \in DOMAIN inbox : Owes(inbox[k])
    /\ net.pc = "dispatch" =>
          /\ Owes(net.msg)
          /\ \A k \in DOMAIN callbacks[net.msg.topic] :
                k < net.i => callbacks[net.msg.topic][k] \in net.given

Inv ==
    /\ TypeOK /\ Registering /\ Greeting /\ Dispatching
    /\ SubscriptionsComplete /\ DiesOfLateTopics /\ OwedDelivered

-----------------------------------------------------------------------------
(* Lemmas about steps *)

\* What Append leaves alone.
LEMMA AppendKeeps ==
  ASSUME NEW S, NEW s \in Seq(S), NEW e \in S
  PROVE  /\ Append(s, e) \in Seq(S) /\ Len(Append(s, e)) = Len(s) + 1
         /\ \A k \in 1..Len(s) : Append(s, e)[k] = s[k]
         /\ Append(s, e)[Len(s) + 1] = e
         /\ DOMAIN s = 1..Len(s) /\ DOMAIN Append(s, e) = 1..(Len(s) + 1)
  OBVIOUS

\* The dictionary and its lists only grow.
Grows ==
    /\ Len(table) <= Len(table') /\ \A k \in DOMAIN table : table'[k] = table[k]
    /\ \A t \in Topics :
          /\ Len(callbacks[t]) <= Len(callbacks'[t])
          /\ \A k \in DOMAIN callbacks[t] : callbacks'[t][k] = callbacks[t][k]

LEMMA StepGrows == TypeOK /\ Registering /\ [Next]_vars => Grows
<1> SUFFICES ASSUME TypeOK, Registering, [Next]_vars PROVE Grows
  OBVIOUS
<1> USE DEF TypeOK, Grows
<1>1. ASSUME NEW r \in Registrations, Subscribe(r) PROVE Grows
  <2>1. r.topic \in Topics /\ callbacks' = callbacks
    BY <1>1 DEF Subscribe, Topics
  <2>2. table' = table \/ table' = Append(table, r.topic)
    BY <1>1 DEF Subscribe
  <2>3. Len(table) <= Len(table') /\ \A k \in DOMAIN table : table'[k] = table[k]
    <3>1. table \in Seq(Topics)
      OBVIOUS
    <3>2. CASE table' = table
      BY <3>1, <3>2
    <3>3. CASE table' = Append(table, r.topic)
      BY <2>1, <3>1, <3>3, AppendKeeps
    <3> QED
      BY <2>2, <3>2, <3>3
  <2> QED
    BY <2>1, <2>3
<1>2. CASE AppendCallback
  <2>1. app.reg \in Registrations /\ app.reg.topic \in Topics /\ app.reg.cb \in Callbacks
    BY <1>2 DEF AppendCallback, Registering, Topics, Callbacks
  <2>2. table' = table
        /\ callbacks' = [callbacks EXCEPT ![app.reg.topic] = Append(@, app.reg.cb)]
    BY <1>2 DEF AppendCallback
  <2>3. ASSUME NEW t \in Topics
        PROVE  /\ Len(callbacks[t]) <= Len(callbacks'[t])
               /\ \A k \in DOMAIN callbacks[t] : callbacks'[t][k] = callbacks[t][k]
    <3>1. callbacks[t] \in Seq(Callbacks)
      OBVIOUS
    <3>2. CASE t = app.reg.topic
      BY <2>1, <2>2, <3>1, <3>2
    <3>3. CASE t # app.reg.topic
      BY <2>1, <2>2, <3>1, <3>3
    <3> QED
      BY <3>2, <3>3
  <2> QED
    BY <2>2, <2>3
<1>3. CASE UNCHANGED <<table, callbacks>>
  BY <1>3
<1>4. \/ UNCHANGED <<table, callbacks>> \/ AppendCallback
      \/ \E r \in Registrations : Subscribe(r)
  BY DEF Next, App, AppContinues, AppStarts, Net, Subscribe, CheckConnected,
     SendSubscribe, Connect, StopLoop, Disconnect, Connack, OnConnect, NextTopic,
     Transmit, OnMessage, CallBack, MessageDone, NoticeLoss, LoopEnds, DropLink,
     Publish, vars, client, bus
<1> QED
  BY <1>1, <1>2, <1>3, <1>4

\* What is registered stays registered.
LEMMA KeysStay ==
  ASSUME TypeOK, Grows, table' \in Seq(Topics), callbacks' \in [Topics -> Seq(Callbacks)]
  PROVE  /\ Keys \subseteq Keys'
         /\ LateKey => LateKey'
         /\ \A t \in Topics, cb \in Callbacks : Given(t, cb) => Given(t, cb)'
         /\ \A m \in Messages : Owes(m) => Owes(m)'
<1>1. DOMAIN table \subseteq DOMAIN table' /\ Keys \subseteq Keys'
  <2>1. table \in Seq(Topics) /\ table' \in Seq(Topics)
    BY DEF TypeOK
  <2>2. DOMAIN table \subseteq DOMAIN table'
    BY <2>1 DEF Grows
  <2> QED
    BY <2>2 DEF Grows, Keys
<1>2. ASSUME NEW t \in Topics PROVE DOMAIN callbacks[t] \subseteq DOMAIN callbacks'[t]
  <2>1. callbacks[t] \in Seq(Callbacks) /\ callbacks'[t] \in Seq(Callbacks)
    BY DEF TypeOK
  <2> QED
    BY <2>1 DEF Grows
<1>3. \A t \in Topics, cb \in Callbacks : Given(t, cb) => Given(t, cb)'
  BY <1>2 DEF Grows, Given
<1>4. \A m \in Messages : Owes(m) => Owes(m)'
  BY <1>3 DEF Owes, Messages
<1> QED
  BY <1>1, <1>3, <1>4 DEF LateKey

\* A new key is none of the old ones.
LEMMA KeyAppended ==
  ASSUME NEW r \in Registrations, table \in Seq(Topics), r.topic \notin Keys,
         table' = Append(table, r.topic)
  PROVE  /\ table' \in Seq(Topics) /\ Len(table') = Len(table) + 1
         /\ Keys' = Keys \cup {r.topic}
         /\ (\A j, k \in DOMAIN table : table[j] = table[k] => j = k)
            => \A j, k \in DOMAIN table' : table'[j] = table'[k] => j = k
<1>1. r.topic \in Topics
  BY DEF Topics
<1>2. /\ table' \in Seq(Topics) /\ Len(table') = Len(table) + 1
      /\ \A k \in 1..Len(table) : table'[k] = table[k]
      /\ table'[Len(table) + 1] = r.topic
      /\ DOMAIN table = 1..Len(table) /\ DOMAIN table' = 1..(Len(table) + 1)
      /\ Len(table) \in Nat
  BY <1>1, AppendKeeps
<1>3. Keys' = Keys \cup {r.topic}
  BY <1>2 DEF Keys
<1>4. \A k \in 1..Len(table) : table'[k] # r.topic
  BY <1>2 DEF Keys
<1> QED
  BY <1>2, <1>3, <1>4

\* TypeOK in two parts: what it says of the network thread, and the rest
NetOK ==
    /\ net \in [pc : {"unstarted", "offline", "hello", "greet", "loop", "dispatch",
                     "dead", "stopped"},
               i : Nat \ {0}, size : Nat, msg : Messages \cup {NoMsg}, given : SUBSET Callbacks]
    /\ net.pc = "greet" => net.i <= net.size + 1 /\ net.size <= Len(table)
    /\ net.pc = "dispatch" =>
          net.msg \in Messages /\ net.i <= Len(callbacks[net.msg.topic]) + 1

RestOK ==
    /\ table \in Seq(Topics)
    /\ \A j, k \in DOMAIN table : table[j] = table[k] => j = k
    /\ callbacks \in [Topics -> Seq(Callbacks)]
    /\ done \subseteq Registrations
    /\ app \in [pc : {"idle", "check", "send", "append", "join", "off"},
               reg : Registrations \cup {NoReg}]
    /\ outgoing \subseteq Keys /\ subs \subseteq Keys /\ inbox \in Seq(Messages)
    /\ connected \in BOOLEAN /\ link \in BOOLEAN
    /\ drops \in 0..MaxDrops /\ sent \in 0..MaxMessages

LEMMA TypeParts == (TypeOK <=> NetOK /\ RestOK) /\ (TypeOK' <=> NetOK' /\ RestOK')
  BY DEF TypeOK, NetOK, RestOK

LEMMA RestStep == TypeOK /\ Registering /\ [Next]_vars => RestOK'
<1> SUFFICES ASSUME NetOK, RestOK, Registering, [Next]_vars PROVE RestOK'
  BY TypeParts
<1> USE DEF RestOK
<1>1. ASSUME NEW r \in Registrations, Subscribe(r) PROVE RestOK'
  <2>1. /\ UNCHANGED <<callbacks, connected, outgoing, done, link, subs, inbox,
                       drops, sent>>
        /\ app' \in [pc : {"check", "append"}, reg : Registrations]
    BY <1>1 DEF Subscribe, bus
  <2>2. /\ table' \in Seq(Topics) /\ Keys \subseteq Keys'
        /\ \A j, k \in DOMAIN table' : table'[j] = table'[k] => j = k
    <3>1. CASE table' = table
      BY <3>1 DEF Keys
    <3>2. CASE r.topic \notin Keys /\ table' = Append(table, r.topic)
      <4>1. table \in Seq(Topics) /\ \A j, k \in DOMAIN table : table[j] = table[k] => j = k
        OBVIOUS
      <4> HIDE DEF RestOK
      <4> QED
        BY <3>2, <4>1, KeyAppended
    <3> QED
      BY <1>1, <3>1, <3>2 DEF Subscribe
  <2> QED
    BY <2>1, <2>2
<1>2. CASE CheckConnected \/ SendSubscribe \/ Connect \/ StopLoop
  <2>1. /\ UNCHANGED <<table, callbacks, connected, done, link, subs, inbox, drops, sent>>
        /\ outgoing' \subseteq Keys
    BY <1>2 DEF CheckConnected, SendSubscribe, Connect, StopLoop, client, bus, Registering
  <2>2. app' \in [pc : {"idle", "check", "send", "append", "join", "off"},
                  reg : Registrations \cup {NoReg}]
    BY <1>2 DEF CheckConnected, SendSubscribe, Connect, StopLoop, AppAt
  <2>3. Keys' = Keys
    BY <2>1 DEF Keys
  <2> QED
    BY <2>1, <2>2, <2>3
<1>3. CASE AppendCallback
  <2>1. /\ UNCHANGED <<table, connected, outgoing, link, subs, inbox, drops, sent>>
        /\ app.reg \in Registrations /\ done' = done \cup {app.reg}
        /\ app' = AppAt("idle")
        /\ callbacks' = [callbacks EXCEPT ![app.reg.topic] = Append(@, app.reg.cb)]
    BY <1>3 DEF AppendCallback, bus, Registering
  <2>2. app.reg.topic \in Topics /\ app.reg.cb \in Callbacks
    BY <2>1 DEF Topics, Callbacks
  <2>3. callbacks' \in [Topics -> Seq(Callbacks)]
    BY <2>1, <2>2, AppendKeeps
  <2>4. Keys' = Keys
    BY <2>1 DEF Keys
  <2> QED
    BY <2>1, <2>3, <2>4 DEF AppAt
<1>4. CASE Disconnect \/ Connack \/ NoticeLoss \/ LoopEnds \/ OnConnect
           \/ CallBack \/ MessageDone
  <2>1. /\ UNCHANGED <<table, callbacks, done, drops, sent>>
        /\ outgoing' = outgoing \/ outgoing' = {}
        /\ subs' = subs \/ subs' = {}
        /\ inbox' = inbox \/ inbox' = <<>>
        /\ connected' \in BOOLEAN /\ link' \in BOOLEAN
        /\ app' = app \/ app' = AppAt("off")
    BY <1>4 DEF Disconnect, Connack, NoticeLoss, LoopEnds, OnConnect, CallBack,
       MessageDone, client, bus
  <2>2. Keys' = Keys
    BY <2>1 DEF Keys
  <2>3. subs' \subseteq Keys /\ outgoing' \subseteq Keys
    BY <2>1
  <2>4. inbox' \in Seq(Messages)
    <3>1. inbox \in Seq(Messages) /\ <<>> \in Seq(Messages)
      OBVIOUS
    <3> QED
      BY <2>1, <3>1
  <2> QED
    BY <2>1, <2>2, <2>3, <2>4 DEF AppAt
<1>5. CASE NextTopic
  <2>1. /\ UNCHANGED <<table, callbacks, connected, app, done, link, subs, inbox, drops, sent>>
        /\ Keys' = Keys
    BY <1>5 DEF NextTopic, bus, Keys
  <2>2. \/ outgoing' = outgoing
        \/ outgoing' = outgoing \cup {table[net.i]} /\ ~ (net.i > Len(table))
    BY <1>5 DEF NextTopic
  <2>3. net.i \in Nat \ {0} /\ Len(table) \in Nat /\ DOMAIN table = 1..Len(table)
    BY DEF NetOK
  <2>4. outgoing' \subseteq Keys
    BY <2>2, <2>3 DEF Keys
  <2> QED
    BY <2>1, <2>4
<1>6. CASE OnMessage
  <2>1. inbox' \in Seq(Messages)
    BY <1>6 DEF OnMessage
  <2>2. /\ UNCHANGED <<table, callbacks, connected, outgoing, app, done, link, subs,
                       drops, sent>>
        /\ Keys' = Keys
    BY <1>6 DEF OnMessage, client, Keys
  <2> QED
    BY <2>1, <2>2
<1>7. ASSUME NEW t \in Topics, Transmit(t) PROVE RestOK'
  <2>1. /\ UNCHANGED <<table, callbacks, connected, app, done, link, inbox, drops, sent>>
        /\ outgoing' \subseteq outgoing /\ subs' \subseteq Keys
    BY <1>7 DEF Transmit
  <2>2. Keys' = Keys
    BY <2>1 DEF Keys
  <2> QED
    BY <2>1, <2>2
<1>8. CASE DropLink
  <2>1. /\ UNCHANGED <<table, callbacks, connected, outgoing, app, done, sent>>
        /\ link' = FALSE /\ subs' = {} /\ inbox' = <<>> /\ drops' \in 0..MaxDrops
    BY <1>8, BusAssumption DEF DropLink, client
  <2>2. Keys' = Keys
    BY <2>1 DEF Keys
  <2>3. inbox' \in Seq(Messages)
    BY <2>1
  <2> QED
    BY <2>1, <2>2, <2>3
<1>9. ASSUME NEW t \in Topics, Publish(t) PROVE RestOK'
  <2>1. /\ UNCHANGED <<table, callbacks, connected, outgoing, app, done, link, subs, drops>>
        /\ sent' \in 0..MaxMessages
    BY <1>9, BusAssumption DEF Publish, client
  <2>2. [topic |-> t, owed |-> {r.cb : r \in {q \in done : q.topic = t}}] \in Messages
    BY DEF Messages, Callbacks
  <2>3. inbox' \in Seq(Messages)
    BY <1>9, <2>2 DEF Publish
  <2>4. Keys' = Keys
    BY <2>1 DEF Keys
  <2> QED
    BY <2>1, <2>3, <2>4
<1>10. CASE UNCHANGED vars
  BY <1>10 DEF vars, client, bus, Keys
<1> QED
  BY <1>1, <1>2, <1>3, <1>4, <1>5, <1>6, <1>7, <1>8, <1>9, <1>10
     DEF Next, App, AppContinues, AppStarts, Net, Registrations

LEMMA NetStep == TypeOK /\ Registering /\ [Next]_vars => NetOK'
<1> SUFFICES ASSUME TypeOK, Registering, [Next]_vars PROVE NetOK'
  OBVIOUS
<1>0. /\ Grows /\ NetOK /\ RestOK
      /\ \A t \in Topics : Len(callbacks[t]) \in Nat /\ Len(callbacks'[t]) \in Nat
      /\ Len(table) \in Nat /\ Len(table') \in Nat
  BY StepGrows, RestStep, TypeParts DEF RestOK
<1>1. CASE UNCHANGED net
  <2>1. net.msg \in Messages => net.msg.topic \in Topics
    BY DEF Messages
  <2> QED
    BY <1>0, <1>1, <2>1 DEF NetOK, Grows
<1>2. ASSUME NEW pc \in {"offline", "hello", "loop", "dead", "stopped"}, net' = NetAt(pc)
      PROVE  NetOK'
  BY <1>2 DEF NetOK, NetAt
<1>3. CASE OnConnect
  <2>1. net' = [NetAt("greet") EXCEPT !.size = Len(table)] /\ table' = table
    BY <1>3 DEF OnConnect, client
  <2> QED
    BY <1>0, <2>1 DEF NetOK, NetAt
<1>4. CASE net.pc = "greet" /\ net' = [net EXCEPT !.i = @ + 1] /\ table' = table
           /\ Len(table) = net.size /\ ~ (net.i > Len(table))
  BY <1>0, <1>4 DEF NetOK
<1>5. CASE OnMessage
  <2>1. /\ Head(inbox) \in Messages /\ callbacks' = callbacks
        /\ net' = [NetAt("dispatch") EXCEPT !.msg = Head(inbox)]
    BY <1>0, <1>5 DEF OnMessage, client, RestOK
  <2>2. Head(inbox).topic \in Topics
    BY <2>1 DEF Messages
  <2> QED
    BY <1>0, <2>1, <2>2 DEF NetOK, NetAt
<1>6. CASE CallBack
  <2>1. /\ net' = [net EXCEPT !.i = @ + 1, !.given = Called] /\ callbacks' = callbacks
        /\ net.pc = "dispatch" /\ net.i <= Len(callbacks[net.msg.topic])
    BY <1>6 DEF CallBack, AfterCallback, client
  <2>2. net.msg.topic \in Topics
    BY <1>0, <2>1 DEF NetOK, Messages
  <2>3. callbacks[net.msg.topic] \in Seq(Callbacks) /\ net.i \in Nat \ {0}
    BY <1>0, <2>2 DEF NetOK, RestOK
  <2>4. Called \in SUBSET Callbacks
    BY <1>0, <2>1, <2>3 DEF NetOK, Called
  <2>5. /\ net.i + 1 \in Nat \ {0} /\ net.i + 1 <= Len(callbacks[net.msg.topic]) + 1
        /\ net.msg \in Messages
    BY <1>0, <2>1, <2>2, <2>3 DEF NetOK
  <2>6. /\ net'.pc = "dispatch" /\ net'.i = net.i + 1 /\ net'.msg = net.msg
        /\ net' \in [pc : {"unstarted", "offline", "hello", "greet", "loop", "dispatch",
                          "dead", "stopped"},
                    i : Nat \ {0}, size : Nat, msg : Messages \cup {NoMsg},
                    given : SUBSET Callbacks]
    BY <1>0, <2>1, <2>4, <2>5 DEF NetOK
  <2> QED
    BY <2>1, <2>5, <2>6 DEF NetOK
<1>7. CASE MessageDone
  <2>1. net' = [pc |-> "loop", i |-> 1, size |-> 0, msg |-> net.msg, given |-> net.given]
    BY <1>7 DEF MessageDone, NetAt
  <2>2. net.msg \in Messages \cup {NoMsg} /\ net.given \in SUBSET Callbacks
    BY <1>0 DEF NetOK
  <2> QED
    BY <2>1, <2>2 DEF NetOK
<1>8. CASE NextTopic
  BY <1>2, <1>4, <1>8 DEF NextTopic
<1> QED
  BY <1>1, <1>2, <1>3, <1>5, <1>6, <1>7, <1>8
     DEF Next, App, AppContinues, AppStarts, Net, Subscribe, CheckConnected,
     SendSubscribe, AppendCallback, Connect, StopLoop, Disconnect, Connack,
     Transmit, NoticeLoss, LoopEnds, DropLink, Publish, vars

LEMMA TypeStep == TypeOK /\ Registering /\ [Next]_vars => TypeOK'
  BY RestStep, NetStep, TypeParts

\* What every step has, once its types are known
Typed == TypeOK /\ TypeOK' /\ Grows /\ [Next]_vars

LEMMA StepTyped ==
  ASSUME TypeOK, Registering, [Next]_vars
  PROVE  /\ Typed
         /\ Keys \subseteq Keys' /\ (LateKey => LateKey')
         /\ \A t \in Topics, cb \in Callbacks : Given(t, cb) => Given(t, cb)'
         /\ \A m \in Messages : Owes(m) => Owes(m)'
<1>1. TypeOK' /\ Grows
  BY TypeStep, StepGrows
<1>2. table' \in Seq(Topics) /\ callbacks' \in [Topics -> Seq(Callbacks)]
  BY <1>1 DEF TypeOK
<1> QED
  BY <1>1, <1>2, KeysStay DEF Typed

LEMMA RegisteringStep == TypeOK /\ Registering /\ [Next]_vars => Registering'
<1> SUFFICES ASSUME TypeOK, Registering, [Next]_vars PROVE Registering'
  OBVIOUS
<1>0. /\ Typed /\ Keys \subseteq Keys' /\ done \subseteq Registrations
      /\ \A t \in Topics, cb \in Callbacks : Given(t, cb) => Given(t, cb)'
  BY StepTyped DEF TypeOK
<1>1. \A r \in Registrations : r.topic \in Topics /\ r.cb \in Callbacks
  BY DEF Topics, Callbacks
<1>2. \A r \in done : r.topic \in Keys' /\ Given(r.topic, r.cb)'
  BY <1>0, <1>1 DEF Registering
<1>3. ASSUME NEW r \in Registrations, Subscribe(r) PROVE Registering'
  <2>1. /\ app'.reg = r /\ UNCHANGED <<done, net>>
        /\ r.topic \in Keys \/ table' = Append(table, r.topic)
    BY <1>3 DEF Subscribe
  <2>2. r.topic \in Keys'
    <3>1. CASE r.topic \in Keys
      BY <1>0, <3>1
    <3>2. CASE r.topic \notin Keys /\ table' = Append(table, r.topic)
      BY <3>2, KeyAppended DEF TypeOK
    <3> QED
      BY <2>1, <3>1, <3>2
  <2> QED
    BY <1>2, <2>1, <2>2 DEF Registering
<1>4. CASE AppendCallback
  <2>1. /\ app' = AppAt("idle") /\ UNCHANGED <<table, net>> /\ done' = done \cup {app.reg}
        /\ app.reg \in Registrations /\ app.reg.topic \in Keys
        /\ callbacks' = [callbacks EXCEPT ![app.reg.topic] = Append(@, app.reg.cb)]
    BY <1>4 DEF AppendCallback, Registering
  <2>2. callbacks[app.reg.topic] \in Seq(Callbacks) /\ app.reg.topic \in Topics
        /\ app.reg.cb \in Callbacks
    BY <1>1, <2>1 DEF TypeOK
  <2>3. callbacks'[app.reg.topic] = Append(callbacks[app.reg.topic], app.reg.cb)
    BY <2>1, <2>2 DEF TypeOK
  <2>4. ASSUME NEW t \in Topics, NEW cb \in Callbacks, t = app.reg.topic, cb = app.reg.cb
        PROVE  Given(t, cb)'
    <3>1. callbacks'[t] = Append(callbacks[t], cb) /\ callbacks[t] \in Seq(Callbacks)
      BY <2>2, <2>3, <2>4
    <3>2. Len(callbacks[t]) \in Nat
      BY <3>1
    <3>3. /\ Len(callbacks[t]) + 1 \in DOMAIN callbacks'[t]
          /\ callbacks'[t][Len(callbacks[t]) + 1] = cb
      BY <3>1, <3>2, AppendKeeps
    <3> QED
      BY <3>3 DEF Given
  <2>5. \A r \in done' : r.topic \in Keys' /\ Given(r.topic, r.cb)'
    BY <1>0, <1>2, <2>1, <2>2, <2>4
  <2> QED
    BY <2>1, <2>5 DEF Registering, AppAt
<1>5. CASE Connect
  <2>1. UNCHANGED <<table, callbacks, app, done>> /\ Early \subseteq done
    BY <1>5 DEF Connect, client
  <2> QED
    BY <1>0, <1>2, <2>1 DEF Registering
<1>6. CASE UNCHANGED <<done, app>> /\ (net'.pc # "unstarted" => net.pc # "unstarted")
  BY <1>0, <1>2, <1>6 DEF Registering
<1>7. CASE CheckConnected \/ SendSubscribe \/ StopLoop \/ Disconnect
  <2>1. /\ UNCHANGED <<done, net>>
        /\ \/ app.pc \in {"check", "send"} /\ app'.reg = app.reg
           \/ app'.pc \in {"join", "off"}
    BY <1>7 DEF CheckConnected, SendSubscribe, StopLoop, Disconnect, AppAt, TypeOK
  <2> QED
    BY <1>0, <1>2, <2>1 DEF Registering
<1>8. CASE Connack \/ OnConnect \/ NextTopic \/ OnMessage \/ CallBack \/ MessageDone
           \/ NoticeLoss \/ LoopEnds
  BY <1>6, <1>8 DEF Connack, OnConnect, NextTopic, OnMessage, CallBack, MessageDone,
     NoticeLoss, LoopEnds, NetAt
<1>9. CASE DropLink \/ (\E t \in Topics : Publish(t) \/ Transmit(t)) \/ UNCHANGED vars
  BY <1>6, <1>9 DEF DropLink, Publish, Transmit, vars
<1> QED
  BY <1>3, <1>4, <1>5, <1>7, <1>8, <1>9
     DEF Next, App, AppContinues, AppStarts, Net, Registrations

\* A topic that comes into the dictionary after the start is a late one.
LEMMA NewKeyIsLate ==
  ASSUME TypeOK, Registering, [Next]_vars, net.pc # "unstarted",
         Len(table') # Len(table)
  PROVE  LateKey'
<1>1. PICK r \in Registrations : Subscribe(r)
  BY DEF Next, App, AppContinues, AppStarts, Net, CheckConnected, SendSubscribe,
     AppendCallback, Connect, StopLoop, Disconnect, Connack, OnConnect, NextTopic,
     Transmit, OnMessage, CallBack, MessageDone, NoticeLoss, LoopEnds, DropLink,
     Publish, vars, client, bus, Registrations
<1>2. r.topic \notin Keys /\ table' = Append(table, r.topic)
  BY <1>1 DEF Subscribe
<1>3. r.topic \in Keys'
  BY <1>2, KeyAppended DEF TypeOK
<1>4. r.topic \notin {e.topic : e \in Early}
  BY <1>2 DEF Registering
<1> QED
  BY <1>3, <1>4 DEF LateKey

\* A callback leaves the network thread where it is.
LEMMA CallBackStays ==
  ASSUME TypeOK, CallBack
  PROVE  /\ net.pc = "dispatch" /\ net'.pc = "dispatch" /\ net'.msg = net.msg
         /\ net'.i = net.i + 1 /\ net.i \in Nat
         /\ net'.given = net.given \cup {callbacks[net.msg.topic][net.i]}
         /\ UNCHANGED <<client, app, done, bus>>
  BY DEF TypeOK, CallBack, AfterCallback, Called

\* on_connect's place in the dictionary
LEMMA GreetingStep ==
  TypeOK /\ Registering /\ Greeting /\ [Next]_vars => Greeting'
<1> SUFFICES ASSUME TypeOK, Registering, Greeting, [Next]_vars PROVE Greeting'
  OBVIOUS
<1>0. /\ TypeOK' /\ Grows /\ Keys \subseteq Keys' /\ (LateKey => LateKey')
      /\ Len(table) \in Nat /\ Len(table') \in Nat
      /\ DOMAIN table = 1..Len(table) /\ DOMAIN table' = 1..Len(table')
      /\ net.i \in Nat /\ net.size \in Nat
  BY StepTyped DEF Typed, TypeOK
<1> DEFINE Online(n) == n.pc \in {"hello", "greet", "loop", "dispatch"}
<1>1. CASE net' = net /\ connected' = connected /\ link' = link
           /\ subs \cup outgoing \subseteq subs' \cup outgoing'
  <2>1. Online(net') => connected'
    BY <1>1 DEF Greeting
  <2>2. net'.pc = "greet" =>
          \A k \in DOMAIN table' : k < net'.i /\ link' => table'[k] \in subs' \cup outgoing'
    <3> SUFFICES ASSUME net.pc = "greet", NEW k \in DOMAIN table', k < net.i, link
                 PROVE  table'[k] \in subs' \cup outgoing'
      BY <1>1
    <3>1. net.i <= Len(table) + 1
      BY <1>0 DEF TypeOK
    <3>2. k \in DOMAIN table
      BY <1>0, <3>1
    <3> QED
      BY <1>0, <1>1, <3>2 DEF Greeting, Grows
  <2>3. net'.pc = "greet" /\ Len(table') # net'.size => LateKey'
    BY <1>0, <1>1, NewKeyIsLate DEF Greeting
  <2> QED
    BY <2>1, <2>2, <2>3 DEF Greeting
<1>2. CASE net'.pc # "greet" /\ (Online(net') => connected')
  BY <1>2 DEF Greeting
<1>3. CASE OnConnect
  <2>1. /\ net' = [NetAt("greet") EXCEPT !.size = Len(table)]
        /\ net.pc = "hello" /\ table' = table /\ connected' = connected
    BY <1>3 DEF OnConnect, client
  <2>2. net'.pc = "greet" /\ net'.i = 1 /\ net'.size = Len(table)
    BY <2>1 DEF NetAt
  <2>3. connected'
    BY <2>1 DEF Greeting
  <2> QED
    BY <1>0, <2>1, <2>2, <2>3 DEF Greeting
<1>4. CASE NextTopic
  <2>1. net.pc = "greet" /\ table' = table /\ connected' = connected
        /\ link' = link /\ subs' = subs /\ connected
    BY <1>4 DEF NextTopic, bus, Greeting
  <2>2. CASE net' = NetAt("dead") \/ net' = NetAt("loop")
    BY <1>2, <2>1, <2>2 DEF NetAt
  <2>3. CASE /\ Len(table) = net.size /\ outgoing' = outgoing \cup {table[net.i]}
             /\ net' = [net EXCEPT !.i = @ + 1]
    <3>1. net'.i = net.i + 1 /\ net'.size = net.size /\ net'.pc = "greet"
      BY <2>1, <2>3 DEF TypeOK
    <3>2. \A k \in DOMAIN table : k < net.i + 1 => k < net.i \/ k = net.i
      BY <1>0
    <3>3. \A k \in DOMAIN table : k < net.i + 1 /\ link => table[k] \in subs \cup outgoing'
      BY <2>1, <2>3, <3>2 DEF Greeting
    <3> QED
      BY <2>1, <2>3, <3>1, <3>3 DEF Greeting
  <2> QED
    BY <1>4, <2>2, <2>3 DEF NextTopic
<1>5. CASE Disconnect
  BY <1>2, <1>5 DEF Disconnect, Ended
<1>6. CASE Connack \/ OnMessage \/ CallBack \/ MessageDone \/ NoticeLoss
           \/ LoopEnds \/ Connect
  <2>1. CASE CallBack
    BY <1>2, <2>1, CallBackStays DEF Greeting, client
  <2>2. CASE OnMessage \/ MessageDone
    BY <1>2, <2>2 DEF OnMessage, MessageDone, NetAt, Greeting, client
  <2>3. CASE Connack \/ NoticeLoss \/ LoopEnds \/ Connect
    BY <1>2, <2>3 DEF Connack, NoticeLoss, LoopEnds, Connect, NetAt
  <2> QED
    BY <1>6, <2>1, <2>2, <2>3
<1>7. CASE DropLink
  <2>1. net' = net /\ table' = table /\ connected' = connected /\ link' = FALSE
    BY <1>7 DEF DropLink, client
  <2> QED
    BY <1>0, <2>1 DEF Greeting
<1>8. CASE \E t \in Topics : Transmit(t)
  BY <1>2, <1>8 DEF Transmit, Greeting
<1>9. CASE (\E r \in Registrations : Subscribe(r)) \/ AppendCallback \/ StopLoop
           \/ CheckConnected \/ SendSubscribe \/ (\E t \in Topics : Publish(t))
           \/ UNCHANGED vars
  BY <1>1, <1>9 DEF Subscribe, AppendCallback, StopLoop, CheckConnected, SendSubscribe,
     Publish, vars, client, bus
<1> QED
  BY <1>3, <1>4, <1>5, <1>6, <1>7, <1>8, <1>9
     DEF Next, App, AppContinues, AppStarts, Net, Registrations

\* The network thread only dies of a topic that is not early.
LEMMA DiesStep ==
  TypeOK /\ Registering /\ Greeting /\ DiesOfLateTopics /\ [Next]_vars
  => DiesOfLateTopics'
<1> SUFFICES ASSUME TypeOK, Registering, Greeting, DiesOfLateTopics, [Next]_vars,
                    net'.pc = "dead"
             PROVE  LateKey'
  BY DEF DiesOfLateTopics, LateKey
<1>0. LateKey => LateKey'
  BY StepTyped
<1>1. CASE net' = net
  BY <1>0, <1>1 DEF DiesOfLateTopics, LateKey
<1>2. CASE NextTopic
  <2>1. net.pc = "greet" /\ Len(table) # net.size
    BY <1>2 DEF NextTopic, NetAt, TypeOK
  <2> QED
    BY <1>0, <2>1 DEF Greeting
<1>3. ~ (Connect \/ Connack \/ OnConnect \/ OnMessage \/ CallBack \/ MessageDone
         \/ NoticeLoss \/ LoopEnds)
  <2>1. ~ CallBack
    BY CallBackStays
  <2>2. ~ (OnConnect \/ OnMessage \/ MessageDone)
    BY DEF OnConnect, OnMessage, MessageDone, NetAt
  <2>3. ~ (Connect \/ Connack \/ NoticeLoss \/ LoopEnds)
    <3>1. \A pc \in {"offline", "hello", "stopped"} : net' # NetAt(pc)
      BY DEF NetAt
    <3> QED
      BY <3>1 DEF Connect, Connack, NoticeLoss, LoopEnds
  <2> QED
    BY <2>1, <2>2, <2>3
<1> QED
  BY <1>1, <1>2, <1>3
     DEF Next, App, AppContinues, AppStarts, Net, Subscribe, CheckConnected,
     SendSubscribe, AppendCallback, StopLoop, Disconnect, Transmit, DropLink,
     Publish, vars

\* The broker is told of every key, whatever the order of the two threads.
LEMMA CompleteStep ==
  TypeOK /\ Registering /\ Greeting /\ SubscriptionsComplete /\ [Next]_vars
  => SubscriptionsComplete'
<1> DEFINE Told(t) == t \in subs \cup outgoing
           Pending(t) == app.pc \in {"check", "send"} /\ app.reg.topic = t
           Serving == net.pc \in {"loop", "dispatch"} /\ link
<1> SUFFICES ASSUME TypeOK, Registering, Greeting, SubscriptionsComplete, [Next]_vars,
                    Serving', NEW t \in Keys'
             PROVE  Told(t)' \/ Pending(t)'
  BY DEF SubscriptionsComplete
<1>0. Serving /\ t \in Keys => Told(t) \/ Pending(t)
  BY DEF SubscriptionsComplete
<1>1. CASE NextTopic
  <2>1. /\ net.pc = "greet" /\ net.i > Len(table) /\ table' = table /\ link
        /\ outgoing' = outgoing /\ subs' = subs
    <3>1. net.pc = "greet" /\ net'.pc # "greet" /\ net' # NetAt("dead")
      BY <1>1 DEF NextTopic, NetAt
    <3>2. net' # [net EXCEPT !.i = @ + 1]
      BY <3>1 DEF TypeOK
    <3> QED
      BY <1>1, <3>1, <3>2 DEF NextTopic, bus
  <2>2. PICK k \in DOMAIN table : table[k] = t
    BY <2>1 DEF Keys
  <2>3. k < net.i
    BY <2>1 DEF TypeOK
  <2> QED
    BY <2>1, <2>2, <2>3 DEF Greeting
<1>2. CASE OnMessage \/ CallBack \/ MessageDone
  <2>1. /\ UNCHANGED <<table, outgoing, app, link, subs>>
        /\ net.pc \in {"loop", "dispatch"}
    BY <1>2 DEF OnMessage, CallBack, MessageDone, client, bus
  <2> QED
    BY <1>0, <2>1 DEF Keys
<1>3. ASSUME NEW u \in Topics, Transmit(u) PROVE Told(t)' \/ Pending(t)'
  <2>1. /\ UNCHANGED <<table, app, net, link>>
        /\ outgoing' = outgoing \ {u} /\ subs' = subs \cup {u}
    BY <1>3 DEF Transmit
  <2> QED
    BY <1>0, <2>1 DEF Keys
<1>4. ASSUME NEW r \in Registrations, Subscribe(r) PROVE Told(t)' \/ Pending(t)'
  <2>1. UNCHANGED <<outgoing, net, link, subs>> /\ app.pc = "idle"
    BY <1>4 DEF Subscribe, bus
  <2>2. CASE table' = table
    BY <1>0, <2>1, <2>2 DEF Keys
  <2>3. CASE /\ r.topic \notin Keys /\ table' = Append(table, r.topic)
             /\ app' = [pc |-> "check", reg |-> r]
    <3>1. t \in Keys \cup {r.topic}
      BY <2>3, KeyAppended DEF TypeOK
    <3> QED
      BY <1>0, <2>1, <2>3, <3>1
  <2> QED
    BY <1>4, <2>2, <2>3 DEF Subscribe
<1>5. CASE CheckConnected \/ SendSubscribe \/ AppendCallback \/ StopLoop
  <2>1. UNCHANGED <<table, net, link, subs>> /\ Serving /\ connected
    BY <1>5 DEF CheckConnected, SendSubscribe, AppendCallback, StopLoop, bus, client,
       Greeting
  <2>2. t \in Keys
    BY <2>1 DEF Keys
  <2>3. CASE CheckConnected
    <3>1. app' = [app EXCEPT !.pc = "send"] /\ outgoing' = outgoing
      BY <2>1, <2>3 DEF CheckConnected, client
    <3>2. app'.pc = "send" /\ app'.reg = app.reg
      BY <3>1 DEF TypeOK
    <3> QED
      BY <1>0, <2>1, <2>2, <3>1, <3>2
  <2>4. CASE SendSubscribe
    BY <1>0, <2>1, <2>2, <2>4 DEF SendSubscribe
  <2>5. CASE AppendCallback \/ StopLoop
    BY <1>0, <2>1, <2>2, <2>5 DEF AppendCallback, StopLoop, client
  <2> QED
    BY <1>5, <2>3, <2>4, <2>5
<1>6. CASE (\E u \in Topics : Publish(u)) \/ UNCHANGED vars
  <2>1. UNCHANGED <<table, outgoing, app, net, link, subs>>
    BY <1>6 DEF Publish, vars, client, bus
  <2> QED
    BY <1>0, <2>1 DEF Keys
<1>7. ~ (Connect \/ Connack \/ NoticeLoss \/ LoopEnds \/ OnConnect)
  <2>1. ~ OnConnect
    BY DEF OnConnect, NetAt
  <2>2. ~ (Connect \/ Connack \/ NoticeLoss \/ LoopEnds)
    <3>1. \A pc \in {"offline", "hello", "stopped"} : net' # NetAt(pc)
      BY DEF NetAt
    <3> QED
      BY <3>1 DEF Connect, Connack, NoticeLoss, LoopEnds
  <2> QED
    BY <2>1, <2>2
<1>8. ~ (Disconnect \/ DropLink)
  BY DEF Disconnect, DropLink
<1> QED
  BY <1>1, <1>2, <1>3, <1>4, <1>5, <1>6, <1>7, <1>8
     DEF Next, App, AppContinues, AppStarts, Net, Registrations

\* on_message's place in a list of callbacks
LEMMA DispatchingStep ==
  TypeOK /\ Registering /\ Dispatching /\ [Next]_vars => Dispatching'
<1> SUFFICES ASSUME TypeOK, Registering, Dispatching, [Next]_vars PROVE Dispatching'
  OBVIOUS
<1>0. /\ TypeOK' /\ Grows
      /\ \A m \in Messages : Owes(m) => Owes(m)'
  BY StepTyped DEF Typed
<1> DEFINE Passed == net.pc = "dispatch" =>
             \A k \in DOMAIN callbacks[net.msg.topic] :
                k < net.i => callbacks[net.msg.topic][k] \in net.given
           Owing == \A k \in DOMAIN inbox : Owes(inbox[k])
           OwesNow == net.pc = "dispatch" => Owes(net.msg)
<1>1. CASE inbox' = inbox
  <2>1. Owing'
    BY <1>0, <1>1 DEF Dispatching, TypeOK
  <2>2. CASE net'.pc # "dispatch"
    BY <2>1, <2>2 DEF Dispatching
  <2>3. CASE net' = net /\ net.pc = "dispatch"
    <3>1. OwesNow'
      BY <1>0, <2>3 DEF Dispatching, TypeOK
    <3>2. ASSUME NEW k \in DOMAIN callbacks'[net.msg.topic], k < net.i
          PROVE  callbacks'[net.msg.topic][k] \in net.given
      <4>1. /\ net.msg.topic \in Topics /\ net.i <= Len(callbacks[net.msg.topic]) + 1
            /\ net.i \in Nat
        BY <2>3 DEF TypeOK, Messages
      <4>2. callbacks[net.msg.topic] \in Seq(Callbacks) /\ callbacks'[net.msg.topic] \in Seq(Callbacks)
        BY <1>0, <4>1 DEF TypeOK
      <4>3. k \in DOMAIN callbacks[net.msg.topic]
        BY <3>2, <4>1, <4>2
      <4> QED
        BY <1>0, <2>3, <3>2, <4>1, <4>3 DEF Dispatching, Grows
    <3> QED
      BY <2>1, <2>3, <3>1, <3>2 DEF Dispatching
  <2>4. CASE CallBack
    <3>1. /\ net.pc = "dispatch" /\ net'.pc = "dispatch" /\ net'.msg = net.msg
          /\ net'.i = net.i + 1 /\ net.i \in Nat /\ callbacks' = callbacks
          /\ net'.given = net.given \cup {callbacks[net.msg.topic][net.i]}
      BY <2>4, CallBackStays DEF client
    <3>2. OwesNow'
      <4>1. net.msg \in Messages /\ Owes(net.msg)
        BY <3>1 DEF Dispatching, TypeOK
      <4> QED
        BY <1>0, <3>1, <4>1
    <3>3. ASSUME NEW k \in DOMAIN callbacks[net.msg.topic], k < net.i + 1
          PROVE  callbacks[net.msg.topic][k] \in net'.given
      <4>1. callbacks[net.msg.topic] \in Seq(Callbacks)
        BY <3>1 DEF TypeOK, Messages
      <4>2. k < net.i \/ k = net.i
        BY <3>1, <3>3, <4>1
      <4> QED
        BY <3>1, <4>2 DEF Dispatching
    <3> QED
      BY <2>1, <3>1, <3>2, <3>3 DEF Dispatching
  <2>5. net'.pc # "dispatch" \/ net' = net \/ CallBack
    <3>1. ~ OnMessage
      <4>1. inbox \in Seq(Messages)
        BY DEF TypeOK
      <4> QED
        BY <1>1, <4>1 DEF OnMessage
    <3>2. CASE MessageDone \/ OnConnect
      BY <3>2 DEF MessageDone, OnConnect, NetAt
    <3>3. CASE NextTopic
      <4>1. net.pc = "greet" /\ [net EXCEPT !.i = @ + 1].pc = "greet"
        BY <3>3 DEF NextTopic, TypeOK
      <4>2. NetAt("dead").pc = "dead" /\ NetAt("loop").pc = "loop"
        BY DEF NetAt
      <4>3. net' \in {NetAt("dead"), NetAt("loop"), [net EXCEPT !.i = @ + 1]}
        BY <3>3 DEF NextTopic
      <4>4. net'.pc # "dispatch"
        BY <4>1, <4>2, <4>3
      <4> QED
        BY <4>4
    <3>4. CASE Connect \/ Connack \/ NoticeLoss \/ LoopEnds
      <4>1. \A pc \in {"offline", "hello", "stopped"} : NetAt(pc).pc # "dispatch"
        BY DEF NetAt
      <4> QED
        BY <3>4, <4>1 DEF Connect, Connack, NoticeLoss, LoopEnds
    <3>5. \/ net' = net
          \/ Connect \/ Connack \/ OnConnect \/ NextTopic \/ OnMessage \/ CallBack
          \/ MessageDone \/ NoticeLoss \/ LoopEnds
      BY DEF Next, App, AppContinues, AppStarts, Net, Subscribe, CheckConnected,
         SendSubscribe, AppendCallback, StopLoop, Disconnect, Transmit, DropLink,
         Publish, vars
    <3> QED
      BY <3>1, <3>2, <3>3, <3>4, <3>5
  <2> QED
    BY <2>2, <2>3, <2>4, <2>5
<1>2. CASE OnMessage
  <2>1. /\ inbox # <<>> /\ inbox' = Tail(inbox) /\ callbacks' = callbacks
        /\ net'.pc = "dispatch" /\ net'.msg = Head(inbox) /\ net'.i = 1
    BY <1>2 DEF OnMessage, NetAt, client
  <2>2. inbox \in Seq(Messages) /\ Head(inbox) \in Messages /\ Owes(Head(inbox))
    BY <2>1 DEF TypeOK, Dispatching
  <2>3. Owing'
    <3>1. \A k \in DOMAIN inbox' : k + 1 \in DOMAIN inbox /\ inbox'[k] = inbox[k + 1]
      BY <2>1, <2>2
    <3>2. \A k \in DOMAIN inbox : inbox[k] \in Messages
      BY <2>2
    <3>3. \A m \in Messages : Owes(m) => Owes(m)'
      BY <1>0
    <3>4. \A k \in DOMAIN inbox' : inbox'[k] \in Messages /\ Owes(inbox'[k])
      BY <3>1, <3>2 DEF Dispatching
    <3> QED
      BY <2>1, <3>4 DEF Owes, Given
  <2>4. OwesNow'
    BY <2>1, <2>2 DEF Owes, Given
  <2>5. Passed'
    <3>1. callbacks'[net'.msg.topic] \in Seq(Callbacks)
      BY <1>0, <2>1, <2>2 DEF TypeOK, Messages
    <3> QED
      BY <2>1, <3>1
  <2> QED
    BY <2>3, <2>4, <2>5 DEF Dispatching
<1>3. CASE inbox' = <<>> /\ (net' = net \/ net'.pc # "dispatch") /\ callbacks' = callbacks
  <2>1. OwesNow' /\ Passed'
    BY <1>3 DEF Dispatching, Owes, Given
  <2> QED
    BY <1>3, <2>1 DEF Dispatching
<1>4. ASSUME NEW t \in Topics, Publish(t) PROVE Dispatching'
  <2>1. net' = net /\ callbacks' = callbacks
    BY <1>4 DEF Publish, client
  <2>2. OwesNow' /\ Passed'
    BY <2>1 DEF Dispatching, Owes, Given
  <2> DEFINE m == [topic |-> t, owed |-> {r.cb : r \in {q \in done : q.topic = t}}]
  <2>3. inbox' = Append(inbox, m) /\ m \in Messages
    BY <1>4 DEF Publish, Messages, Callbacks, TypeOK
  <2>4. Owes(m)
    BY DEF Owes, Registering
  <2>5. ASSUME NEW k \in DOMAIN inbox' PROVE inbox'[k] \in Messages /\ Owes(inbox'[k])
    <3>1. inbox \in Seq(Messages) /\ Len(inbox) \in Nat
      BY DEF TypeOK
    <3>2. (k \in DOMAIN inbox /\ inbox'[k] = inbox[k]) \/ inbox'[k] = m
      <4> HIDE DEF m
      <4> QED
        BY <2>3, <3>1, AppendKeeps
    <3> QED
      BY <2>3, <2>4, <3>1, <3>2 DEF Dispatching
  <2>6. Owing'
    BY <2>1, <2>5 DEF Owes, Given
  <2> QED
    BY <2>2, <2>6 DEF Dispatching
<1>5. CASE Disconnect \/ Connack \/ DropLink
  BY <1>3, <1>5 DEF Disconnect, Connack, DropLink, NetAt, client
<1>6. inbox' = inbox \/ OnMessage \/ Disconnect \/ Connack \/ DropLink
      \/ \E t \in Topics : Publish(t)
  BY DEF Next, App, AppContinues, AppStarts, Net, Subscribe, CheckConnected, SendSubscribe,
     AppendCallback, Connect, StopLoop, OnConnect, NextTopic, Transmit, CallBack,
     MessageDone, NoticeLoss, LoopEnds, vars, client, bus
<1> QED
  BY <1>1, <1>2, <1>4, <1>5, <1>6

\* What was owed has been given when the list has been gone through.
LEMMA OwedStep ==
  TypeOK /\ Registering /\ Dispatching /\ OwedDelivered /\ [Next]_vars
  => OwedDelivered'
<1> SUFFICES ASSUME TypeOK, Registering, Dispatching, OwedDelivered, [Next]_vars,
                    net'.pc = "loop"
             PROVE  net'.msg.owed \subseteq net'.given
  BY DEF OwedDelivered
<1>1. CASE net' = net
  BY <1>1 DEF OwedDelivered
<1>2. CASE NextTopic
  <2>1. net' = NetAt("loop")
    <3>1. net.pc = "greet" /\ [net EXCEPT !.i = @ + 1].pc = "greet"
      BY <1>2 DEF NextTopic, TypeOK
    <3>2. NetAt("dead").pc = "dead"
      BY DEF NetAt
    <3> QED
      BY <1>2, <3>1, <3>2 DEF NextTopic
  <2> QED
    BY <2>1 DEF NetAt, NoMsg
<1>3. CASE MessageDone
  <2>1. /\ net.pc = "dispatch" /\ net.i > Len(callbacks[net.msg.topic])
        /\ net'.msg = net.msg /\ net'.given = net.given
    BY <1>3 DEF MessageDone, NetAt
  <2>2. callbacks[net.msg.topic] \in Seq(Callbacks) /\ net.i \in Nat
    BY <2>1 DEF TypeOK, Messages
  <2>3. \A k \in DOMAIN callbacks[net.msg.topic] : k < net.i
    BY <2>1, <2>2
  <2> QED
    BY <2>1, <2>3 DEF Dispatching, Owes, Given
<1>4. ~ (CallBack \/ OnMessage \/ OnConnect)
  BY CallBackStays DEF OnMessage, OnConnect, NetAt
<1>5. ~ (Connect \/ Connack \/ NoticeLoss \/ LoopEnds)
  <2>1. \A pc \in {"offline", "hello", "stopped"} : net' # NetAt(pc)
    BY DEF NetAt
  <2> QED
    BY <2>1 DEF Connect, Connack, NoticeLoss, LoopEnds
<1> QED
  BY <1>1, <1>2, <1>3, <1>4, <1>5
     DEF Next, App, AppContinues, AppStarts, Net, Subscribe, CheckConnected,
     SendSubscribe, AppendCallback, StopLoop, Disconnect, Transmit, DropLink,
     Publish, vars

-----------------------------------------------------------------------------
(* The theorems *)

\* The inductive invariant holds of every behaviour.
THEOREM Invariance == Spec => []Inv
<1>1. Init => Inv
  <2> SUFFICES ASSUME Init PROVE Inv
    OBVIOUS
  <2>1. NetOK
    BY DEF Init, NetOK, NetAt
  <2>2. RestOK
    <3>1. <<>> \in Seq(Topics) /\ <<>> \in Seq(Callbacks) /\ <<>> \in Seq(Messages)
      OBVIOUS
    <3>2. table = <<>> /\ callbacks \in [Topics -> Seq(Callbacks)] /\ inbox \in Seq(Messages)
      BY <3>1 DEF Init
    <3>3. /\ app \in [pc : {"idle", "check", "send", "append", "join", "off"},
                     reg : Registrations \cup {NoReg}]
          /\ drops \in 0..MaxDrops /\ sent \in 0..MaxMessages
      BY BusAssumption DEF Init, AppAt
    <3>4. table \in Seq(Topics) /\ DOMAIN table = {}
      BY <3>1, <3>2
    <3> QED
      BY <3>2, <3>3, <3>4 DEF Init, RestOK
  <2>3. TypeOK
    BY <2>1, <2>2, TypeParts
  <2>4. Registering /\ Greeting /\ Dispatching
    BY DEF Init, Registering, Greeting, Dispatching, AppAt, NetAt
  <2>5. SubscriptionsComplete /\ DiesOfLateTopics /\ OwedDelivered
    BY DEF Init, SubscriptionsComplete, DiesOfLateTopics, OwedDelivered, NetAt
  <2> QED
    BY <2>3, <2>4, <2>5 DEF Inv
<1>2. Inv /\ [Next]_vars => Inv'
  BY TypeStep, RegisteringStep, GreetingStep, DispatchingStep, CompleteStep, DiesStep,
     OwedStep DEF Inv
<1> QED
  BY <1>1, <1>2, PTL DEF Spec

\* Every variable keeps its type.
THEOREM TypeCorrect == Spec => []TypeOK
  BY Invariance, PTL DEF Inv

\* A served link knows, or is about to be told, every registered topic.
THEOREM AllSubscribed == Spec => []SubscriptionsComplete
  BY Invariance, PTL DEF Inv

\* The race of subscribe and on_connect needs a topic that is not early.
THEOREM OnlyLateTopicsKill == Spec => []DiesOfLateTopics
  BY Invariance, PTL DEF Inv

\* What a callback is owed it is given, whatever another raises.
THEOREM OwedIsDelivered == Spec => []OwedDelivered
  BY Invariance, PTL DEF Inv

\* A client that registers its topics before it connects, as every main of the
\* repository does, keeps its network thread.
THEOREM EarlyTopicsAreSafe == ASSUME Late = {} PROVE Spec => [](net.pc # "dead")
<1>1. Inv => net.pc # "dead"
  <2> SUFFICES ASSUME Inv, net.pc = "dead" PROVE FALSE
    OBVIOUS
  <2>1. PICK t \in Keys : t \notin {r.topic : r \in Early}
    BY DEF Inv, DiesOfLateTopics
  <2>2. t \in Topics
    BY <2>1 DEF Inv, TypeOK, Keys
  <2> QED
    BY <2>1, <2>2 DEF Topics, Registrations
<1> QED
  BY <1>1, Invariance, PTL
=============================================================================
