----------------------------- MODULE BusClient -----------------------------
(***************************************************************************)
(* mqtt/client.py: the wrapper through which every process of the system   *)
(* talks to the bus.  The thread that uses it calls subscribe, connect and *)
(* disconnect; the network thread of the MQTT library calls on_connect and *)
(* on_message.  Both work on the dictionary of subscriptions, without a    *)
(* lock.  The link to the broker can be lost at any time: the library then *)
(* connects again, with a new session in which the broker knows no topic.  *)
(***************************************************************************)
EXTENDS Naturals, Sequences

CONSTANTS
    Early,       \* registrations made before connect(), [topic, cb] records
    Late,        \* registrations that may be made after it
    MaxDrops,    \* bound on lost links
    MaxMessages  \* bound on messages published by the other processes

Registrations == Early \cup Late
Topics == {r.topic : r \in Registrations}
Callbacks == {r.cb : r \in Registrations}

ASSUME BusAssumption ==
    /\ Early \cap Late = {}
    /\ \A r \in Registrations : DOMAIN r = {"topic", "cb"}
    /\ MaxDrops \in Nat /\ MaxMessages \in Nat

VARIABLES
    table,      \* keys of _subscriptions, in insertion order
    callbacks,  \* values of _subscriptions: topic -> list of callbacks
    app,        \* the thread that uses the client, [pc, reg]
    done,       \* registrations whose subscribe() has returned
    net,        \* the network thread, [pc, i, size, msg, given]
    connected,  \* client.is_connected()
    outgoing,   \* topics whose SUBSCRIBE is queued and not yet sent
    link,       \* the connection is up
    subs,       \* topics the broker's session knows
    inbox,      \* messages on their way, [topic, owed]
    drops, sent \* counters of the bounds

client == <<table, callbacks, connected, outgoing>>
bus == <<link, subs, inbox, drops, sent>>
vars == <<client, app, done, net, bus>>

NoReg == [topic |-> "none", cb |-> "none"]
NoMsg == [topic |-> "none", owed |-> {}]
AppAt(pc) == [pc |-> pc, reg |-> NoReg]
NetAt(pc) == [pc |-> pc, i |-> 1, size |-> 0, msg |-> NoMsg, given |-> {}]
Keys == {table[k] : k \in DOMAIN table}
Ended == net.pc \in {"dead", "stopped"}

Init ==
    /\ table = <<>> /\ callbacks = [t \in Topics |-> <<>>]
    /\ app = AppAt("idle") /\ done = {}
    /\ net = NetAt("unstarted")
    /\ connected = FALSE /\ outgoing = {}
    /\ link = FALSE /\ subs = {} /\ inbox = <<>>
    /\ drops = 0 /\ sent = 0

-----------------------------------------------------------------------------
(* The thread that uses the client *)

\* Whether the registration r may be begun: connect() comes after the early
\* ones in every main of the repository.
MayRegister(r) == r \notin done /\ (r \in Late => net.pc # "unstarted")

\* subscribe: a topic that is new gets its key before anything else
Subscribe(r) ==
    /\ app.pc = "idle" /\ r \in Registrations /\ MayRegister(r)
    /\ IF r.topic \in Keys
       THEN table' = table /\ app' = [pc |-> "append", reg |-> r]
       ELSE table' = Append(table, r.topic) /\ app' = [pc |-> "check", reg |-> r]
    /\ UNCHANGED <<callbacks, connected, outgoing, done, net, bus>>

\* Mutant of CheckConnected: on_connect is trusted with every topic.
CheckConnectedNever ==
    /\ app.pc = "check"
    /\ app' = [app EXCEPT !.pc = "append"]
    /\ UNCHANGED <<client, done, net, bus>>

\* if self.client.is_connected()
CheckConnected ==
    /\ app.pc = "check"
    /\ app' = [app EXCEPT !.pc = IF connected THEN "send" ELSE "append"]
    /\ UNCHANGED <<client, done, net, bus>>

\* self.client.subscribe(topic): the library queues the packet
SendSubscribe ==
    /\ app.pc = "send"
    /\ outgoing' = outgoing \cup {app.reg.topic}
    /\ app' = [app EXCEPT !.pc = "append"]
    /\ UNCHANGED <<table, callbacks, connected, done, net, bus>>

AppendCallback ==
    /\ app.pc = "append"
    /\ callbacks' = [callbacks EXCEPT ![app.reg.topic] = Append(@, app.reg.cb)]
    /\ done' = done \cup {app.reg}
    /\ app' = AppAt("idle")
    /\ UNCHANGED <<table, connected, outgoing, net, bus>>

\* Mutant of Connect: the loop is started before the topics are registered.
ConnectFirst ==
    /\ app.pc = "idle" /\ net.pc = "unstarted"
    /\ net' = NetAt("offline")
    /\ UNCHANGED <<client, app, done, bus>>

\* connect: connect_broker, then loop_start
Connect ==
    /\ app.pc = "idle" /\ net.pc = "unstarted"
    /\ Early \subseteq done
    /\ net' = NetAt("offline")
    /\ UNCHANGED <<client, app, done, bus>>

\* disconnect: loop_stop tells the thread to end ...
StopLoop ==
    /\ app.pc = "idle" /\ net.pc # "unstarted"
    /\ app' = AppAt("join")
    /\ UNCHANGED <<client, done, net, bus>>

\* ... and waits for it, then the session is closed
Disconnect ==
    /\ app.pc = "join" /\ Ended
    /\ app' = AppAt("off")
    /\ connected' = FALSE /\ outgoing' = {}
    /\ link' = FALSE /\ subs' = {} /\ inbox' = <<>>
    /\ UNCHANGED <<table, callbacks, done, net, drops, sent>>

-----------------------------------------------------------------------------
(* The network thread *)

\* The library (re)connects: a clean session, and is_connected() is true
\* before on_connect is called.
Connack ==
    /\ net.pc = "offline" /\ app.pc # "join"
    /\ link' = TRUE /\ subs' = {} /\ inbox' = <<>> /\ outgoing' = {}
    /\ connected' = TRUE
    /\ net' = NetAt("hello")
    /\ UNCHANGED <<table, callbacks, app, done, drops, sent>>

\* Mutant of OnConnect: topics are only subscribed on the first connection.
OnConnectOnce ==
    /\ net.pc = "hello"
    /\ net' = IF drops = 0 THEN [NetAt("greet") EXCEPT !.size = Len(table)]
              ELSE NetAt("loop")
    /\ UNCHANGED <<client, app, done, bus>>

\* on_connect begins to iterate over the dictionary
OnConnect ==
    /\ net.pc = "hello"
    /\ net' = [NetAt("greet") EXCEPT !.size = Len(table)]
    /\ UNCHANGED <<client, app, done, bus>>

\* The next key.  A dictionary whose size has changed since the iteration
\* began raises RuntimeError, which the library does not catch: its thread ends.
NextTopic ==
    /\ net.pc = "greet"
    /\ IF Len(table) # net.size THEN net' = NetAt("dead") /\ UNCHANGED outgoing
       ELSE IF net.i > Len(table) THEN net' = NetAt("loop") /\ UNCHANGED outgoing
       ELSE /\ outgoing' = outgoing \cup {table[net.i]}
            /\ net' = [net EXCEPT !.i = @ + 1]
    /\ UNCHANGED <<table, callbacks, connected, app, done, bus>>

\* A queued SUBSCRIBE is written; on a lost link it reaches nobody.
Transmit(t) ==
    /\ net.pc = "loop" /\ t \in outgoing
    /\ outgoing' = outgoing \ {t}
    /\ subs' = IF link THEN subs \cup {t} ELSE subs
    /\ UNCHANGED <<table, callbacks, connected, app, done, net, link, inbox,
                   drops, sent>>

\* on_message looks its callbacks up
OnMessage ==
    /\ net.pc = "loop" /\ inbox # <<>>
    /\ net' = [NetAt("dispatch") EXCEPT !.msg = Head(inbox)]
    /\ inbox' = Tail(inbox)
    /\ UNCHANGED <<client, app, done, link, subs, drops, sent>>

Called == net.given \cup {callbacks[net.msg.topic][net.i]}

\* Mutant of AfterCallback: the try is outside the loop over the callbacks.
AfterCallbackGivesUp(raised) ==
    IF raised THEN [NetAt("loop") EXCEPT !.msg = net.msg, !.given = Called]
    ELSE [net EXCEPT !.i = @ + 1, !.given = Called]

\* Mutant of AfterCallback: the index moves past the next callback.
AfterCallbackSkips(raised) == [net EXCEPT !.i = @ + 2, !.given = Called]

\* An exception of a callback is printed, and the next one is called.
AfterCallback(raised) == [net EXCEPT !.i = @ + 1, !.given = Called]

CallBack ==
    /\ net.pc = "dispatch" /\ net.i <= Len(callbacks[net.msg.topic])
    /\ \E raised \in BOOLEAN : net' = AfterCallback(raised)
    /\ UNCHANGED <<client, app, done, bus>>

MessageDone ==
    /\ net.pc = "dispatch" /\ net.i > Len(callbacks[net.msg.topic])
    /\ net' = [NetAt("loop") EXCEPT !.msg = net.msg, !.given = net.given]
    /\ UNCHANGED <<client, app, done, bus>>

\* The library finds the link down; it will connect again.
NoticeLoss ==
    /\ net.pc = "loop" /\ ~link
    /\ net' = NetAt("offline") /\ connected' = FALSE
    /\ UNCHANGED <<table, callbacks, outgoing, app, done, bus>>

\* loop_stop is obeyed between two packets
LoopEnds ==
    /\ app.pc = "join" /\ net.pc \in {"loop", "offline"}
    /\ net' = NetAt("stopped")
    /\ UNCHANGED <<client, app, done, bus>>

-----------------------------------------------------------------------------
(* The broker and the network *)

DropLink ==
    /\ link /\ drops < MaxDrops
    /\ link' = FALSE /\ subs' = {} /\ inbox' = <<>>
    /\ drops' = drops + 1
    /\ UNCHANGED <<client, app, done, net, sent>>

\* Another process publishes on t.  owed: the callbacks whose subscribe()
\* had returned by then.
Publish(t) ==
    /\ t \in subs /\ sent < MaxMessages
    /\ inbox' = Append(inbox, [topic |-> t,
                  owed |-> {r.cb : r \in {q \in done : q.topic = t}}])
    /\ sent' = sent + 1
    /\ UNCHANGED <<client, app, done, net, link, subs, drops>>

-----------------------------------------------------------------------------
AppContinues == CheckConnected \/ SendSubscribe \/ AppendCallback
AppStarts == (\E r \in Early : Subscribe(r)) \/ Connect
App == AppContinues \/ AppStarts \/ (\E r \in Late : Subscribe(r))
       \/ StopLoop \/ Disconnect

Net == Connack \/ OnConnect \/ NextTopic \/ (\E t \in Topics : Transmit(t))
       \/ OnMessage \/ CallBack \/ MessageDone \/ NoticeLoss \/ LoopEnds

Next == App \/ Net \/ DropLink \/ (\E t \in Topics : Publish(t))

Spec == Init /\ [][Next]_vars

\* The scheduler runs both threads; nothing obliges a message to be published,
\* a late topic to be registered or a client to be closed.
Fairness ==
    /\ WF_vars(AppContinues) /\ WF_vars(AppStarts)
    /\ WF_vars(Connack \/ OnConnect \/ NextTopic \/ NoticeLoss)
    /\ WF_vars(OnMessage \/ CallBack \/ MessageDone)
    /\ WF_vars(\E t \in Topics : Transmit(t))

FairSpec == Spec /\ Fairness

-----------------------------------------------------------------------------
(* Properties *)

Messages == [topic : Topics, owed : SUBSET Callbacks]

\* The state has its types; keys are distinct, and an iteration is never past
\* the end of what it iterates over.
TypeOK ==
    /\ table \in Seq(Topics)
    /\ \A j, k \in DOMAIN table : table[j] = table[k] => j = k
    /\ callbacks \in [Topics -> Seq(Callbacks)]
    /\ done \subseteq Registrations
    /\ app \in [pc : {"idle", "check", "send", "append", "join", "off"},
               reg : Registrations \cup {NoReg}]
    /\ net \in [pc : {"unstarted", "offline", "hello", "greet", "loop", "dispatch",
                     "dead", "stopped"},
               i : Nat \ {0}, size : Nat, msg : Messages \cup {NoMsg}, given : SUBSET Callbacks]
    /\ net.pc = "greet" => net.i <= net.size + 1 /\ net.size <= Len(table)
    /\ net.pc = "dispatch" =>
          net.msg \in Messages /\ net.i <= Len(callbacks[net.msg.topic]) + 1
    /\ outgoing \subseteq Keys /\ subs \subseteq Keys /\ inbox \in Seq(Messages)
    /\ connected \in BOOLEAN /\ link \in BOOLEAN
    /\ drops \in 0..MaxDrops /\ sent \in 0..MaxMessages

\* Whenever the network thread serves a live link, the broker knows every
\* registered topic or is about to be told, by a queued packet or by the
\* subscribe() in progress: whatever the order of subscribe, connection, loss
\* and reconnection (mqtt/client.py:33-37 against 43-45).
SubscriptionsComplete ==
    net.pc \in {"loop", "dispatch"} /\ link =>
        \A t \in Keys :
            t \in subs \cup outgoing
            \/ (app.pc \in {"check", "send"} /\ app.reg.topic = t)

\* The iteration of on_connect (mqtt/client.py:44) only meets a changed
\* dictionary, and ends the network thread, in a process that registers a new
\* topic after connect(): no main of the repository does.
DiesOfLateTopics ==
    net.pc = "dead" => \E t \in Keys : t \notin {r.topic : r \in Early}

\* A message sent after subscribe() returned is given to that callback when
\* on_message is through with it, even when a callback before it raised
\* (mqtt/client.py:54-59).
OwedDelivered ==
    net.pc = "loop" => net.msg.owed \subseteq net.given

\* Once registered, a topic is eventually known to the broker however often
\* the link is lost, unless the network thread has ended or is told to.
Resubscribed ==
    \A t \in Topics :
        t \in Keys ~> (t \in subs \/ net.pc \in {"dead", "stopped"}
                       \/ app.pc \in {"join", "off"})
=============================================================================
