---------------------------- MODULE MqttWrapper -----------------------------
(***************************************************************************)
(* The MQTT wrapper, mqtt_main.c.  Three kinds of threads share my_mqtt    *)
(* without a lock of its own: the application's main task, which runs      *)
(* mqtt_init and starts the client before it has finished the record; the  *)
(* client's task, which runs mqtt_event_handler and, from it, the          *)
(* application's setup function and the subscribers' callbacks; and the    *)
(* tasks that publish or register a topic.  Each endpoint has a mutex,     *)
(* held during its callback and during the hand-over of a message to the   *)
(* client.                                                                 *)
(*                                                                         *)
(* The client library is external: it reports that it is connected, or     *)
(* that a connection was lost or could not be made, and delivers messages  *)
(* of subscribed topics, one event at a time, and has a clean session.     *)
(* Its lock is held by its task while that hands out an event, and taken   *)
(* by every call of the library; its own task may take it again.           *)
(***************************************************************************)
EXTENDS Integers, FiniteSets, FiniteSetsExt

CONSTANTS
  NumTopics,    \* TOPIC_NUM_TOPICS
  Subscribers,  \* the endpoints registered with a callback
  Begins,       \* endpoints whose topic begins with that of the given one
  Publishers,   \* tasks that call publish_mqtt_topic
  Client,       \* the client's task, as a holder of a mutex
  NoMutex, Free \* a mutex not created, a mutex not taken

Endpoints == 0 .. NumTopics - 1

ASSUME MqttAssumption ==
  /\ NumTopics \in Nat \ {0} /\ Subscribers \subseteq Endpoints
  /\ Begins \in [Endpoints -> SUBSET Endpoints]
  /\ \A e \in Endpoints : e \in Begins[e]
  /\ Client \notin Publishers
  /\ {NoMutex, Free} \cap (Publishers \cup {Client}) = {} /\ NoMutex # Free

VARIABLES
  main,     \* mqtt_app_start: "init", "assign", "clear", the endpoint whose
            \* mutex is made next, or NumTopics when it has returned
  client,   \* my_mqtt.client is assigned
  running,  \* my_mqtt.running
  initFun,  \* do_mqtt_init_from_top is not NULL
  topic,    \* endpoints whose topic is written
  cb,       \* endpoints whose sub_callback is not NULL
  lock,     \* each endpoint's mutex
  ev,       \* where the client's task is, see Handling
  pub,      \* where each publisher is, and its endpoint
  late,     \* endpoints registered by another task, not yet subscribed
  link,     \* external: the client is connected
  subs,     \* external: topics subscribed at the broker
  told,     \* what if_updown said last
  early,    \* history: connected before mqtt_app_start had returned
  lost,     \* history: a disconnection was reported since the chip started
  own       \* history: subscribed on this connection by another task

shared == <<client, running, initFun, topic, cb, lock>>
world  == <<late, link, subs, told, early, lost, own>>
vars   == <<main, shared, ev, pub, world>>

Idle == [at |-> "idle", e |-> 0, i |-> 0, n |-> 0]

\* An event's handler: at is the next step; i counts the loop over the
\* endpoints; e is the message's endpoint, n the one published to.
Handling ==
  [at : {"idle", "up", "setup", "down", "unsubscribe", "data", "take", "taken",
         "callback", "nestedTake", "nestedSend", "callbackEnd"},
   e : Endpoints, i : 0 .. NumTopics, n : Endpoints]

TypeOK ==
  /\ main \in {"init", "assign", "clear"} \X {0} \cup {"loop"} \X (0 .. NumTopics)
  /\ client \in BOOLEAN /\ running \in BOOLEAN /\ initFun \in BOOLEAN
  /\ topic \subseteq Endpoints /\ cb \subseteq topic \cap Subscribers
  /\ lock \in [Endpoints -> Publishers \cup {Client, Free, NoMutex}]
  /\ ev \in Handling
  /\ pub \in [Publishers -> [at : {"idle", "take", "send", "give"}, e : Endpoints]]
  /\ late \subseteq topic \cap Subscribers /\ own \subseteq topic \cap Subscribers
  /\ link \in BOOLEAN /\ told \in BOOLEAN /\ early \in BOOLEAN /\ lost \in BOOLEAN
  /\ subs \subseteq topic

Init ==
  /\ main = <<"init", 0>>
  /\ client = FALSE /\ running = FALSE /\ initFun = FALSE
  /\ topic = {} /\ cb = {} /\ lock = [e \in Endpoints |-> NoMutex]
  /\ ev = Idle /\ pub = [p \in Publishers |-> [at |-> "idle", e |-> 0]]
  /\ late = {} /\ link = FALSE /\ subs = {} /\ told = FALSE
  /\ early = FALSE /\ lost = FALSE /\ own = {}

Started == main # <<"init", 0>>
AppStartReturned == main = <<"loop", NumTopics>>

\* External: another task may take the lock of the client.
ClientFree == ev.at = "idle"

\* ESP_ERROR_CHECK fails, or a mutex is used before it exists: the chip
\* restarts.
Abort ==
  /\ main' = <<"init", 0>>
  /\ client' = FALSE /\ running' = FALSE /\ initFun' = FALSE
  /\ topic' = {} /\ cb' = {} /\ lock' = [e \in Endpoints |-> NoMutex]
  /\ ev' = Idle /\ pub' = [p \in Publishers |-> [at |-> "idle", e |-> 0]]
  /\ late' = {} /\ link' = FALSE /\ subs' = {} /\ told' = FALSE
  /\ early' = FALSE /\ lost' = FALSE /\ own' = {}

-----------------------------------------------------------------------------
(* The main task: mqtt_init and mqtt_app_start.                            *)

\* From here on the client's task runs: esp_mqtt_client_start precedes the
\* rest of mqtt_app_start.
StartClient ==
  /\ main = <<"init", 0>>
  /\ main' = <<"assign", 0>>
  /\ initFun' = TRUE /\ running' = FALSE
  /\ UNCHANGED <<client, topic, cb, lock, ev, pub, world>>

AssignClient ==
  /\ main = <<"assign", 0>>
  /\ main' = <<"clear", 0>>
  /\ client' = TRUE
  /\ UNCHANGED <<running, initFun, topic, cb, lock, ev, pub, world>>

ClearRunning ==
  /\ main = <<"clear", 0>>
  /\ main' = <<"loop", 0>>
  /\ running' = FALSE
  /\ UNCHANGED <<client, initFun, topic, cb, lock, ev, pub, world>>

\* my_endpoints->mqtt_node is element 0 in every round of the loop.  The check
\* of a mutex that was not created passes as well.
MakeMutex ==
  /\ main[1] = "loop" /\ main[2] < NumTopics
  /\ main' = <<"loop", main[2] + 1>>
  /\ \E mutex \in {Free, NoMutex} : lock' = [lock EXCEPT ![main[2]] = mutex]
  /\ cb' = cb \ {0}
  /\ UNCHANGED <<client, running, initFun, topic, ev, pub, world>>

MainStep == StartClient \/ AssignClient \/ ClearRunning \/ MakeMutex

-----------------------------------------------------------------------------
(* mqtt_event_handler.                                                     *)

\* Any event that arrives before my_mqtt.client is assigned fails the check.
TooSoon == Started /\ ~client /\ ev = Idle /\ Abort

Connected ==
  /\ client /\ ev = Idle /\ ~link
  /\ link' = TRUE
  /\ running' = TRUE
  /\ ev' = [Idle EXCEPT !.at = "up"]
  /\ early' = (early \/ ~AppStartReturned)
  /\ UNCHANGED <<main, client, initFun, topic, cb, lock, pub, late, subs, told, lost, own>>

\* if_updown(true), and the setup function if there still is one.
ReportUp ==
  /\ ev.at = "up"
  /\ told' = TRUE
  /\ ev' = IF initFun THEN [ev EXCEPT !.at = "setup"] ELSE Idle
  /\ UNCHANGED <<main, shared, pub, late, link, subs, early, lost, own>>

\* Variant: the topic string is not stored.
Register_NoTopic ==
  /\ ev.at = "setup"
  /\ cb' = cb \cup ({ev.i} \cap Subscribers)
  /\ subs' = subs \cup ({ev.i} \cap Subscribers)
  /\ ev' = IF ev.i + 1 < NumTopics THEN [ev EXCEPT !.i = @ + 1] ELSE Idle
  /\ UNCHANGED <<main, client, running, initFun, topic, lock, pub, late, link, told, early, lost,
                 own>>

\* Variant: the callback is not stored.
Register_SubscribeOnly ==
  /\ ev.at = "setup"
  /\ topic' = topic \cup {ev.i}
  /\ subs' = subs \cup ({ev.i} \cap Subscribers)
  /\ ev' = IF ev.i + 1 < NumTopics THEN [ev EXCEPT !.i = @ + 1] ELSE Idle
  /\ UNCHANGED <<main, client, running, initFun, cb, lock, pub, late, link, told, early, lost,
                 own>>

\* register_mqtt_topic for the next endpoint, from the setup function.
Register ==
  /\ ev.at = "setup"
  /\ topic' = topic \cup {ev.i}
  /\ cb' = cb \cup ({ev.i} \cap Subscribers)
  /\ subs' = subs \cup ({ev.i} \cap Subscribers)
  /\ ev' = IF ev.i + 1 < NumTopics THEN [ev EXCEPT !.i = @ + 1] ELSE Idle
  /\ UNCHANGED <<main, client, running, initFun, lock, pub, late, link, told, early, lost, own>>

\* The application registers endpoint e from another task, once mqtt_init has
\* returned: nothing else brings the topics back after a disconnection.
RegisterLate(e) ==
  /\ AppStartReturned
  /\ topic' = topic \cup {e}
  /\ cb' = cb \cup ({e} \cap Subscribers)
  /\ late' = late \cup ({e} \cap Subscribers)
  /\ UNCHANGED <<main, client, running, initFun, lock, ev, pub, link, subs, told, early, lost, own>>

\* Its esp_mqtt_client_subscribe, which waits for the lock of the client.
\* Without a connection it fails, which is not looked at.
SubscribeLate(e) ==
  /\ e \in late /\ ClientFree
  /\ late' = late \ {e}
  /\ IF link THEN subs' = subs \cup {e} /\ own' = own \cup {e} ELSE UNCHANGED <<subs, own>>
  /\ UNCHANGED <<main, shared, ev, pub, link, told, early, lost>>

\* Variant: running is not cleared.
Disconnected_KeepRunning ==
  /\ client /\ ev = Idle
  /\ link' = FALSE /\ subs' = {} /\ lost' = TRUE /\ own' = {}
  /\ ev' = [Idle EXCEPT !.at = "down"]
  /\ UNCHANGED <<main, shared, pub, late, told, early>>

\* MQTT_EVENT_DISCONNECTED comes when a connection is lost, and the broker drops
\* the subscriptions with it, and when an attempt to connect has failed.
Disconnected ==
  /\ client /\ ev = Idle
  /\ link' = FALSE /\ subs' = {} /\ lost' = TRUE /\ own' = {}
  /\ running' = FALSE
  /\ ev' = [Idle EXCEPT !.at = "down"]
  /\ UNCHANGED <<main, client, initFun, topic, cb, lock, pub, late, told, early>>

ReportDown ==
  /\ ev.at = "down"
  /\ told' = FALSE
  /\ ev' = [ev EXCEPT !.at = "unsubscribe"]
  /\ UNCHANGED <<main, shared, pub, late, link, subs, early, lost, own>>

\* The callbacks stay; the setup function is forgotten.
Unsubscribe ==
  /\ ev.at = "unsubscribe"
  /\ subs' = subs \ cb
  /\ initFun' = FALSE
  /\ ev' = Idle
  /\ UNCHANGED <<main, client, running, topic, cb, lock, pub, late, link, told, early, lost, own>>

-----------------------------------------------------------------------------
(* parse_mqtt_topic and the callbacks it calls.                            *)

DataArrives(e) ==
  /\ client /\ ev = Idle /\ link /\ e \in subs
  /\ ev' = [Idle EXCEPT !.at = "data", !.e = e]
  /\ UNCHANGED <<main, shared, pub, world>>

\* Endpoints the rest of the loop calls back: those with a callback whose
\* topic begins with the one received.
Hits == { j \in Begins[ev.e] \cap topic \cap cb : j >= ev.i }

DataHit ==
  /\ ev.at = "data" /\ Hits # {}
  /\ ev' = [ev EXCEPT !.at = "take", !.i = Min(Hits)]
  /\ UNCHANGED <<main, shared, pub, world>>

DataDone ==
  /\ ev.at = "data" /\ Hits = {}
  /\ ev' = Idle
  /\ UNCHANGED <<main, shared, pub, world>>

\* The callback is looked up again after the wait for the mutex.
TakeForCallback ==
  /\ ev.at = "take"
  /\ \/ /\ lock[ev.i] = Free
        /\ lock' = [lock EXCEPT ![ev.i] = Client]
        /\ ev' = [ev EXCEPT !.at = "taken"]
        /\ UNCHANGED <<main, client, running, initFun, topic, cb, pub, world>>
     \/ lock[ev.i] = NoMutex /\ Abort

CallbackStarts ==
  /\ ev.at = "taken"
  /\ \/ /\ ev.i \in cb
        /\ ev' = [ev EXCEPT !.at = "callback"]
        /\ UNCHANGED <<main, shared, pub, world>>
     \/ ev.i \notin cb /\ Abort

\* A callback may publish (once, here), but not to its own endpoint, whose
\* mutex its caller holds.
NestedPublish(e) ==
  /\ ev.at = "callback" /\ running /\ e # ev.i
  /\ ev' = [ev EXCEPT !.at = "nestedTake", !.n = e]
  /\ UNCHANGED <<main, shared, pub, world>>

NestedTake ==
  /\ ev.at = "nestedTake"
  /\ \/ /\ lock[ev.n] = Free
        /\ lock' = [lock EXCEPT ![ev.n] = Client]
        /\ ev' = [ev EXCEPT !.at = "nestedSend"]
        /\ UNCHANGED <<main, client, running, initFun, topic, cb, pub, world>>
     \/ lock[ev.n] = NoMutex /\ Abort

NestedSend ==
  /\ ev.at = "nestedSend"
  /\ lock' = [lock EXCEPT ![ev.n] = Free]
  /\ ev' = [ev EXCEPT !.at = "callbackEnd"]
  /\ UNCHANGED <<main, client, running, initFun, topic, cb, pub, world>>

\* Variant: the mutex is not given back.
CallbackReturns_KeepMutex ==
  /\ ev.at \in {"callback", "callbackEnd"}
  /\ ev' = [ev EXCEPT !.at = "data", !.i = @ + 1]
  /\ UNCHANGED <<main, shared, pub, world>>

CallbackReturns ==
  /\ ev.at \in {"callback", "callbackEnd"}
  /\ lock' = [lock EXCEPT ![ev.i] = Free]
  /\ ev' = [ev EXCEPT !.at = "data", !.i = @ + 1]
  /\ UNCHANGED <<main, client, running, initFun, topic, cb, pub, world>>

EventStep ==
  \/ ReportUp \/ Register \/ ReportDown \/ Unsubscribe
  \/ DataHit \/ DataDone \/ CallbackStarts \/ NestedSend \/ CallbackReturns

-----------------------------------------------------------------------------
(* publish_mqtt_topic.                                                     *)

\* When running is false the call returns at once.
Publish(p, e) ==
  /\ pub[p].at = "idle" /\ running
  /\ pub' = [pub EXCEPT ![p] = [at |-> "take", e |-> e]]
  /\ UNCHANGED <<main, shared, ev, world>>

\* Variant: the mutex is not waited for.
PubTake_Ignored(p) ==
  /\ pub[p].at = "take"
  /\ lock[pub[p].e] # NoMutex
  /\ pub' = [pub EXCEPT ![p].at = "send"]
  /\ UNCHANGED <<main, shared, ev, world>>

PubTake(p) ==
  /\ pub[p].at = "take"
  /\ \/ /\ lock[pub[p].e] = Free
        /\ lock' = [lock EXCEPT ![pub[p].e] = p]
        /\ pub' = [pub EXCEPT ![p].at = "send"]
        /\ UNCHANGED <<main, client, running, initFun, topic, cb, ev, world>>
     \/ lock[pub[p].e] = NoMutex /\ Abort

\* esp_mqtt_client_publish, whatever has become of the connection.  It waits for
\* the lock of the client with the endpoint's mutex taken.
PubSend(p) ==
  /\ pub[p].at = "send" /\ ClientFree
  /\ pub' = [pub EXCEPT ![p].at = "give"]
  /\ UNCHANGED <<main, shared, ev, world>>

PubGive(p) ==
  /\ pub[p].at = "give"
  /\ lock' = [lock EXCEPT ![pub[p].e] = Free]
  /\ pub' = [pub EXCEPT ![p].at = "idle"]
  /\ UNCHANGED <<main, client, running, initFun, topic, cb, ev, world>>

PubStep(p) == PubTake(p) \/ PubSend(p) \/ PubGive(p)

-----------------------------------------------------------------------------

Next ==
  \/ MainStep \/ EventStep
  \/ TooSoon \/ Connected \/ Disconnected
  \/ TakeForCallback \/ NestedTake
  \/ \E e \in Endpoints : RegisterLate(e) \/ SubscribeLate(e) \/ DataArrives(e) \/ NestedPublish(e)
  \/ \E p \in Publishers : PubStep(p) \/ \E e \in Endpoints : Publish(p, e)

Spec == Init /\ [][Next]_vars

\* Each task keeps running, a mutex that is freed again and again is given to
\* whoever waits for it (FreeRTOS wakes waiters in order), the lock of the
\* client too, and callbacks return.  Nothing is assumed of the link, the
\* messages or the callers.
Fairness ==
  /\ WF_vars(MainStep) /\ WF_vars(EventStep)
  /\ SF_vars(TakeForCallback \/ NestedTake)
  /\ \A p \in Publishers : SF_vars(PubStep(p))

FairSpec == Spec /\ Fairness

-----------------------------------------------------------------------------

Users(e) ==
  { p \in Publishers : pub[p].at \in {"send", "give"} /\ pub[p].e = e } \cup
  (IF \/ ev.at \in {"callback", "nestedTake", "nestedSend", "callbackEnd"} /\ ev.i = e
      \/ ev.at = "nestedSend" /\ ev.n = e
   THEN {Client} ELSE {})

\* An endpoint's callback and the hand-over of its messages never overlap,
\* whichever tasks publish, callbacks included (mqtt_main.c:158-160, 259-262).
EndpointExclusive == \A e \in Endpoints : Cardinality(Users(e)) <= 1

\* Between two events, running and the last word of if_updown agree with the
\* client's connection, unless it connected before mqtt_app_start had
\* returned; even then running is never true without a connection.
LinkReported ==
  /\ running => link
  /\ ev.at \notin {"up", "down"} /\ ~early => (told = link /\ running = link)

\* The setup function serves a connection only before the first disconnection
\* is reported, which a failed attempt to connect does as well (mqtt_main.c:
\* 94-114).  Then every subscriber's topic is subscribed and has its callback,
\* once the function has returned, unless the client connected before
\* mqtt_app_start had returned.  Afterwards exactly those topics are subscribed
\* that another task has registered again on this connection.
FirstLinkServed ==
  /\ link /\ ~lost /\ ~early /\ ev.at \notin {"up", "setup"} =>
       subs = Subscribers /\ cb = Subscribers
  /\ lost => subs = own

\* The embrace: the client's task holds the lock of the client and waits for a
\* mutex whose holder waits for that lock (mqtt_main.c:158, 259-260).
Waits(e) == (ev.at = "take" /\ ev.i = e) \/ (ev.at = "nestedTake" /\ ev.n = e)
Embraced == \E p \in Publishers : pub[p].at = "send" /\ Waits(pub[p].e)

\* The embrace is the only way to get stuck, and for good: every publication
\* and every event comes to its end unless a message is due for an endpoint, or a
\* callback publishes on one, just when a publisher has its mutex but not yet the
\* client; and from there only a restart of the chip leads on.
CallsReturn ==
  /\ \A p \in Publishers : pub[p].at # "idle" ~> pub[p].at = "idle" \/ Embraced
  /\ ev.at # "idle" ~> ev.at = "idle" \/ Embraced
  /\ [][Embraced => Embraced' \/ ~Started']_vars
=============================================================================
