------------------------- MODULE MqttWrapperProofs --------------------------
(***************************************************************************)
(* The safety properties of MqttWrapper for any number of endpoints and    *)
(* publishers and any topics.  Three inductive invariants: who holds the   *)
(* endpoints' mutexes, what the record says of the connection, and what    *)
(* the setup function has registered.                                      *)
(***************************************************************************)
EXTENDS MqttWrapper, TLAPS, FiniteSetTheorems, WellFoundedInduction

\* The client's task has the mutex of the endpoint it calls back.
Holding == {"taken", "callback", "nestedTake", "nestedSend", "callbackEnd"}

\* No mutex is made twice, and whoever is inside an endpoint holds its mutex.
HoldInv ==
  /\ \A e \in Endpoints : main[1] # "loop" \/ main[2] <= e => lock[e] = NoMutex
  /\ \A p \in Publishers : pub[p].at \in {"send", "give"} => lock[pub[p].e] = p
  /\ ev.at = "up" => ev.i = 0
  /\ ev.at \in Holding \cup {"take", "setup"} => ev.i \in Endpoints
  /\ ev.at \in Holding => lock[ev.i] = Client
  /\ ev.at \in {"nestedTake", "nestedSend"} => ev.n # ev.i
  /\ ev.at = "nestedSend" => lock[ev.n] = Client

\* Before mqtt_app_start has returned nothing connects, or it is early; an
\* event in progress agrees with the link.
LinkInv ==
  /\ LinkReported
  /\ (link => client) /\ (client => Started)
  /\ ~early /\ ~AppStartReturned =>
       ~link /\ ~told /\ ev.at \in {"idle", "down", "unsubscribe"}
  /\ ev.at = "up" => link /\ (~early => running)
  /\ ev.at = "down" => ~link

\* The setup function is known until a disconnection has been reported, and what
\* it has passed is registered and subscribed.
ServeInv ==
  /\ FirstLinkServed
  /\ subs \subseteq Subscribers
  /\ Started /\ ~lost => initFun
  /\ ev.at \in {"down", "unsubscribe"} => lost /\ subs = {}
  /\ lost => client
  /\ ev.at = "setup" => initFun
  /\ ev.at \notin {"down", "unsubscribe"} /\ lost => ~initFun
  /\ ev.at = "setup" /\ ~lost /\ ~early =>
       \A e \in Subscribers : e < ev.i => e \in subs /\ e \in cb

IInv == TypeOK /\ HoldInv /\ LinkInv /\ ServeInv

-----------------------------------------------------------------------------
(* Operators.                                                              *)

\* The pairs of natural numbers in order.
Less == { ss \in Nat \X Nat : ss[1] < ss[2] }

\* A set of natural numbers that is not empty has a least element.
LEMMA MinIsLeast ==
  ASSUME NEW S \in SUBSET Nat, S # {}
  PROVE  Min(S) \in S /\ \A y \in S : Min(S) <= y
<1>1. IsWellFoundedOn(Less, Nat)
  BY NatLessThanWellFounded DEF OpToRel, Less
<1>2. PICK x \in S : \A y \in S : ~(<<y, x>> \in Less)
  BY <1>1, WFMin
<1>3. ASSUME NEW y \in S PROVE x <= y
  <2>1. <<y, x>> \in Nat \X Nat /\ <<y, x>>[1] = y /\ <<y, x>>[2] = x
    OBVIOUS
  <2>2. ~(y < x)
    BY <1>2, <2>1, Zenon DEF Less
  <2> QED BY <2>2
<1> QED
  BY <1>3 DEF Min

\* The endpoint that is called back next is one of those that match.
LEMMA HitsAreEndpoints ==
  ASSUME TypeOK, Hits # {}
  PROVE  Min(Hits) \in Endpoints
<1>1. Hits \subseteq Endpoints
  BY DEF Hits, TypeOK
<1>2. Endpoints \subseteq Nat
  BY MqttAssumption DEF Endpoints
<1>3. Min(Hits) \in Hits
  BY <1>1, <1>2, MinIsLeast
<1> QED
  BY <1>1, <1>3

\* A set inside a set of one element has one element at most.
LEMMA AtMostOne ==
  ASSUME NEW x, NEW S, S \subseteq {x}
  PROVE  Cardinality(S) <= 1
<1>1. IsFiniteSet({x}) /\ Cardinality({x}) = 1
  BY FS_Singleton
<1> QED
  BY <1>1, FS_Subset, FS_CardinalityType

-----------------------------------------------------------------------------
(* The initial state and a restart.                                        *)

\* Nothing is held, connected or registered at the start.
LEMMA InitInv == Init => IInv
<1> SUFFICES ASSUME Init PROVE IInv
  OBVIOUS
<1>0. 0 \in Endpoints /\ 0 \in 0 .. NumTopics
  BY MqttAssumption DEF Endpoints
<1>1. TypeOK
  <2>1. ev \in Handling
    BY <1>0 DEF Init, Idle, Handling
  <2>2. pub \in [Publishers -> [at : {"idle", "take", "send", "give"}, e : Endpoints]]
    BY <1>0 DEF Init
  <2> QED
    BY <2>1, <2>2 DEF Init, TypeOK
<1>2. HoldInv
  BY DEF Init, Idle, HoldInv, Holding
<1>3. LinkInv
  BY DEF Init, Idle, LinkInv, LinkReported, Started, AppStartReturned
<1>4. ServeInv
  BY DEF Init, Idle, ServeInv, FirstLinkServed, Started
<1> QED
  BY <1>1, <1>2, <1>3, <1>4 DEF IInv

\* A restart brings the initial state back.
LEMMA AbortInv == Abort => IInv'
<1> SUFFICES ASSUME Abort PROVE IInv'
  OBVIOUS
<1>0. 0 \in Endpoints /\ 0 \in 0 .. NumTopics
  BY MqttAssumption DEF Endpoints
<1>1. TypeOK'
  <2>1. ev' \in Handling
    BY <1>0 DEF Abort, Idle, Handling
  <2>2. pub' \in [Publishers -> [at : {"idle", "take", "send", "give"}, e : Endpoints]]
    BY <1>0 DEF Abort
  <2> QED
    BY <2>1, <2>2 DEF Abort, TypeOK
<1>2. HoldInv'
  BY DEF Abort, Idle, HoldInv, Holding
<1>3. LinkInv'
  BY DEF Abort, Idle, LinkInv, LinkReported, Started, AppStartReturned
<1>4. ServeInv'
  BY DEF Abort, Idle, ServeInv, FirstLinkServed, Started
<1> QED
  BY <1>1, <1>2, <1>3, <1>4 DEF IInv

-----------------------------------------------------------------------------
(* Types.                                                                  *)

\* Every step that is no restart keeps the variables in their types.
LEMMA TypeStep ==
  ASSUME TypeOK, HoldInv, [Next]_vars, ~Abort
  PROVE  TypeOK'
<1>0. 0 \in Endpoints /\ 0 \in 0 .. NumTopics /\ Endpoints \subseteq 0 .. NumTopics
      /\ \A e \in Endpoints : e + 1 \in 0 .. NumTopics /\ (e + 1 < NumTopics => e + 1 \in Endpoints)
  BY MqttAssumption DEF Endpoints
<1>i. Idle \in Handling
  BY <1>0 DEF Idle, Handling
<1> USE <1>0, <1>i DEF TypeOK, shared, world
<1>1. CASE StartClient
  BY <1>1 DEF StartClient
<1>2. CASE AssignClient
  BY <1>2 DEF AssignClient
<1>3. CASE ClearRunning
  BY <1>3 DEF ClearRunning
<1>4. CASE MakeMutex
  <2>1. main[2] \in 0 .. NumTopics /\ main[2] < NumTopics
    BY <1>4 DEF MakeMutex
  <2>2. main' = <<"loop", main[2] + 1>> /\ main[2] + 1 \in 0 .. NumTopics
    BY <1>4, <2>1, MqttAssumption DEF MakeMutex
  <2>3. main' \in {"loop"} \X (0 .. NumTopics)
    BY <2>2
  <2>4. PICK mutex \in {Free, NoMutex} : lock' = [lock EXCEPT ![main[2]] = mutex]
    BY <1>4 DEF MakeMutex
  <2>5. lock' \in [Endpoints -> Publishers \cup {Client, Free, NoMutex}]
    BY <2>4
  <2> QED BY <1>4, <2>3, <2>5 DEF MakeMutex
<1>5. CASE Connected
  BY <1>5 DEF Connected, Handling
<1>6. CASE Disconnected
  BY <1>6 DEF Disconnected, Handling
<1>7. CASE ReportUp
  BY <1>7 DEF ReportUp, Handling
<1>8. CASE Register
  BY <1>8 DEF Register, Handling, HoldInv
<1>9. CASE ReportDown
  BY <1>9 DEF ReportDown, Handling
<1>10. CASE Unsubscribe
  BY <1>10 DEF Unsubscribe
<1>11. CASE DataHit
  BY <1>11, HitsAreEndpoints DEF DataHit, Handling
<1>12. CASE DataDone
  BY <1>12 DEF DataDone
<1>13. CASE TakeForCallback
  BY <1>13 DEF TakeForCallback, Handling
<1>14. CASE CallbackStarts
  BY <1>14 DEF CallbackStarts, Handling
<1>15. CASE NestedTake
  BY <1>15 DEF NestedTake, Handling
<1>16. CASE NestedSend
  BY <1>16 DEF NestedSend, Handling
<1>17. CASE CallbackReturns
  BY <1>17 DEF CallbackReturns, Handling, HoldInv, Holding
<1>18. ASSUME NEW e \in Endpoints, RegisterLate(e) \/ SubscribeLate(e) \/ DataArrives(e) \/ NestedPublish(e) PROVE TypeOK'
  <2>1. CASE RegisterLate(e)
    BY <2>1 DEF RegisterLate
  <2>4. CASE SubscribeLate(e)
    BY <2>4 DEF SubscribeLate
  <2>2. CASE DataArrives(e)
    BY <2>2 DEF DataArrives, Handling
  <2>3. CASE NestedPublish(e)
    BY <2>3 DEF NestedPublish, Handling
  <2> QED BY <1>18, <2>1, <2>2, <2>3, <2>4
<1>19. ASSUME NEW p \in Publishers, PubStep(p) \/ \E e \in Endpoints : Publish(p, e)
       PROVE  TypeOK'
  <2>1. CASE PubTake(p)
    BY <2>1 DEF PubTake
  <2>2. CASE PubSend(p)
    BY <2>2 DEF PubSend
  <2>3. CASE \E e \in Endpoints : Publish(p, e)
    BY <2>3 DEF Publish
  <2>4. CASE PubGive(p)
    BY <2>4 DEF PubGive
  <2> QED BY <1>19, <2>1, <2>2, <2>3, <2>4 DEF PubStep
<1>20. CASE UNCHANGED vars
  BY <1>20 DEF vars
<1> QED
  BY <1>1, <1>2, <1>3, <1>4, <1>5, <1>6, <1>7, <1>8, <1>9, <1>10, <1>11, <1>12, <1>13, <1>14,
     <1>15, <1>16, <1>17, <1>18, <1>19, <1>20 DEF Next, MainStep, EventStep, TooSoon

-----------------------------------------------------------------------------
(* Mutexes.                                                                *)

\* Every step that is no restart keeps the holders of the mutexes right: a
\* mutex is made before anyone can have it, taken when it is free, and given
\* back by the one who has it.
LEMMA HoldStep ==
  ASSUME TypeOK, HoldInv, [Next]_vars, ~Abort
  PROVE  HoldInv'
<1>0. TypeOK'
  BY TypeStep
<1>a. NumTopics \in Nat \ {0} /\ Free # NoMutex /\ Client \notin Publishers
      /\ Free \notin Publishers \cup {Client} /\ NoMutex \notin Publishers \cup {Client}
  BY MqttAssumption
<1>b. Endpoints \subseteq Nat /\ 0 \in Endpoints
  BY MqttAssumption DEF Endpoints
<1>c. lock \in [Endpoints -> Publishers \cup {Client, Free, NoMutex}]
      /\ pub \in [Publishers -> [at : {"idle", "take", "send", "give"}, e : Endpoints]]
      /\ ev \in Handling
  BY DEF TypeOK
<1> USE <1>a, <1>b, <1>c DEF HoldInv, Holding, shared, world, Idle, Handling
<1>1. CASE StartClient
  BY <1>1 DEF StartClient
<1>2. CASE AssignClient
  BY <1>2 DEF AssignClient
<1>3. CASE ClearRunning
  BY <1>3 DEF ClearRunning
<1>4. CASE MakeMutex
  <2>1. main[2] \in Nat /\ main' = <<"loop", main[2] + 1>> /\ main[1] = "loop"
    BY <1>4 DEF MakeMutex, TypeOK
  <2>2. PICK mutex \in {Free, NoMutex} : lock' = [lock EXCEPT ![main[2]] = mutex]
    BY <1>4 DEF MakeMutex
  <2>3. lock[main[2]] = NoMutex \/ main[2] \notin Endpoints
    BY <2>1
  <2>4. ASSUME NEW e \in Endpoints, main'[1] # "loop" \/ main'[2] <= e PROVE lock'[e] = NoMutex
    <3>1. main'[1] = "loop" /\ main'[2] = main[2] + 1 /\ e \in Nat
      BY <2>1
    <3>2. main[2] <= e /\ main[2] # e
      BY <2>1, <2>4, <3>1
    <3> QED BY <2>1, <2>2, <3>2
  <2>5. \A e \in Endpoints : lock[e] # NoMutex => lock'[e] = lock[e]
    BY <2>2, <2>3
  <2>6. UNCHANGED <<ev, pub>>
    BY <1>4 DEF MakeMutex
  <2>7. \A p \in Publishers : pub[p].at \in {"send", "give"} => lock'[pub[p].e] = p
    BY <2>5
  <2>8. /\ ev.at \in Holding => lock'[ev.i] = Client
        /\ ev.at = "nestedSend" => lock'[ev.n] = Client
    BY <2>5
  <2> QED BY <2>4, <2>6, <2>7, <2>8
<1>5. CASE Connected
  BY <1>5 DEF Connected
<1>6. CASE Disconnected
  BY <1>6 DEF Disconnected
<1>7. CASE ReportUp
  BY <1>7 DEF ReportUp
<1>8. CASE Register
  BY <1>8 DEF Register, Endpoints
<1>9. CASE ReportDown
  BY <1>9 DEF ReportDown
<1>10. CASE Unsubscribe
  BY <1>10 DEF Unsubscribe
<1>11. CASE DataHit
  BY <1>11, HitsAreEndpoints DEF DataHit
<1>12. CASE DataDone
  BY <1>12 DEF DataDone
<1>13. CASE TakeForCallback
  BY <1>13 DEF TakeForCallback
<1>14. CASE CallbackStarts
  BY <1>14 DEF CallbackStarts
<1>15. CASE NestedTake
  BY <1>15 DEF NestedTake
<1>16. CASE NestedSend
  BY <1>16 DEF NestedSend
<1>17. CASE CallbackReturns
  BY <1>17 DEF CallbackReturns
<1>18. ASSUME NEW e \in Endpoints, RegisterLate(e) \/ SubscribeLate(e) \/ DataArrives(e) \/ NestedPublish(e) PROVE HoldInv'
  <2>1. CASE RegisterLate(e)
    BY <2>1 DEF RegisterLate
  <2>4. CASE SubscribeLate(e)
    BY <2>4 DEF SubscribeLate
  <2>2. CASE DataArrives(e)
    BY <2>2 DEF DataArrives
  <2>3. CASE NestedPublish(e)
    BY <2>3 DEF NestedPublish
  <2> QED BY <1>18, <2>1, <2>2, <2>3, <2>4
<1>19. ASSUME NEW p \in Publishers, PubStep(p) \/ \E e \in Endpoints : Publish(p, e)
       PROVE  HoldInv'
  <2>1. CASE PubTake(p)
    BY <2>1 DEF PubTake
  <2>2. CASE PubSend(p)
    BY <2>2 DEF PubSend
  <2>3. CASE \E e \in Endpoints : Publish(p, e)
    BY <2>3 DEF Publish
  <2>4. CASE PubGive(p)
    BY <2>4 DEF PubGive
  <2> QED BY <1>19, <2>1, <2>2, <2>3, <2>4 DEF PubStep
<1>20. CASE UNCHANGED vars
  BY <1>20 DEF vars
<1> QED
  BY <1>1, <1>2, <1>3, <1>4, <1>5, <1>6, <1>7, <1>8, <1>9, <1>10, <1>11, <1>12, <1>13, <1>14,
     <1>15, <1>16, <1>17, <1>18, <1>19, <1>20 DEF Next, MainStep, EventStep, TooSoon

-----------------------------------------------------------------------------
(* The connection and what is registered.                                  *)

\* The steps from a message to the end of its callbacks.
DataStep ==
  \/ DataHit \/ CallbackStarts \/ TakeForCallback \/ NestedTake \/ NestedSend \/ CallbackReturns
  \/ \E e \in Endpoints : DataArrives(e) \/ NestedPublish(e)

\* They concern the mutexes and the event only, and need a connection to begin.
LEMMA DataStepKeeps ==
  ASSUME ev \in Handling, DataDone \/ DataStep, ~Abort
  PROVE  /\ UNCHANGED <<main, client, running, initFun, cb, world>>
         /\ ev.at = "idle" => link
         /\ {ev.at, ev'.at} \cap {"up", "setup", "down", "unsubscribe"} = {}
<1> USE DEF DataStep, shared, world, Idle, Handling
<1>1. CASE DataHit \/ DataDone \/ CallbackStarts
  BY <1>1 DEF DataHit, DataDone, CallbackStarts
<1>2. CASE TakeForCallback \/ NestedTake
  BY <1>2 DEF TakeForCallback, NestedTake
<1>3. CASE NestedSend \/ CallbackReturns
  BY <1>3 DEF NestedSend, CallbackReturns
<1>4. CASE \E e \in Endpoints : DataArrives(e) \/ NestedPublish(e)
  <2>1. PICK e \in Endpoints : DataArrives(e) \/ NestedPublish(e)
    BY <1>4
  <2>2. CASE DataArrives(e)
    BY <2>2 DEF DataArrives
  <2>3. CASE NestedPublish(e)
    BY <2>3 DEF NestedPublish
  <2> QED BY <2>1, <2>2, <2>3
<1> QED
  BY <1>1, <1>2, <1>3, <1>4

\* Every step that is no restart keeps the record true to the connection.
LEMMA LinkStep ==
  ASSUME TypeOK, LinkInv, [Next]_vars, ~Abort
  PROVE  LinkInv'
<1>0. /\ ev \in Handling
      /\ link \in BOOLEAN /\ told \in BOOLEAN /\ running \in BOOLEAN /\ early \in BOOLEAN
      /\ client \in BOOLEAN /\ initFun \in BOOLEAN /\ lost \in BOOLEAN
  BY DEF TypeOK
<1> USE <1>0 DEF LinkInv, LinkReported, Started, AppStartReturned, shared, world, Idle, Handling
<1>1. CASE StartClient
  BY <1>1 DEF StartClient
<1>2. CASE AssignClient
  BY <1>2 DEF AssignClient
<1>3. CASE ClearRunning
  BY <1>3 DEF ClearRunning
<1>4. CASE MakeMutex
  <2>1. main # <<"loop", NumTopics>> /\ main # <<"init", 0>>
    BY <1>4, MqttAssumption DEF MakeMutex
  <2>2. main'[1] = "loop"
    BY <1>4 DEF MakeMutex
  <2>3. main' # <<"init", 0>>
    BY <2>2
  <2> QED BY <1>4, <2>1, <2>3 DEF MakeMutex
<1>5. CASE Connected
  BY <1>5 DEF Connected
<1>6. CASE Disconnected
  BY <1>6 DEF Disconnected
<1>7. CASE ReportUp
  BY <1>7 DEF ReportUp
<1>8. CASE Register
  BY <1>8 DEF Register
<1>9. CASE ReportDown
  BY <1>9 DEF ReportDown
<1>10. CASE Unsubscribe
  BY <1>10 DEF Unsubscribe
<1>11. CASE DataDone \/ DataStep
  <2>1. /\ UNCHANGED <<main, client, running, initFun, cb, world>>
        /\ ev.at = "idle" => link
        /\ {ev.at, ev'.at} \cap {"up", "setup", "down", "unsubscribe"} = {}
    BY <1>11, DataStepKeeps
  <2> QED BY <2>1
<1>12. ASSUME NEW e \in Endpoints, SubscribeLate(e) PROVE LinkInv'
  BY <1>12 DEF SubscribeLate, ClientFree
<1>13. ASSUME NEW e \in Endpoints, RegisterLate(e) PROVE LinkInv'
  BY <1>13 DEF RegisterLate
<1>14. ASSUME NEW p \in Publishers, PubStep(p) \/ \E e \in Endpoints : Publish(p, e)
       PROVE  LinkInv'
  BY <1>14 DEF PubStep, PubTake, PubSend, PubGive, Publish
<1>15. CASE UNCHANGED vars
  BY <1>15 DEF vars
<1> QED
  BY <1>1, <1>2, <1>3, <1>4, <1>5, <1>6, <1>7, <1>8, <1>9, <1>10, <1>11, <1>12, <1>13, <1>14,
     <1>15 DEF Next, MainStep, EventStep, TooSoon, DataStep

\* Every step that is no restart keeps what is registered, as long as no
\* disconnection is reported, and keeps the setup function forgotten afterwards.
LEMMA ServeStep ==
  ASSUME TypeOK, HoldInv, LinkInv, ServeInv, [Next]_vars, ~Abort
  PROVE  ServeInv'
<1>0. /\ ev \in Handling /\ cb \subseteq Subscribers /\ late \subseteq Subscribers
      /\ Subscribers \subseteq Endpoints
      /\ link \in BOOLEAN /\ told \in BOOLEAN /\ running \in BOOLEAN /\ early \in BOOLEAN
      /\ client \in BOOLEAN /\ initFun \in BOOLEAN /\ lost \in BOOLEAN
  BY MqttAssumption DEF TypeOK
<1>a. Endpoints = 0 .. NumTopics - 1 /\ NumTopics \in Nat
  BY MqttAssumption DEF Endpoints
<1> USE <1>0, <1>a DEF ServeInv, FirstLinkServed, Started, shared, world, Idle, Handling
<1>1. CASE StartClient
  BY <1>1 DEF StartClient, LinkInv, Started
<1>2. CASE AssignClient
  BY <1>2 DEF AssignClient
<1>3. CASE ClearRunning
  BY <1>3 DEF ClearRunning
<1>4. CASE MakeMutex
  BY <1>4 DEF MakeMutex, LinkInv, AppStartReturned
<1>5. CASE Connected
  BY <1>5 DEF Connected
<1>6. CASE Disconnected
  BY <1>6 DEF Disconnected
<1>7. CASE ReportUp
  BY <1>7 DEF ReportUp, HoldInv, LinkInv
<1>8. CASE Register
  BY <1>8 DEF Register, HoldInv
<1>9. CASE ReportDown
  BY <1>9 DEF ReportDown
<1>10. CASE Unsubscribe
  BY <1>10 DEF Unsubscribe
<1>11. CASE DataDone \/ DataStep
  <2>1. /\ UNCHANGED <<main, client, running, initFun, cb, world>>
        /\ ev.at = "idle" => link
        /\ {ev.at, ev'.at} \cap {"up", "setup", "down", "unsubscribe"} = {}
    BY <1>11, DataStepKeeps
  <2> QED BY <2>1
<1>12. ASSUME NEW e \in Endpoints, SubscribeLate(e) PROVE ServeInv'
  BY <1>12 DEF SubscribeLate, ClientFree
<1>13. ASSUME NEW e \in Endpoints, RegisterLate(e) PROVE ServeInv'
  BY <1>13 DEF RegisterLate
<1>14. ASSUME NEW p \in Publishers, PubStep(p) \/ \E e \in Endpoints : Publish(p, e)
       PROVE  ServeInv'
  BY <1>14 DEF PubStep, PubTake, PubSend, PubGive, Publish
<1>15. CASE UNCHANGED vars
  BY <1>15 DEF vars
<1> QED
  BY <1>1, <1>2, <1>3, <1>4, <1>5, <1>6, <1>7, <1>8, <1>9, <1>10, <1>11, <1>12, <1>13, <1>14,
     <1>15 DEF Next, MainStep, EventStep, TooSoon, DataStep

-----------------------------------------------------------------------------
(* The theorems.                                                           *)

\* The inductive invariant holds in every reachable state: who has which
\* mutex, what is known of the connection, and what has been registered.
THEOREM InvariantHolds == Spec => []IInv
<1>1. IInv /\ [Next]_vars => IInv'
  BY AbortInv, TypeStep, HoldStep, LinkStep, ServeStep DEF IInv
<1> QED
  BY InitInv, <1>1, PTL DEF Spec

\* The variables of the wrapper keep their types.
THEOREM TypeCorrect == Spec => []TypeOK
<1>1. IInv => TypeOK
  BY DEF IInv
<1> QED
  BY <1>1, InvariantHolds, PTL

\* Whoever uses an endpoint holds its mutex, so there is one at most: for any
\* number of publishers and endpoints, and with callbacks that publish.
THEOREM EndpointExclusiveHolds == Spec => []EndpointExclusive
<1>1. IInv => EndpointExclusive
  <2> SUFFICES ASSUME IInv, NEW e \in Endpoints PROVE Cardinality(Users(e)) <= 1
    BY DEF EndpointExclusive
  <2>1. Users(e) \subseteq {lock[e]}
    BY DEF IInv, HoldInv, Holding, Users
  <2> QED
    BY <2>1, AtMostOne
<1> QED
  BY <1>1, InvariantHolds, PTL

\* Between two events running and the last word of if_updown agree with the
\* connection, unless it came up before mqtt_app_start had returned.
THEOREM LinkReportedHolds == Spec => []LinkReported
<1>1. IInv => LinkReported
  BY DEF IInv, LinkInv
<1> QED
  BY <1>1, InvariantHolds, PTL

\* Until the first disconnection is reported the setup function serves every
\* subscriber of a connection; afterwards nothing is subscribed but what another
\* task registers, for any number of endpoints and publishers.
THEOREM FirstLinkServedHolds == Spec => []FirstLinkServed
<1>1. IInv => FirstLinkServed
  BY DEF IInv, ServeInv
<1> QED
  BY <1>1, InvariantHolds, PTL
=============================================================================
