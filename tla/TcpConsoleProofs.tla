-------------------------- MODULE TcpConsoleProofs --------------------------
(***************************************************************************)
(* The safety properties of TcpConsole for any number of console tasks and *)
(* descriptors.  GiveSucceeds is about the hand-shake alone and needs no   *)
(* excuse.  ConsoleOwned needs to know, for each place of the maintainer,  *)
(* where the one console task can be and which descriptors it has.         *)
(***************************************************************************)
EXTENDS TcpConsole, TLAPS

\* The maintainer waits for the semaphore whenever it is given or going to be,
\* and only one task is going to give it.
Handshake ==
  /\ m # "take" => ~new_tcp
  /\ \A k, l \in Consoles : at[k] = "start" /\ at[l] = "start" => k = l

GiveInv == TypeOK /\ GiveSucceeds /\ Handshake

\* The descriptors the console knows of.
Known ==
  {socket_fd, connection_fd} \cup {new_conn : x \in {m} \cap {"send"}}
  \cup {new_client_queue[i] : i \in DOMAIN new_client_queue}

Alive == { k \in Consoles : at[k] # "none" }

\* A console task that exists, where the maintainer is, and what is open.
Stage(k) ==
  \/ /\ m = "take" /\ at[k] \in {"start", "receive"}
     /\ socket_fd = NoFd /\ connection_fd = NoFd /\ new_client_queue = << >>
  \/ /\ m = "socket" /\ at[k] = "receive"
     /\ socket_fd = NoFd /\ connection_fd = NoFd /\ new_client_queue = << >>
  \/ /\ m \in {"listen", "accept", "send"} /\ at[k] = "receive"
     /\ socket_fd # NoFd /\ connection_fd = NoFd /\ new_client_queue = << >>
     /\ m = "send" => new_conn # NoFd
  \/ /\ m = "check" /\ at[k] = "receive"
     /\ socket_fd # NoFd /\ connection_fd = NoFd
     /\ \E f \in Fds : new_client_queue = <<f>>
  \/ /\ m = "check" /\ at[k] \in {"session", "exit"}
     /\ socket_fd # NoFd /\ connection_fd # NoFd /\ new_client_queue = << >>
  \/ /\ m = "check" /\ at[k] = "closing"
     /\ socket_fd = NoFd /\ connection_fd # NoFd /\ new_client_queue = << >>
  \/ /\ m = "check" /\ at[k] = "delete"
     /\ socket_fd = NoFd /\ connection_fd = NoFd /\ new_client_queue = << >>

Resting ==
  m = "check" /\ socket_fd = NoFd /\ connection_fd = NoFd /\ new_client_queue = << >>

Owned ==
  /\ Alive \subseteq {console_task}
  /\ open \subseteq Known
  /\ \A k \in Alive : Stage(k)
  /\ Alive = {} => Resting

OwnedInv == raced \/ faulted \/ Owned

-----------------------------------------------------------------------------
(* What the actions choose.                                                *)

\* A new descriptor is a free one.
LEMMA NewFdFree == Fds \ open # {} => NewFd \in Fds \ open
  BY DEF NewFd

\* A new console task was none before.
LEMMA NewConsole ==
  ASSUME CreateConsole
  PROVE  \E k \in Consoles :
           at[k] = "none" /\ at' = [at EXCEPT ![k] = "start"] /\ console_task' = k
<1>1. PICK k \in Dead : k = (CHOOSE j \in Dead : TRUE)
  BY DEF CreateConsole
<1>2. k \in Consoles /\ at[k] = "none"
  BY <1>1 DEF Dead
<1> QED BY <1>1, <1>2 DEF CreateConsole

-----------------------------------------------------------------------------
(* Types.                                                                  *)

\* The initial state has the types.
LEMMA InitType == Init => TypeOK
  BY DEF Init, TypeOK, Fd

\* A restart resets every variable.
LEMMA RestartType == Restart => TypeOK'
  BY DEF Restart, TypeOK, Fd

\* Every step preserves the types.
LEMMA TypeStep == TypeOK /\ [Next]_vars => TypeOK'
<1> SUFFICES ASSUME TypeOK, [Next]_vars PROVE TypeOK'
  OBVIOUS
<1> USE DEF TypeOK, Fd, console, history
<1>1. CASE CreateConsole
  <2>1. PICK k \in Consoles : at' = [at EXCEPT ![k] = "start"] /\ console_task' = k
    BY <1>1, NewConsole
  <2> QED BY <1>1, <2>1 DEF CreateConsole, ShuttingDown
<1>2. CASE CreateFails
  BY <1>2, RestartType DEF CreateFails
<1>3. CASE TakeNewTcp
  BY <1>3 DEF TakeNewTcp
<1>4. CASE Socket
  BY <1>4, NewFdFree DEF Socket
<1>5. CASE Listen
  BY <1>5 DEF Listen
<1>6. CASE Accept
  BY <1>6, NewFdFree DEF Accept
<1>7. CASE SocketFails
  BY <1>7 DEF SocketFails
<1>8. CASE SendConnection
  BY <1>8 DEF SendConnection
<1>9. ASSUME NEW k \in Consoles, ConsoleStep(k) \/ ExitCommand(k) PROVE TypeOK'
  <2>1. CASE GiveNewTcp(k)
    BY <2>1, RestartType DEF GiveNewTcp, Goto
  <2>2. CASE ReceiveConnection(k)
    <3>1. PICK f \in Fds \cup {NoFd} : new_client_queue = <<f>>
      BY <2>2 DEF ReceiveConnection
    <3>2. connection_fd' = f /\ new_client_queue' = << >>
      BY <2>2, <3>1 DEF ReceiveConnection
    <3> QED BY <2>2, <3>2 DEF ReceiveConnection, Goto
  <2>3. CASE EndSession(k)
    BY <2>3 DEF EndSession, Goto
  <2>4. CASE ExitCommand(k)
    BY <2>4 DEF ExitCommand, Goto
  <2>5. CASE CloseSocket(k)
    BY <2>5 DEF CloseSocket, Goto
  <2>6. CASE CloseConnection(k)
    BY <2>6 DEF CloseConnection, Goto
  <2>7. CASE DeleteTask(k)
    BY <2>7, RestartType DEF DeleteTask
  <2> QED BY <1>9, <2>1, <2>2, <2>3, <2>4, <2>5, <2>6, <2>7 DEF ConsoleStep
<1>10. CASE UNCHANGED vars
  BY <1>10 DEF vars, tasks
<1> QED BY <1>1, <1>2, <1>3, <1>4, <1>5, <1>6, <1>7, <1>8, <1>9, <1>10 DEF Next, MaintainerStep

-----------------------------------------------------------------------------
(* The hand-shake.                                                         *)

\* Nothing is given at the start.
LEMMA InitGive == Init => GiveInv
  BY InitType DEF Init, GiveInv, GiveSucceeds, Handshake

\* Only the creation of a console task makes it start, and the maintainer then
\* waits until the give.
LEMMA GiveStep == GiveInv /\ [Next]_vars => GiveInv'
<1> SUFFICES ASSUME GiveInv, [Next]_vars PROVE GiveInv'
  OBVIOUS
<1>a. TypeOK /\ TypeOK'
  BY TypeStep DEF GiveInv
<1>b. at \in [Consoles -> {"none", "start", "receive", "session", "exit", "closing", "delete"}]
  BY <1>a DEF TypeOK
<1>c. Restart => GiveInv'
  BY <1>a DEF Restart, GiveInv, GiveSucceeds, Handshake
<1> SUFFICES ASSUME ~Restart PROVE GiveSucceeds' /\ Handshake'
  BY <1>a, <1>c DEF GiveInv
<1> USE <1>b DEF GiveInv, GiveSucceeds, Handshake, console, history
<1>1. CASE CreateConsole
  <2>1. PICK k \in Consoles : at' = [at EXCEPT ![k] = "start"]
    BY <1>1, NewConsole
  <2> QED BY <1>1, <2>1 DEF CreateConsole
<1>2. CASE CreateFails
  BY <1>2 DEF CreateFails
<1>3. CASE TakeNewTcp
  BY <1>3 DEF TakeNewTcp
<1>4. CASE Socket \/ Listen \/ Accept \/ SocketFails \/ SendConnection
  BY <1>4 DEF Socket, Listen, Accept, SocketFails, SendConnection
<1>5. ASSUME NEW k \in Consoles, ConsoleStep(k) \/ ExitCommand(k)
      PROVE  GiveSucceeds' /\ Handshake'
  <2>1. CASE GiveNewTcp(k)
    BY <2>1 DEF GiveNewTcp, Goto
  <2>2. CASE DeleteTask(k)
    BY <2>2 DEF DeleteTask
  <2>3. CASE ReceiveConnection(k) \/ EndSession(k) \/ ExitCommand(k) \/ CloseSocket(k) \/ CloseConnection(k)
    BY <2>3 DEF ReceiveConnection, EndSession, ExitCommand, CloseSocket, CloseConnection, Goto
  <2> QED BY <1>5, <2>1, <2>2, <2>3 DEF ConsoleStep
<1>6. CASE UNCHANGED vars
  BY <1>6 DEF vars, tasks
<1> QED BY <1>1, <1>2, <1>3, <1>4, <1>5, <1>6 DEF Next, MaintainerStep

\* The give of a new console task never fails, for any number of tasks and
\* descriptors and whatever else fails.
THEOREM GiveSucceedsHolds == Spec => []GiveSucceeds
  BY InitGive, GiveStep, PTL DEF Spec, GiveInv

\* The variables of the console keep their types.
THEOREM TypeCorrect == Spec => []TypeOK
  BY InitGive, GiveStep, PTL DEF Spec, GiveInv

-----------------------------------------------------------------------------
(* One console task at most, and no descriptor forgotten.                  *)

\* At the start no task exists and nothing is open.
LEMMA InitOwned == Init => OwnedInv
  BY DEF Init, OwnedInv, Owned, Alive, Resting

\* Every step preserves it.  Only the next console task can start one, and it
\* does when the last one is gone.
LEMMA OwnedStep == GiveInv /\ OwnedInv /\ [Next]_vars => OwnedInv'
<1> SUFFICES ASSUME GiveInv, OwnedInv, [Next]_vars, ~raced', ~faulted' PROVE Owned'
  BY DEF OwnedInv
<1>a. TypeOK /\ TypeOK'
  BY TypeStep DEF GiveInv
<1>b. at \in [Consoles -> {"none", "start", "receive", "session", "exit", "closing", "delete"}]
  BY <1>a DEF TypeOK
<1>c. Restart => Owned'
  BY DEF Restart, Owned, Alive, Resting, Known
<1> SUFFICES ASSUME ~Restart PROVE Owned'
  BY <1>c
<1>d. ~raced /\ ~faulted => Owned
  BY DEF OwnedInv
<1>1. CASE CreateConsole
  <2>1. ~raced /\ ~faulted /\ ~ShuttingDown
    BY <1>1 DEF CreateConsole
  <2>2. Alive = {} /\ Resting
    BY <1>1, <1>d, <2>1 DEF CreateConsole, ShuttingDown, Owned, Stage, Alive
  <2>3. PICK k \in Consoles : at' = [at EXCEPT ![k] = "start"] /\ console_task' = k
    BY <1>1, NewConsole
  <2>4. Alive' = {k}
    BY <1>b, <2>2, <2>3 DEF Alive
  <2>5. Known' = Known
    BY <1>1, <2>2 DEF CreateConsole, Known, Resting
  <2>6. Stage(k)'
    BY <1>1, <1>b, <2>2, <2>3 DEF CreateConsole, Resting, Stage
  <2> QED BY <1>1, <1>d, <2>1, <2>3, <2>4, <2>5, <2>6 DEF CreateConsole, Owned
<1>2. CASE CreateFails \/ SocketFails
  BY <1>2 DEF CreateFails, SocketFails
<1>3. CASE TakeNewTcp
  BY <1>3, <1>d, <1>a DEF TakeNewTcp, Owned, Alive, Known, Resting, Stage, history, GiveInv, GiveSucceeds
<1>4. CASE Socket
  <2>1. Owned
    BY <1>4, <1>d DEF Socket, history
  <2>2. socket_fd' \in Fds /\ open' = open \cup {socket_fd'}
    BY <1>4, NewFdFree DEF Socket
  <2>3. Alive' = Alive /\ Alive # {}
    BY <1>4, <2>1 DEF Socket, Owned, Resting, Alive
  <2>4. ASSUME NEW k \in Alive PROVE Stage(k)' /\ socket_fd = NoFd
    BY <1>4, <2>1, <2>2, TcpAssumption DEF Socket, Owned, Stage
  <2>5. open' \subseteq Known'
    <3>1. socket_fd = NoFd /\ open \subseteq Fds
      BY <2>3, <2>4, <1>a DEF TypeOK
    <3>2. open \subseteq Known' \cup {NoFd}
      BY <1>4, <2>1, <3>1 DEF Socket, Owned, Known
    <3> QED BY <2>2, <3>1, <3>2, TcpAssumption DEF Known
  <2> QED BY <1>4, <2>1, <2>3, <2>4, <2>5 DEF Socket, Owned
<1>5. CASE Listen
  BY <1>5, <1>d DEF Listen, Owned, Alive, Known, Resting, Stage, history, console
<1>6. CASE Accept
  BY <1>6, <1>d, NewFdFree, TcpAssumption DEF Accept, Owned, Alive, Known, Resting, Stage, history, console
<1>7. CASE SendConnection
  BY <1>7, <1>d, <1>a DEF SendConnection, Owned, Alive, Known, Resting, Stage, history, TypeOK, Fd
<1>8. ASSUME NEW k \in Consoles, ConsoleStep(k) \/ ExitCommand(k) PROVE Owned'
  <2>0. ~raced /\ ~faulted
    BY <1>8 DEF ConsoleStep, GiveNewTcp, ReceiveConnection, EndSession, ExitCommand,
               CloseSocket, CloseConnection, DeleteTask, history
  <2>a. Owned /\ Alive = {k} /\ console_task = k /\ Stage(k)
    BY <1>8, <1>d, <2>0 DEF Owned, Alive, ConsoleStep, GiveNewTcp, ReceiveConnection, EndSession,
                            ExitCommand, CloseSocket, CloseConnection, DeleteTask
  <2>1. CASE GiveNewTcp(k)
    BY <2>1, <2>a, <1>b DEF GiveNewTcp, Goto, Owned, Alive, Known, Stage
  <2>2. CASE ReceiveConnection(k)
    <3>1. PICK f \in Fds : new_client_queue = <<f>>
      BY <2>2, <2>a DEF ReceiveConnection, Stage
    <3>2. m = "check" /\ socket_fd # NoFd /\ connection_fd = NoFd
      BY <2>2, <2>a DEF ReceiveConnection, Stage
    <3>3. connection_fd' = f /\ new_client_queue' = << >>
      BY <2>2, <3>1 DEF ReceiveConnection
    <3>4. Alive' = {k} /\ at'[k] = "session" /\ m' = "check"
      BY <2>2, <2>a, <1>b, <3>2 DEF ReceiveConnection, Goto, Alive
    <3>5. Stage(k)'
      BY <2>2, <3>2, <3>3, <3>4, TcpAssumption DEF ReceiveConnection, Stage
    <3>6. Known \subseteq {socket_fd, NoFd, f}
      BY <3>1, <3>2 DEF Known
    <3>7. {socket_fd, f} \subseteq Known'
      BY <2>2, <3>3 DEF ReceiveConnection, Known
    <3>8. open' \subseteq Known'
      BY <2>2, <2>a, <1>a, <3>6, <3>7, TcpAssumption DEF ReceiveConnection, Owned, TypeOK
    <3> QED BY <2>2, <2>a, <3>4, <3>5, <3>8 DEF ReceiveConnection, Owned
  <2>3. CASE EndSession(k)
    BY <2>3, <2>a DEF EndSession, Stage
  <2>4. CASE ExitCommand(k)
    BY <2>4, <2>a, <1>b DEF ExitCommand, Goto, Owned, Alive, Known, Stage, console, history
  <2>5. CASE CloseSocket(k)
    BY <2>5, <2>a, <1>b DEF CloseSocket, Goto, Owned, Alive, Known, Stage
  <2>6. CASE CloseConnection(k)
    BY <2>6, <2>a, <1>b DEF CloseConnection, Goto, Owned, Alive, Known, Stage
  <2>7. CASE DeleteTask(k)
    BY <2>7, <2>a, <1>b DEF DeleteTask, Owned, Alive, Known, Stage, Resting, console, history
  <2> QED BY <1>8, <2>1, <2>2, <2>3, <2>4, <2>5, <2>6, <2>7 DEF ConsoleStep
<1>9. CASE UNCHANGED vars
  BY <1>9, <1>d DEF vars, tasks, console, history, Owned, Alive, Known, Resting, Stage
<1> QED BY <1>1, <1>2, <1>3, <1>4, <1>5, <1>6, <1>7, <1>8, <1>9 DEF Next, MaintainerStep

\* The strengthening implies the property.
LEMMA OwnedImplies == OwnedInv => ConsoleOwned
  BY DEF OwnedInv, Owned, ConsoleOwned, Alive, Dead, Known

\* For any number of tasks and descriptors: as long as no task was created into
\* a shutdown and no resource was refused, there is one console task at most,
\* the one the next shutdown deletes, and every open descriptor is known.
THEOREM ConsoleOwnedHolds == Spec => []ConsoleOwned
<1>1. Init => GiveInv /\ OwnedInv
  BY InitGive, InitOwned
<1>2. GiveInv /\ OwnedInv /\ [Next]_vars => (GiveInv /\ OwnedInv)'
  BY GiveStep, OwnedStep
<1> QED BY <1>1, <1>2, OwnedImplies, PTL DEF Spec
=============================================================================
