----------------------------- MODULE TcpConsole -----------------------------
(***************************************************************************)
(* The TCP console, tcp_console_driver.c.  The maintainer task polls       *)
(* CONSOLE.socket_fd; when it is -1 it creates a console task, waits until *)
(* that task gives new_tcp, opens the listening socket, accepts one client *)
(* and sends it through new_client_queue.  The console task serves it; its *)
(* "exit" command runs tcp_console_socket_deinit, which closes both        *)
(* sockets and deletes CONSOLE.console_task.                               *)
(*                                                                         *)
(* The sockets and FreeRTOS are external, and so is the command that calls *)
(* tcp_console_socket_deinit (app_console is not in the repository; the    *)
(* banner names it).  A client that leaves without it is one that never    *)
(* types it.                                                               *)
(***************************************************************************)
EXTENDS FiniteSets, Sequences

CONSTANTS
  Consoles,     \* console tasks there is memory for
  Fds,          \* file descriptors
  NoTask, NoFd  \* a NULL handle, -1

ASSUME TcpAssumption == NoTask \notin Consoles /\ NoFd \notin Fds

VARIABLES
  m,            \* where socket_maintainer_task is
  new_conn,     \* its local
  at,           \* where each console task is; "none" if it does not exist
  socket_fd, connection_fd, console_task,  \* CONSOLE
  new_tcp,      \* the binary semaphore
  new_client_queue,
  open,         \* external: descriptors in use
  faulted,      \* history: a task or a socket could not be had
  raced         \* history: a console task was created while another shut down

tasks   == <<m, at>>
console == <<socket_fd, connection_fd, console_task, new_tcp, new_client_queue>>
history == <<faulted, raced>>
vars    == <<tasks, new_conn, console, open, history>>

Fd == Fds \cup {NoFd}

TypeOK ==
  /\ m \in {"check", "take", "socket", "listen", "accept", "send"}
  /\ new_conn \in Fd /\ socket_fd \in Fd /\ connection_fd \in Fd
  /\ at \in [Consoles -> {"none", "start", "receive", "session", "exit", "closing", "delete"}]
  /\ console_task \in Consoles \cup {NoTask}
  /\ new_tcp \in BOOLEAN
  /\ new_client_queue \in {<< >>} \cup {<<f>> : f \in Fd}
  /\ open \subseteq Fds
  /\ faulted \in BOOLEAN /\ raced \in BOOLEAN

\* start_console has created the maintainer.
Init ==
  /\ m = "check" /\ at = [k \in Consoles |-> "none"] /\ new_conn = NoFd
  /\ socket_fd = NoFd /\ connection_fd = NoFd /\ console_task = NoTask
  /\ new_tcp = FALSE /\ new_client_queue = << >>
  /\ open = {} /\ faulted = FALSE /\ raced = FALSE

\* A failed ESP_ERROR_CHECK, or a handle used after its task is gone.
Restart ==
  /\ m' = "check" /\ at' = [k \in Consoles |-> "none"] /\ new_conn' = NoFd
  /\ socket_fd' = NoFd /\ connection_fd' = NoFd /\ console_task' = NoTask
  /\ new_tcp' = FALSE /\ new_client_queue' = << >>
  /\ open' = {} /\ faulted' = FALSE /\ raced' = FALSE

-----------------------------------------------------------------------------
(* socket_maintainer_task and socket_init.                                 *)

Dead == { k \in Consoles : at[k] = "none" }

\* Memory and descriptors are reused; which of the free ones is immaterial.
NewFd == CHOOSE f \in Fds \ open : TRUE

ShuttingDown == \E k \in Consoles : at[k] \in {"closing", "delete"}

CreateConsole ==
  /\ m = "check" /\ socket_fd = NoFd
  /\ Dead # {}
  /\ LET k == CHOOSE k \in Dead : TRUE IN
       at' = [at EXCEPT ![k] = "start"] /\ console_task' = k
  /\ m' = "take"
  /\ raced' = (raced \/ ShuttingDown)
  /\ UNCHANGED <<new_conn, socket_fd, connection_fd, new_tcp, new_client_queue, open, faulted>>

\* xTaskCreate leaves the handle alone, and the handle is all that is checked.
CreateFails ==
  /\ m = "check" /\ socket_fd = NoFd
  /\ \/ console_task = NoTask /\ Restart
     \/ /\ console_task # NoTask
        /\ m' = "take" /\ faulted' = TRUE
        /\ UNCHANGED <<at, new_conn, console, open, raced>>

\* Variant: the semaphore is looked at and not taken.
TakeNewTcp_NoClear ==
  /\ m = "take" /\ new_tcp
  /\ m' = "socket"
  /\ UNCHANGED <<at, new_conn, console, open, history>>

TakeNewTcp ==
  /\ m = "take" /\ new_tcp
  /\ new_tcp' = FALSE /\ m' = "socket"
  /\ UNCHANGED <<at, new_conn, socket_fd, connection_fd, console_task, new_client_queue, open, history>>

Socket ==
  /\ m = "socket"
  /\ Fds \ open # {}
  /\ socket_fd' = NewFd /\ open' = open \cup {NewFd}
  /\ m' = "listen"
  /\ UNCHANGED <<at, new_conn, connection_fd, console_task, new_tcp, new_client_queue, history>>

\* bind and listen
Listen ==
  /\ m = "listen" /\ m' = "accept"
  /\ UNCHANGED <<at, new_conn, console, open, history>>

Accept ==
  /\ m = "accept" /\ socket_fd # NoFd
  /\ Fds \ open # {}
  /\ new_conn' = NewFd /\ open' = open \cup {NewFd}
  /\ m' = "send"
  /\ UNCHANGED <<at, console, history>>

\* socket, bind, listen or accept fails; what was opened stays open.
SocketFails ==
  /\ m \in {"socket", "listen", "accept"}
  /\ new_conn' = NoFd /\ m' = "send" /\ faulted' = TRUE
  /\ UNCHANGED <<at, console, open, raced>>

\* Variant: the queue is longer than one connection.
SendConnection_LongQueue ==
  /\ m = "send"
  /\ new_client_queue' = Append(new_client_queue, new_conn) /\ m' = "check"
  /\ UNCHANGED <<at, new_conn, socket_fd, connection_fd, console_task, new_tcp, open, history>>

SendConnection ==
  /\ m = "send" /\ new_client_queue = << >>
  /\ new_client_queue' = <<new_conn>> /\ m' = "check"
  /\ UNCHANGED <<at, new_conn, socket_fd, connection_fd, console_task, new_tcp, open, history>>

-----------------------------------------------------------------------------
(* console_loop and tcp_console_socket_deinit, in console task k.          *)

Goto(k, step) == at' = [at EXCEPT ![k] = step] /\ UNCHANGED m

GiveNewTcp(k) ==
  /\ at[k] = "start"
  /\ \/ new_tcp /\ Restart
     \/ /\ ~new_tcp /\ new_tcp' = TRUE /\ Goto(k, "receive")
        /\ UNCHANGED <<new_conn, socket_fd, connection_fd, console_task, new_client_queue, open, history>>

ReceiveConnection(k) ==
  /\ at[k] = "receive" /\ new_client_queue # << >>
  /\ connection_fd' = Head(new_client_queue)
  /\ new_client_queue' = Tail(new_client_queue)
  /\ Goto(k, "session")
  /\ UNCHANGED <<new_conn, socket_fd, console_task, new_tcp, open, history>>

EndSession(k) ==
  /\ at[k] = "session" /\ connection_fd = NoFd
  /\ Goto(k, "receive")
  /\ UNCHANGED <<new_conn, console, open, history>>

ExitCommand(k) ==
  /\ at[k] = "session" /\ connection_fd # NoFd
  /\ Goto(k, "exit")
  /\ UNCHANGED <<new_conn, console, open, history>>

\* Variant: the listening socket is closed but not forgotten.
CloseSocket_KeepFd(k) ==
  /\ at[k] = "exit" /\ Goto(k, "closing")
  /\ open' = open \ {socket_fd}
  /\ UNCHANGED <<new_conn, console, history>>

\* From here on the maintainer may create the next console task.
CloseSocket(k) ==
  /\ at[k] = "exit" /\ Goto(k, "closing")
  /\ open' = open \ {socket_fd} /\ socket_fd' = NoFd
  /\ UNCHANGED <<new_conn, connection_fd, console_task, new_tcp, new_client_queue, history>>

\* Variant: the client's socket is shut down but not closed.
CloseConnection_Shutdown(k) ==
  /\ at[k] = "closing" /\ Goto(k, "delete")
  /\ connection_fd' = NoFd
  /\ UNCHANGED <<new_conn, socket_fd, console_task, new_tcp, new_client_queue, open, history>>

CloseConnection(k) ==
  /\ at[k] = "closing" /\ Goto(k, "delete")
  /\ open' = open \ {connection_fd} /\ connection_fd' = NoFd
  /\ UNCHANGED <<new_conn, socket_fd, console_task, new_tcp, new_client_queue, history>>

\* vTaskDelete deletes whichever task CONSOLE.console_task names; if that is
\* another one, tcp_console_socket_deinit returns.  The handle of a task that
\* is gone is undefined behaviour: a restart, or nothing.
DeleteTask(k) ==
  /\ at[k] = "delete"
  /\ \/ at[console_task] = "none" /\ Restart
     \/ /\ at' = [[at EXCEPT ![k] = "session"] EXCEPT ![console_task] = "none"]
        /\ UNCHANGED <<m, new_conn, console, open, history>>

-----------------------------------------------------------------------------

MaintainerStep ==
  CreateConsole \/ CreateFails \/ TakeNewTcp \/ Socket \/ Listen \/ SocketFails \/ SendConnection

ConsoleStep(k) ==
  \/ GiveNewTcp(k) \/ ReceiveConnection(k) \/ EndSession(k)
  \/ CloseSocket(k) \/ CloseConnection(k) \/ DeleteTask(k)

Next == MaintainerStep \/ Accept \/ \E k \in Consoles : ConsoleStep(k) \/ ExitCommand(k)

Spec == Init /\ [][Next]_vars

\* The tasks run.  Clients need not come, an accept need not fail, and nobody
\* need type "exit".
FairSpec ==
  Spec /\ WF_vars(m # "accept" /\ MaintainerStep) /\ \A k \in Consoles : WF_vars(ConsoleStep(k))

-----------------------------------------------------------------------------

\* As long as no task was created into a shutdown and no resource was refused:
\* there is one console task at most, it is the one a shutdown will delete,
\* and no descriptor is open that the console does not know
\* (tcp_console_driver.c:201, 285-289).
ConsoleOwned ==
  raced \/ faulted \/
    /\ Consoles \ Dead \subseteq {console_task}
    /\ open \subseteq {socket_fd, connection_fd} \cup {new_conn : x \in {m} \cap {"send"}}
                      \cup {new_client_queue[i] : i \in DOMAIN new_client_queue}

\* The give of a new console task never fails, whatever went wrong before: the
\* maintainer creates no second task before it has taken the first one's
\* (tcp_console_driver.c:200-203, 303).
GiveSucceeds == \A k \in Consoles : at[k] = "start" => ~new_tcp /\ m = "take"

\* "NB! "exit" before disconnecting socket, or you will not reconnect": who
\* exits finds the console listening again, unless a resource was refused or
\* the maintainer ran into the shutdown (tcp_console_driver.c:316).
ExitListensAgain ==
  \A k \in Consoles : at[k] = "exit" ~> (m = "accept" \/ raced \/ faulted)
=============================================================================
