------------------------- MODULE RepeaterConnection -------------------------
(***************************************************************************)
(* The connection of a running Repeater: DefaultRepeaterServer, which owns *)
(* the socket.io client and a reconnection timer of its own,               *)
(* ServerRepeaterLauncher, which reacts to its events, and the `repeater'  *)
(* command, which turns signals and failures into an exit code.            *)
(*                                                                         *)
(* Node runs one callback at a time, so an action is one callback with     *)
(* everything it calls synchronously: a connect_error handler that ends up *)
(* in launcher.close() and then goes on is one step.                       *)
(*                                                                         *)
(* Two mechanisms retry a lost connection.  The socket.io Manager retries  *)
(* by itself when a transport cannot be opened or is lost; the server's    *)
(* connectionTimer retries after every connect_error.  Their timers share  *)
(* one queue, and the order in which they are due is part of the state.    *)
(***************************************************************************)
EXTENDS Integers

CONSTANTS
  ManagerGivesUp,  \* has the socket.io Manager a bounded number of attempts?
  AsDaemon,        \* was the command started with --run?
  MaxAttempts,     \* bound: connectionAttempts is counted up to here
  MaxWaiting       \* bound: waiting deploy() calls are counted up to here

ASSUME ConstantsAssumption ==
  /\ ManagerGivesUp \in BOOLEAN
  /\ AsDaemon \in BOOLEAN
  /\ MaxAttempts \in Nat \ {0}
  /\ MaxWaiting \in Nat \ {0}

\* MIN_RECONNECTION_DELAY and MAX_RECONNECTION_DELAY, in milliseconds.
MinReconnectionDelay == 5000

\* Fault: the upper limit is above the lower one.
MaxReconnectionDelayAboveMin == 30000

MaxReconnectionDelay == 1000

VARIABLES
  conn,      \* the server's fields and the socket.io client, see Connections
  running,   \* ServerRepeaterLauncher.repeaterRunning
  session,   \* what the cloud knows of this connection
  waiting,   \* how many deploy() calls listen for DEPLOYED
  proc,      \* the process: init, up, exited or crashed
  exitCode,  \* process.exitCode
  cause      \* history: what first closed the launcher

vars == <<conn, running, session, waiting, proc, exitCode, cause>>

ErrorCodes == {"not_permitted", "already_started", "deactivated",
               "unauthorized", "no_longer_supported", "unknown_error",
               "unexpected_error"}

NoData == "none"  \* a connect_error without application data

\* The codes for which the launcher closes.
CriticalCodes == ErrorCodes \ {"unknown_error"}

\* The codes that a connect_error hands on to the launcher.
HandshakeCodes == {"unauthorized", "not_permitted"}

Causes == {"none", "signal", "service", "critical", "gave_up", "start"}

(***************************************************************************)
(* conn.due is the number of connection timers that are due before the     *)
(* Manager's timer, -1 when the Manager has none.  conn.armed says that    *)
(* the timer the field connectionTimer holds has neither fired nor been    *)
(* cleared.                                                                *)
(***************************************************************************)
Connections ==
  [socket       : BOOLEAN,    \* _socket is defined
   listening    : BOOLEAN,    \* the launcher's handlers are subscribed
   attempts     : 0..MaxAttempts,
   timers       : Nat,        \* connection timers that have yet to fire
   armed        : BOOLEAN,
   io           : {"closed", "opening", "open"},  \* the Manager's transport
   reconnecting : BOOLEAN,    \* the Manager is in its own retry loop
   due          : Int,
   connected    : BOOLEAN]    \* the namespace handshake has succeeded

Idle == [socket |-> FALSE, listening |-> FALSE, attempts |-> 0, timers |-> 0,
         armed |-> FALSE, io |-> "closed", reconnecting |-> FALSE,
         due |-> -1, connected |-> FALSE]

Lesser(a, b) == IF a < b THEN a ELSE b
-----------------------------------------------------------------------------
(* socket.io-client, as DefaultRepeaterServer uses it. *)

\* Both delays are at least half of MIN before they are cut to MAX (the
\* Manager's jitter takes up to one half, the server's only adds).  If MAX is
\* no more than that, every delay is MAX and timers fire as they were set.
SamePace == 2 * MaxReconnectionDelay <= MinReconnectionDelay

\* The places the Manager's new timer can take behind n connection timers.
DuePositions(n) == IF SamePace THEN {n} ELSE 0..n

\* Manager.reconnect(): wait, then open the transport again.
ManagerReconnect(c) ==
  {[c EXCEPT !.reconnecting = TRUE, !.due = d] : d \in DuePositions(c.timers)}

\* Manager._close(): the last socket has gone, give up retrying.
ManagerClose(c) ==
  [c EXCEPT !.io = "closed", !.reconnecting = FALSE, !.due = -1]

\* Socket.connect(): a no-op while connected; the Manager's own retry loop or
\* an attempt under way is left alone.
SocketConnect(c) ==
  IF c.connected \/ c.reconnecting \/ c.io # "closed"
  THEN c
  ELSE [c EXCEPT !.io = "opening"]
-----------------------------------------------------------------------------
(* DefaultRepeaterServer *)

\* Cancels the timer that the field holds; an older one would keep running.
ClearConnectionTimer(c) ==
  IF c.armed
  THEN [c EXCEPT !.armed = FALSE,
                 !.timers = @ - 1,
                 !.due = Lesser(@, c.timers - 1)]
  ELSE c

\* Fault: disconnect() forgets the connection timer.
DisconnectKeepingTimer(c) ==
  [ManagerClose(c) EXCEPT !.listening = FALSE, !.connected = FALSE,
                          !.socket = FALSE]

\* Fault: disconnect() drops its reference without disconnecting the socket.
DisconnectKeepingTransport(c) ==
  [ClearConnectionTimer(c) EXCEPT !.listening = FALSE, !.socket = FALSE]

Disconnect(c) ==
  LET cleared == [ClearConnectionTimer(c) EXCEPT !.listening = FALSE]
  IN IF c.socket
     THEN [ManagerClose(cleared) EXCEPT !.connected = FALSE, !.socket = FALSE]
     ELSE cleared

\* io(...) starts opening the transport at once.
Connect(c) == [c EXCEPT !.socket = TRUE, !.io = "opening"]

\* The field is overwritten: a timer still pending in it is not cleared.
ScheduleReconnection(c) ==
  [c EXCEPT !.attempts = Lesser(@ + 1, MaxAttempts),
            !.timers = @ + 1,
            !.armed = TRUE]

HandleConnect(c) ==
  [ClearConnectionTimer(c) EXCEPT !.attempts = 0, !.connected = TRUE]

\* Fault: the session that the server ended is left to the Manager.
HandleServerDisconnectPassively(c) ==
  [ManagerClose(c) EXCEPT !.connected = FALSE]

\* The server ended the session: "you need to reconnect manually".
HandleServerDisconnect(c) ==
  SocketConnect([ManagerClose(c) EXCEPT !.connected = FALSE])
-----------------------------------------------------------------------------
(* ServerRepeaterLauncher *)

Subscribe(c) == [c EXCEPT !.listening = TRUE]

IsCriticalError(code) == code \in CriticalCodes

\* close(): repeaterRunning = false and repeaterServer.disconnect().
Close(why) ==
  /\ running' = FALSE
  /\ session' = "none"
  /\ cause' = IF cause = "none" THEN why ELSE cause

\* Fault: a critical error leaves the exit code alone.
HandleCriticalErrorSilently ==
  /\ Close("critical")
  /\ UNCHANGED exitCode

HandleCriticalError ==
  /\ Close("critical")
  /\ exitCode' = 1

ReconnectionFailed ==
  /\ Close("gave_up")
  /\ exitCode' = 1
-----------------------------------------------------------------------------
Init ==
  /\ conn = Idle
  /\ running = FALSE
  /\ session = "none"
  /\ waiting = 0
  /\ proc = "init"
  /\ exitCode = 0
  /\ cause = "none"

\* The command calls run(), which subscribes to the events and connects.
Run ==
  /\ proc = "init"
  /\ proc' = "up"
  /\ running' = TRUE
  /\ conn' = Connect(Subscribe(conn))
  /\ UNCHANGED <<session, waiting, exitCode, cause>>

\* connect() throws before there is a socket (an unusable proxy): the command
\* closes the launcher and fails.
RunFails ==
  /\ proc = "init"
  /\ proc' = "up"
  /\ conn' = Disconnect(Subscribe(conn))
  /\ Close("start")
  /\ exitCode' = 1
  /\ UNCHANGED waiting

\* SIGTERM, SIGINT or SIGHUP, any number of times.
Signal ==
  /\ proc = "up"
  /\ conn' = Disconnect(conn)
  /\ Close("signal")
  /\ exitCode' = 0
  /\ UNCHANGED <<waiting, proc>>

\* The service manager stops the daemon: exit(0, () => this.close()).
ServiceStop ==
  /\ AsDaemon
  /\ proc = "up"
  /\ conn' = Disconnect(conn)
  /\ Close("service")
  /\ exitCode' = 0
  /\ UNCHANGED waiting
  /\ proc' = "exited"

\* The transport is up and the client asks for the namespace.
TransportOpened ==
  /\ proc = "up"
  /\ conn.io = "opening"
  /\ conn' = [conn EXCEPT !.io = "open", !.reconnecting = FALSE]
  /\ UNCHANGED <<running, session, waiting, proc, exitCode, cause>>

\* Fault: the Manager's timer is set before the server's.
TransportFailsManagerFirst ==
  /\ proc = "up"
  /\ conn.io = "opening"
  /\ \E c \in ManagerReconnect([conn EXCEPT !.io = "closed"]) :
       conn' = ScheduleReconnection(c)
  /\ UNCHANGED <<running, session, waiting, proc, exitCode, cause>>

\* The attempt failed: a connect_error without data, after which the Manager
\* goes on with its own retries.
TransportFails ==
  /\ proc = "up"
  /\ conn.io = "opening"
  /\ conn' \in ManagerReconnect(
                 ScheduleReconnection([conn EXCEPT !.io = "closed"]))
  /\ UNCHANGED <<running, session, waiting, proc, exitCode, cause>>

\* The same, when the Manager has used up its attempts: reconnect_failed.
TransportGivesUp ==
  /\ ManagerGivesUp
  /\ proc = "up"
  /\ conn.io = "opening"
  /\ conn.reconnecting
  /\ conn' = Disconnect(ScheduleReconnection(
                 [conn EXCEPT !.io = "closed", !.reconnecting = FALSE]))
  /\ ReconnectionFailed
  /\ UNCHANGED <<waiting, proc>>

\* The namespace is granted: CONNECTED makes the launcher deploy.
ServerAccepts ==
  /\ proc = "up"
  /\ conn.io = "open"
  /\ ~conn.connected
  /\ conn' = HandleConnect(conn)
  /\ session' = IF conn.listening THEN "sent" ELSE session
  /\ waiting' = IF conn.listening THEN Lesser(waiting + 1, MaxWaiting)
                                   ELSE waiting
  /\ UNCHANGED <<running, proc, exitCode, cause>>

\* The namespace is refused: the client drops the transport, and
\* handleConnectionError tells the launcher, which may close, and "in any
\* case" schedules a reconnection.
HandleConnectionError(code) ==
  LET refused == ManagerClose(conn)
  IN \/ /\ code \in HandshakeCodes
        /\ IsCriticalError(code)
        /\ conn' = ScheduleReconnection(Disconnect(refused))
        /\ HandleCriticalError
        /\ UNCHANGED waiting
     \/ /\ ~(code \in HandshakeCodes /\ IsCriticalError(code))
        /\ conn' = ScheduleReconnection(refused)
        /\ UNCHANGED <<running, session, waiting, exitCode, cause>>

ServerRejects ==
  /\ proc = "up"
  /\ conn.io = "open"
  /\ ~conn.connected
  /\ \E code \in ErrorCodes \cup {NoData} : HandleConnectionError(code)
  /\ UNCHANGED proc

\* `disconnect' with the reason "io server disconnect".
ServerDisconnects ==
  /\ proc = "up"
  /\ conn.connected
  /\ conn' = HandleServerDisconnect(conn)
  /\ session' = "none"
  /\ UNCHANGED <<running, waiting, proc, exitCode, cause>>

\* The transport is lost, before or after the handshake.
TransportLost ==
  /\ proc = "up"
  /\ conn.io = "open"
  /\ conn' \in ManagerReconnect([conn EXCEPT !.io = "closed",
                                             !.connected = FALSE])
  /\ session' = "none"
  /\ UNCHANGED <<running, waiting, proc, exitCode, cause>>

\* setTimeout(() => this.socket.connect(), delay): the getter throws when the
\* socket has gone, and nothing catches it.
ConnectionTimerFires ==
  /\ proc = "up"
  /\ conn.timers > 0
  /\ conn.due # 0
  /\ LET fired == [conn EXCEPT !.timers = @ - 1,
                               !.due = IF @ > 0 THEN @ - 1 ELSE @,
                               !.armed = @ /\ conn.timers > 1]
     IN IF conn.socket
        THEN conn' = SocketConnect(fired) /\ UNCHANGED <<proc, exitCode>>
        ELSE conn' = fired /\ proc' = "crashed" /\ exitCode' = 1
  /\ UNCHANGED <<running, session, waiting, cause>>

\* The Manager's timer: reconnect_attempt, and the transport is opened.
ManagerTimerFires ==
  /\ proc = "up"
  /\ conn.due = 0
  /\ conn' = [conn EXCEPT !.due = -1, !.io = "opening"]
  /\ UNCHANGED <<running, session, waiting, proc, exitCode, cause>>

\* The cloud confirms the deployment: every waiting deploy() resolves.
Deployed ==
  /\ proc = "up"
  /\ conn.connected
  /\ session = "sent"
  /\ session' = "deployed"
  /\ waiting' = 0
  /\ UNCHANGED <<conn, running, proc, exitCode, cause>>

\* MAX_DEPLOYMENT_TIMEOUT: one deploy() rejects, and deployRepeater ignores
\* it.  disconnect() does not clear this timer: it may fire after close(), but
\* it is unref'd and keeps no process alive.  A count at the bound stands for
\* that many calls or more.
DeployTimesOut ==
  /\ proc = "up"
  /\ waiting > 0
  /\ \/ waiting' = waiting - 1
     \/ waiting = MaxWaiting /\ UNCHANGED waiting
  /\ UNCHANGED <<conn, running, session, proc, exitCode, cause>>

\* The cloud reports an error, which also rejects the waiting deploys: once()
\* listens for 'error', and an emitter calls every listener it had.
HandleError(code) ==
  /\ waiting' = 0
  /\ \/ /\ IsCriticalError(code)
        /\ conn' = Disconnect(conn)
        /\ HandleCriticalError
     \/ /\ ~IsCriticalError(code)
        /\ UNCHANGED <<conn, running, session, exitCode, cause>>

ServerReportsError ==
  /\ proc = "up"
  /\ conn.connected
  /\ \E code \in ErrorCodes : HandleError(code)
  /\ UNCHANGED proc

\* Node exits by itself when no socket and no timer is left.
NothingPending(c) == c.io = "closed" /\ c.timers = 0 /\ c.due = -1

Exit ==
  /\ proc = "up"
  /\ NothingPending(conn)
  /\ proc' = "exited"
  /\ UNCHANGED <<conn, running, session, waiting, exitCode, cause>>

Next ==
  \/ Run \/ RunFails \/ Signal \/ ServiceStop
  \/ TransportOpened \/ TransportFails \/ TransportGivesUp \/ TransportLost
  \/ ServerAccepts \/ ServerRejects \/ ServerDisconnects
  \/ ConnectionTimerFires \/ ManagerTimerFires
  \/ Deployed \/ DeployTimesOut \/ ServerReportsError
  \/ Exit

Spec == Init /\ [][Next]_vars

(***************************************************************************)
(* Fairness.  Timers fire and Node leaves an empty event loop.  An attempt *)
(* to open a transport ends (the client has a timeout), and so does the    *)
(* handshake (the cloud answers or drops the transport).  StrongNetwork    *)
(* adds that attempts repeated for ever do not all fail.                   *)
(***************************************************************************)
Progress ==
  /\ WF_vars(ConnectionTimerFires)
  /\ WF_vars(ManagerTimerFires)
  /\ WF_vars(Exit)
  /\ WF_vars(TransportOpened \/ TransportFails \/ TransportGivesUp)
  /\ WF_vars(ServerAccepts \/ ServerRejects \/ TransportLost)

StrongNetwork ==
  /\ SF_vars(TransportOpened)
  /\ SF_vars(ServerAccepts)

FairSpec == Spec /\ Progress /\ StrongNetwork
-----------------------------------------------------------------------------
(* Properties *)

\* Every field and variable has its type; no more connection timers are
\* cancelled than were set.
TypeOK ==
  /\ conn \in Connections
  /\ running \in BOOLEAN
  /\ session \in {"none", "sent", "deployed"}
  /\ waiting \in 0..MaxWaiting
  /\ proc \in {"init", "up", "exited", "crashed"}
  /\ exitCode \in {0, 1}
  /\ cause \in Causes

\* scheduleReconnection() overwrites connectionTimer without clearing it, yet
\* no pending timer is ever lost: at most one exists, and the field holds it.
NoLeakedTimer == conn.timers = IF conn.armed THEN 1 ELSE 0

\* The two retry mechanisms do not overlap an attempt: while a transport is
\* being opened or is open, neither of them has a timer pending.
RetriesOnlyWhenDown ==
  conn.io # "closed" => conn.timers = 0 /\ conn.due = -1

\* A running Repeater without a session always has something under way that
\* will try again: it is never silently stuck, whichever way it lost the link.
RetryPending ==
  proc = "up" /\ running /\ ~conn.connected
    => conn.io # "closed" \/ conn.due >= 0 \/ conn.timers > 0

\* After close() nothing of the client survives: no socket, no transport, no
\* retry of the Manager, no subscription, no session in the cloud.
ClosedIsQuiet ==
  ~running => /\ ~conn.socket /\ ~conn.listening /\ ~conn.connected
              /\ conn.io = "closed" /\ conn.due = -1
              /\ session = "none"

\* A Repeater that was stopped on request ends cleanly, with code 0, wherever
\* in the connection's life the signal arrived.
CleanStop ==
  cause \in {"signal", "service"} => proc # "crashed" /\ exitCode = 0

\* An uncaught exception ends the process in one situation only: the
\* handshake was refused with a critical code, close() ran inside
\* handleConnectionError, and the timer it set afterwards fired.
CrashOnlyAfterRefusal ==
  proc = "crashed" => cause = "critical" /\ exitCode = 1

\* "Try reconnect in any case" (handleConnectionError): whenever a connection
\* timer is pending, the socket it will reconnect exists.
PendingReconnectHasSocket == conn.timers > 0 => conn.socket

\* close() leaves nothing to do: except for a further request to stop, whatever
\* happens next is the end of the process, or the timeout of a deploy() that
\* close() left waiting, which touches nothing else: not the connection, not
\* the exit code, not the cause of the end.  No answer of the cloud and no
\* retry that was under way comes in between.
OnlyTheEndFollows ==
  [][proc = "up" /\ ~running =>
       \/ proc' \in {"exited", "crashed"}
       \/ Signal
       \/ UNCHANGED <<conn, running, session, proc, exitCode, cause>>]_vars

\* A Repeater that has been closed ends its process: no handle is left behind
\* that keeps Node alive.
ClosedExits == (proc = "up" /\ ~running) ~> proc \in {"exited", "crashed"}

\* A running Repeater that has lost its session gets one back, unless it is
\* closed first.
Reconnects == (running /\ ~conn.connected) ~> (conn.connected \/ ~running)
-----------------------------------------------------------------------------
(* What the Repeater promises to whoever started it: RepeaterLifecycle. *)

Phase ==
  CASE proc = "init" -> "idle"
    [] proc \in {"exited", "crashed"} -> "gone"
    [] proc = "up" /\ ~running -> "closed"
    [] proc = "up" /\ running /\ conn.connected /\ session # "none" -> "serving"
    [] OTHER -> "connecting"

Lifecycle == INSTANCE RepeaterLifecycle WITH phase <- Phase, code <- exitCode

\* Every step of the connection is a step of the lifecycle or invisible in it.
RefinesLifecycle == Lifecycle!Spec
=============================================================================
