---------------------- MODULE RepeaterConnectionProofs ----------------------
(***************************************************************************)
(* Proofs about RepeaterConnection, for every bound on the counters and    *)
(* whether or not the Manager gives up and the command runs as a daemon.   *)
(***************************************************************************)
EXTENDS RepeaterConnection, TLAPS

(***************************************************************************)
(* The inductive invariant.  NoLeakedTimer alone is not inductive: that a  *)
(* new timer never overwrites a pending one follows from the order of the  *)
(* two timers.  The server's timer is set first, so it fires first         *)
(* (TimerOrder), and an attempt starts only when no timer is left          *)
(* (RetriesOnlyWhenDown).                                                  *)
(***************************************************************************)

\* The Manager's timer is due after every connection timer, and it is pending
\* exactly while the Manager's retry loop waits.
TimerOrder ==
  /\ conn.due \in {-1, conn.timers}
  /\ conn.due >= 0 <=> conn.reconnecting /\ conn.io = "closed"
  /\ conn.reconnecting => conn.io # "open"

\* A session needs a transport, and is announced as soon as it exists.
SessionOverTransport ==
  /\ conn.connected => conn.io = "open"
  /\ conn.connected <=> session # "none"

\* The launcher's view agrees with the server's.
LauncherInStep ==
  /\ running => proc = "up" /\ conn.socket /\ conn.listening /\ cause = "none"
  /\ ~running => (proc = "init" <=> cause = "none")

\* A timer that outlives close() was set by a refused handshake.
OrphanTimer ==
  ~running /\ conn.timers > 0 => cause = "critical" /\ exitCode = 1

IInv ==
  /\ TypeOK
  /\ NoLeakedTimer
  /\ RetriesOnlyWhenDown
  /\ TimerOrder
  /\ SessionOverTransport
  /\ LauncherInStep
  /\ ClosedIsQuiet
  /\ RetryPending
  /\ OrphanTimer
  /\ CleanStop
  /\ CrashOnlyAfterRefusal
-----------------------------------------------------------------------------
(* What the operations on conn return. *)

\* Setting one field to a value of its type leaves a well-typed connection.
LEMMA FieldUpdates ==
  ASSUME NEW c \in Connections
  PROVE  /\ \A b \in BOOLEAN :
              /\ [c EXCEPT !.socket = b] \in Connections
              /\ [c EXCEPT !.listening = b] \in Connections
              /\ [c EXCEPT !.armed = b] \in Connections
              /\ [c EXCEPT !.reconnecting = b] \in Connections
              /\ [c EXCEPT !.connected = b] \in Connections
         /\ \A n \in Nat : [c EXCEPT !.timers = n] \in Connections
         /\ \A n \in 0..MaxAttempts : [c EXCEPT !.attempts = n] \in Connections
         /\ \A n \in Int : [c EXCEPT !.due = n] \in Connections
         /\ \A s \in {"closed", "opening", "open"} :
              [c EXCEPT !.io = s] \in Connections
  BY DEF Connections

\* Manager._close() stops the Manager and touches nothing of the server's.
LEMMA ManagerCloseFacts ==
  ASSUME NEW c \in Connections
  PROVE  /\ ManagerClose(c) \in Connections
         /\ ManagerClose(c).io = "closed"
         /\ ManagerClose(c).reconnecting = FALSE
         /\ ManagerClose(c).due = -1
         /\ ManagerClose(c).socket = c.socket
         /\ ManagerClose(c).listening = c.listening
         /\ ManagerClose(c).timers = c.timers
         /\ ManagerClose(c).armed = c.armed
         /\ ManagerClose(c).connected = c.connected
<1> DEFINE c1 == [c EXCEPT !.io = "closed"]
           c2 == [c1 EXCEPT !.reconnecting = FALSE]
<1>1. c1 \in Connections
  BY FieldUpdates
<1>2. c2 \in Connections
  BY FieldUpdates, <1>1
<1>3. ManagerClose(c) = [c2 EXCEPT !.due = -1]
  BY DEF ManagerClose
<1>4. ManagerClose(c) \in Connections
  <2> HIDE DEF c2
  <2> -1 \in Int
    OBVIOUS
  <2> QED
    BY FieldUpdates, <1>2, <1>3
<1> QED
  BY <1>4 DEF ManagerClose, Connections

\* scheduleReconnection() adds one timer, which the field then holds.
LEMMA ScheduleReconnectionFacts ==
  ASSUME NEW c \in Connections
  PROVE  /\ ScheduleReconnection(c) \in Connections
         /\ ScheduleReconnection(c).timers = c.timers + 1
         /\ ScheduleReconnection(c).armed = TRUE
         /\ ScheduleReconnection(c).io = c.io
         /\ ScheduleReconnection(c).reconnecting = c.reconnecting
         /\ ScheduleReconnection(c).due = c.due
         /\ ScheduleReconnection(c).socket = c.socket
         /\ ScheduleReconnection(c).listening = c.listening
         /\ ScheduleReconnection(c).connected = c.connected
<1> DEFINE a == Lesser(c.attempts + 1, MaxAttempts)
           n == c.timers + 1
           c1 == [c EXCEPT !.attempts = a]
           c2 == [c1 EXCEPT !.timers = n]
<1>1. a \in 0..MaxAttempts /\ n \in Nat
  BY ConstantsAssumption DEF Connections, Lesser
<1>2. ScheduleReconnection(c) = [c2 EXCEPT !.armed = TRUE]
  BY DEF ScheduleReconnection, Connections
<1> HIDE DEF a, n
<1>3. c1 \in Connections
  BY FieldUpdates, <1>1
<1>4. c2 \in Connections
  <2> HIDE DEF c1
  <2> QED
    BY FieldUpdates, <1>1, <1>3
<1>5. ScheduleReconnection(c) \in Connections
  <2> HIDE DEF c2
  <2> QED
    BY FieldUpdates, <1>2, <1>4
<1> QED
  BY <1>5 DEF ScheduleReconnection, Connections

\* clearConnectionTimer() leaves no timer, if at most the one in the field was
\* pending and the Manager's was due after it.
LEMMA ClearConnectionTimerFacts ==
  ASSUME NEW c \in Connections,
         c.timers = (IF c.armed THEN 1 ELSE 0),
         c.due \in {-1, c.timers}
  PROVE  /\ ClearConnectionTimer(c) \in Connections
         /\ ClearConnectionTimer(c).timers = 0
         /\ ClearConnectionTimer(c).armed = FALSE
         /\ ClearConnectionTimer(c).due \in {-1, 0}
         /\ ClearConnectionTimer(c).due = -1 <=> c.due = -1
         /\ ClearConnectionTimer(c).io = c.io
         /\ ClearConnectionTimer(c).reconnecting = c.reconnecting
         /\ ClearConnectionTimer(c).socket = c.socket
         /\ ClearConnectionTimer(c).listening = c.listening
         /\ ClearConnectionTimer(c).connected = c.connected
<1>1. CASE c.armed = FALSE
  <2>1. ClearConnectionTimer(c) = c
    BY <1>1 DEF ClearConnectionTimer
  <2> QED
    BY <1>1, <2>1
<1>2. CASE c.armed = TRUE
  <2> DEFINE n == c.timers - 1
             d == Lesser(c.due, n)
             c1 == [c EXCEPT !.armed = FALSE]
             c2 == [c1 EXCEPT !.timers = n]
  <2>1. n = 0 /\ d \in {-1, 0} /\ (d = -1 <=> c.due = -1)
    BY <1>2 DEF Connections, Lesser
  <2>2. ClearConnectionTimer(c) = [c2 EXCEPT !.due = d]
    BY <1>2 DEF ClearConnectionTimer, Connections
  <2> HIDE DEF n, d
  <2>3. c1 \in Connections
    BY FieldUpdates
  <2>4. c2 \in Connections
    <3> HIDE DEF c1
    <3> QED
      BY FieldUpdates, <2>1, <2>3
  <2>5. ClearConnectionTimer(c) \in Connections
    <3> HIDE DEF c2
    <3> d \in Int
      BY <2>1
    <3> QED
      BY FieldUpdates, <2>2, <2>4, ZenonT(30)
  <2> QED
    BY <2>1, <2>2, <2>5 DEF Connections
<1> QED
  BY <1>1, <1>2 DEF Connections

\* disconnect() brings the connection back to where it began, the count of
\* attempts apart.
LEMMA DisconnectFacts ==
  ASSUME NEW c \in Connections,
         c.timers = (IF c.armed THEN 1 ELSE 0),
         c.due \in {-1, c.timers},
         c.socket = FALSE => /\ c.io = "closed"
                             /\ c.due = -1
                             /\ c.reconnecting = FALSE
                             /\ c.connected = FALSE
  PROVE  /\ Disconnect(c) \in Connections
         /\ Disconnect(c).socket = FALSE
         /\ Disconnect(c).listening = FALSE
         /\ Disconnect(c).timers = 0
         /\ Disconnect(c).armed = FALSE
         /\ Disconnect(c).io = "closed"
         /\ Disconnect(c).reconnecting = FALSE
         /\ Disconnect(c).due = -1
         /\ Disconnect(c).connected = FALSE
<1> DEFINE t == ClearConnectionTimer(c)
           cleared == [t EXCEPT !.listening = FALSE]
           m == ManagerClose(cleared)
           m1 == [m EXCEPT !.connected = FALSE]
<1>1. /\ t \in Connections
      /\ t.timers = 0 /\ t.armed = FALSE /\ t.io = c.io
      /\ t.due = -1 <=> c.due = -1
      /\ t.reconnecting = c.reconnecting
      /\ t.socket = c.socket /\ t.connected = c.connected
  BY ClearConnectionTimerFacts
<1> HIDE DEF t
<1>2. /\ cleared \in Connections
      /\ cleared.listening = FALSE
      /\ cleared.timers = 0 /\ cleared.armed = FALSE /\ cleared.io = c.io
      /\ cleared.due = -1 <=> c.due = -1
      /\ cleared.reconnecting = c.reconnecting
      /\ cleared.socket = c.socket /\ cleared.connected = c.connected
  <2>1. cleared \in Connections
    BY <1>1, FieldUpdates
  <2> QED
    BY <1>1, <2>1 DEF Connections
<1>3. Disconnect(c) = IF c.socket THEN [m1 EXCEPT !.socket = FALSE]
                                  ELSE cleared
  BY DEF Disconnect, t
<1> HIDE DEF cleared
<1>4. CASE c.socket = FALSE
  BY <1>2, <1>3, <1>4
<1>5. CASE c.socket = TRUE
  <2>1. /\ m \in Connections
        /\ m.listening = FALSE /\ m.timers = 0 /\ m.armed = FALSE
        /\ m.io = "closed" /\ m.due = -1 /\ m.reconnecting = FALSE
    BY <1>2, ManagerCloseFacts
  <2> HIDE DEF m
  <2>2. /\ m1 \in Connections
        /\ m1.listening = FALSE /\ m1.timers = 0 /\ m1.armed = FALSE
        /\ m1.io = "closed" /\ m1.due = -1 /\ m1.reconnecting = FALSE
        /\ m1.connected = FALSE
    <3>1. m1 \in Connections
      BY <2>1, FieldUpdates
    <3> QED
      BY <2>1, <3>1 DEF Connections
  <2> HIDE DEF m1
  <2>3. Disconnect(c) = [m1 EXCEPT !.socket = FALSE]
    BY <1>3, <1>5
  <2>4. Disconnect(c) \in Connections
    BY <2>2, <2>3, FieldUpdates
  <2> QED
    BY <2>2, <2>3, <2>4 DEF Connections
<1> QED
  BY <1>4, <1>5 DEF Connections
-----------------------------------------------------------------------------
(* The invariant is inductive. *)

\* The invariant holds initially: nothing is connected and no timer is set.
LEMMA InitIInv == Init => IInv
<1> SUFFICES ASSUME Init PROVE IInv
  OBVIOUS
<1>1. TypeOK
  <2>1. conn \in Connections
    BY ConstantsAssumption DEF Init, Connections, Idle
  <2>2. waiting \in 0..MaxWaiting
    BY ConstantsAssumption DEF Init
  <2> QED
    BY <2>1, <2>2 DEF Init, TypeOK, Causes
<1>2. NoLeakedTimer /\ RetriesOnlyWhenDown /\ TimerOrder
  BY DEF Init, Idle, NoLeakedTimer, RetriesOnlyWhenDown, TimerOrder
<1>3. SessionOverTransport /\ LauncherInStep
  BY DEF Init, Idle, SessionOverTransport, LauncherInStep
<1>4. ClosedIsQuiet /\ RetryPending
  BY DEF Init, Idle, ClosedIsQuiet, RetryPending
<1>5. OrphanTimer /\ CleanStop /\ CrashOnlyAfterRefusal
  BY DEF Init, Idle, OrphanTimer, CleanStop, CrashOnlyAfterRefusal
<1> QED
  BY <1>1, <1>2, <1>3, <1>4, <1>5 DEF IInv

\* What disconnect() does to conn in any state of the invariant.
LEMMA DisconnectConn ==
  ASSUME IInv
  PROVE  /\ Disconnect(conn) \in Connections
         /\ Disconnect(conn).socket = FALSE
         /\ Disconnect(conn).listening = FALSE
         /\ Disconnect(conn).timers = 0
         /\ Disconnect(conn).armed = FALSE
         /\ Disconnect(conn).io = "closed"
         /\ Disconnect(conn).reconnecting = FALSE
         /\ Disconnect(conn).due = -1
         /\ Disconnect(conn).connected = FALSE
<1>1. /\ conn \in Connections
      /\ conn.timers = IF conn.armed THEN 1 ELSE 0
      /\ conn.due \in {-1, conn.timers}
  BY DEF IInv, TypeOK, NoLeakedTimer, TimerOrder
<1>2. conn.socket = FALSE => /\ conn.io = "closed"
                             /\ conn.due = -1
                             /\ conn.reconnecting = FALSE
                             /\ conn.connected = FALSE
  BY <1>1 DEF IInv, TypeOK, Connections, LauncherInStep, ClosedIsQuiet, TimerOrder
<1> QED
  BY <1>1, <1>2, DisconnectFacts

\* Closing the launcher by any way that disconnects preserves the invariant:
\* nothing is left that could act.
LEMMA CloseIInv ==
  ASSUME IInv, proc \in {"init", "up"}, proc' \in {"up", "exited"},
         conn' \in Connections,
         conn'.socket = FALSE, conn'.listening = FALSE, conn'.timers = 0,
         conn'.armed = FALSE, conn'.io = "closed", conn'.reconnecting = FALSE,
         conn'.due = -1, conn'.connected = FALSE,
         NEW why \in Causes \ {"none"}, Close(why),
         waiting' \in {0, waiting}, exitCode' \in {0, 1},
         cause \in {"signal", "service"} => exitCode' = 0,
         why \in {"signal", "service"} => exitCode' = 0
  PROVE  IInv'
<1>1. TypeOK'
  <2>1. waiting' \in 0..MaxWaiting
    BY ConstantsAssumption DEF IInv, TypeOK
  <2> QED
    BY <2>1 DEF IInv, TypeOK, Close, Causes
<1>2. (NoLeakedTimer /\ RetriesOnlyWhenDown /\ TimerOrder)'
  BY DEF NoLeakedTimer, RetriesOnlyWhenDown, TimerOrder
<1>3. (SessionOverTransport /\ ClosedIsQuiet /\ RetryPending)'
  BY DEF Close, SessionOverTransport, ClosedIsQuiet, RetryPending
<1>4. (LauncherInStep /\ OrphanTimer /\ CleanStop /\ CrashOnlyAfterRefusal)'
  BY DEF Close, LauncherInStep, OrphanTimer, CleanStop, CrashOnlyAfterRefusal,
         IInv, Causes
<1> QED
  BY <1>1, <1>2, <1>3, <1>4 DEF IInv

\* A step of a running launcher that keeps it running preserves the invariant
\* if it leaves the timers in order and something under way.
LEMMA KeepRunningIInv ==
  ASSUME IInv, running = TRUE,
         UNCHANGED <<running, proc, exitCode, cause>>,
         conn' \in Connections, conn'.socket = TRUE, conn'.listening = TRUE,
         session' \in {"none", "sent", "deployed"},
         waiting' \in 0..MaxWaiting,
         NoLeakedTimer', RetriesOnlyWhenDown', TimerOrder',
         SessionOverTransport',
         \/ conn'.connected = TRUE
         \/ conn'.io # "closed" \/ conn'.due >= 0 \/ conn'.timers > 0
  PROVE  IInv'
<1>1. TypeOK'
  BY DEF IInv, TypeOK
<1>2. (LauncherInStep /\ ClosedIsQuiet /\ OrphanTimer)'
  BY DEF IInv, LauncherInStep, ClosedIsQuiet, OrphanTimer
<1>3. RetryPending'
  BY DEF RetryPending
<1>4. (CleanStop /\ CrashOnlyAfterRefusal)'
  BY DEF IInv, CleanStop, CrashOnlyAfterRefusal
<1> QED
  BY <1>1, <1>2, <1>3, <1>4 DEF IInv

\* What the invariant says of a connection that is doing something.
LEMMA ActiveFacts ==
  ASSUME IInv
  PROVE  /\ conn \in Connections
         /\ conn.timers \in {0, 1} /\ conn.armed = (conn.timers = 1)
         /\ conn.due \in {-1, conn.timers}
         /\ waiting \in 0..MaxWaiting
         /\ session \in {"none", "sent", "deployed"}
         /\ conn.io # "closed" => /\ conn.timers = 0 /\ conn.due = -1
                                  /\ conn.armed = FALSE
         /\ \/ conn.io # "closed" \/ conn.due >= 0 \/ conn.connected = TRUE
            => /\ running = TRUE
               /\ conn.socket = TRUE /\ conn.listening = TRUE
               /\ cause = "none" /\ proc = "up"
<1>1. conn \in Connections /\ waiting \in 0..MaxWaiting
      /\ session \in {"none", "sent", "deployed"}
  BY DEF IInv, TypeOK
<1>2. /\ conn.timers \in {0, 1} /\ conn.armed = (conn.timers = 1)
      /\ conn.io # "closed" => /\ conn.timers = 0 /\ conn.due = -1
                               /\ conn.armed = FALSE
  BY <1>1 DEF IInv, NoLeakedTimer, RetriesOnlyWhenDown, Connections
<1>3. conn.due \in {-1, conn.timers}
  BY DEF IInv, TimerOrder
<1>4. running = FALSE => /\ conn.io = "closed" /\ conn.due = -1
                         /\ conn.connected = FALSE
  BY <1>1 DEF IInv, ClosedIsQuiet, Connections
<1>5. running = TRUE => /\ conn.socket = TRUE /\ conn.listening = TRUE
                        /\ cause = "none" /\ proc = "up"
  BY <1>1 DEF IInv, LauncherInStep, Connections
<1>6. running \in BOOLEAN
  BY DEF IInv, TypeOK
<1>7. \/ conn.io # "closed" \/ conn.due >= 0 \/ conn.connected = TRUE
      => running = TRUE
  BY <1>4, <1>6
<1> QED
  BY <1>1, <1>2, <1>3, <1>5, <1>7

\* Before run() the connection is idle.
LEMMA BeforeRun ==
  ASSUME IInv, proc = "init"
  PROVE  /\ running = FALSE /\ cause = "none" /\ session = "none"
         /\ conn.io = "closed" /\ conn.due = -1 /\ conn.connected = FALSE
         /\ conn.timers = 0 /\ conn.armed = FALSE
         /\ conn.reconnecting = FALSE
<1>1. running = FALSE /\ cause = "none"
  <2>1. running \in BOOLEAN /\ LauncherInStep
    BY DEF IInv, TypeOK
  <2> QED
    BY <2>1 DEF LauncherInStep
<1>2. conn.io = "closed" /\ conn.due = -1 /\ conn.connected = FALSE
      /\ session = "none"
  BY <1>1, ActiveFacts DEF IInv, ClosedIsQuiet, Connections
<1>3. conn.timers = 0 /\ conn.armed = FALSE
  <2>1. ~(conn.timers > 0)
    BY <1>1 DEF IInv, OrphanTimer
  <2>2. conn.timers = 0
    BY <2>1, ActiveFacts
  <2> QED
    BY <2>2, ActiveFacts DEF IInv, NoLeakedTimer, Connections
<1>4. conn.reconnecting = FALSE
  <2>1. ~(conn.due >= 0)
    BY <1>2
  <2> QED
    BY <1>2, <2>1, ActiveFacts DEF IInv, TimerOrder, Connections
<1> QED
  BY <1>1, <1>2, <1>3, <1>4

\* Every step of the server, the launcher, the command and the network
\* preserves the invariant.
LEMMA StepIInv == IInv /\ [Next]_vars => IInv'
<1> SUFFICES ASSUME IInv, [Next]_vars PROVE IInv'
  OBVIOUS
<1> USE DEF Causes
<1> DEFINE Timers == NoLeakedTimer /\ RetriesOnlyWhenDown /\ TimerOrder
<1>0. /\ conn \in Connections
      /\ exitCode \in {0, 1}
      /\ running \in BOOLEAN
  BY DEF IInv, TypeOK
<1>1. CASE Run
  <2>1. running = FALSE /\ conn.timers = 0 /\ conn.io = "closed"
        /\ conn.due = -1 /\ conn.connected = FALSE
        /\ conn.armed = FALSE /\ conn.reconnecting = FALSE
        /\ session = "none" /\ waiting \in 0..MaxWaiting /\ cause = "none"
    BY <1>1, ActiveFacts, BeforeRun DEF Run
  <2> DEFINE c1 == [conn EXCEPT !.listening = TRUE]
             c2 == [c1 EXCEPT !.socket = TRUE]
  <2>2. c1 \in Connections
    BY <1>0, FieldUpdates
  <2>3. c2 \in Connections
    BY <2>2, FieldUpdates
  <2>4. conn' = [c2 EXCEPT !.io = "opening"]
    BY <1>1 DEF Run, Connect, Subscribe
  <2>5. conn' \in Connections
    <3> HIDE DEF c2
    <3> QED
      BY <2>3, <2>4, FieldUpdates
  <2>6. /\ conn'.socket = TRUE /\ conn'.listening = TRUE
        /\ conn'.timers = 0 /\ conn'.armed = FALSE /\ conn'.due = -1
        /\ conn'.io = "opening" /\ conn'.reconnecting = FALSE
        /\ conn'.connected = FALSE
    BY <1>0, <2>1, <2>4 DEF Connections
  <2> HIDE DEF c1, c2
  <2>7. Timers' /\ SessionOverTransport'
    BY <1>1, <2>1, <2>6
    DEF Run, NoLeakedTimer, RetriesOnlyWhenDown, TimerOrder,
        SessionOverTransport
  <2>8. TypeOK'
    BY <1>1, <2>1, <2>5 DEF Run, IInv, TypeOK
  <2>9. (LauncherInStep /\ ClosedIsQuiet /\ RetryPending)'
    BY <1>1, <2>1, <2>6 DEF Run, LauncherInStep, ClosedIsQuiet, RetryPending
  <2>10. (OrphanTimer /\ CleanStop /\ CrashOnlyAfterRefusal)'
    BY <1>1, <2>1, <2>6 DEF Run, OrphanTimer, CleanStop, CrashOnlyAfterRefusal
  <2> QED
    BY <2>7, <2>8, <2>9, <2>10 DEF IInv
<1>2. CASE RunFails
  <2> DEFINE c1 == [conn EXCEPT !.listening = TRUE]
  <2>1. conn.timers = 0 /\ conn.io = "closed"
        /\ conn.due = -1 /\ conn.connected = FALSE
        /\ conn.armed = FALSE /\ conn.reconnecting = FALSE
        /\ cause = "none"
    BY <1>2, BeforeRun DEF RunFails
  <2>2. c1 \in Connections
    BY <1>0, FieldUpdates
  <2>3. c1.timers = 0 /\ c1.armed = FALSE /\ c1.due = -1 /\ c1.io = "closed"
        /\ c1.reconnecting = FALSE /\ c1.connected = FALSE
    BY <1>0, <2>1 DEF Connections
  <2>4. conn' = Disconnect(c1)
    BY <1>2 DEF RunFails, Subscribe
  <2> HIDE DEF c1
  <2>5. conn' \in Connections
        /\ conn'.socket = FALSE /\ conn'.listening = FALSE
        /\ conn'.timers = 0 /\ conn'.armed = FALSE /\ conn'.io = "closed"
        /\ conn'.reconnecting = FALSE /\ conn'.due = -1
        /\ conn'.connected = FALSE
    BY <2>2, <2>3, <2>4, DisconnectFacts
  <2>6. proc = "init" /\ proc' = "up" /\ Close("start") /\ exitCode' = 1
        /\ waiting' = waiting
    BY <1>2 DEF RunFails
  <2> QED
    BY <2>1, <2>5, <2>6, CloseIInv
<1>3. CASE Signal
  <2>1. proc = "up" /\ proc' = "up" /\ Close("signal") /\ exitCode' = 0
        /\ conn' = Disconnect(conn) /\ waiting' = waiting
    BY <1>3 DEF Signal
  <2> QED
    BY <2>1, DisconnectConn, CloseIInv
<1>4. CASE ServiceStop
  <2>1. proc = "up" /\ proc' = "exited" /\ Close("service") /\ exitCode' = 0
        /\ conn' = Disconnect(conn) /\ waiting' = waiting
    BY <1>4 DEF ServiceStop
  <2> QED
    BY <2>1, DisconnectConn, CloseIInv
<1>5. CASE TransportOpened
  <2> DEFINE c1 == [conn EXCEPT !.io = "open"]
  <2>1. conn.io = "opening" /\ UNCHANGED <<running, session, waiting, proc,
                                           exitCode, cause>>
    BY <1>5 DEF TransportOpened
  <2>2. conn' \in Connections
    <3>1. c1 \in Connections
      BY <1>0, FieldUpdates
    <3>2. conn' = [c1 EXCEPT !.reconnecting = FALSE]
      BY <1>5 DEF TransportOpened
    <3> QED
      BY <3>1, <3>2, FieldUpdates
  <2>3. /\ conn'.io = "open" /\ conn'.reconnecting = FALSE
        /\ conn'.socket = conn.socket /\ conn'.listening = conn.listening
        /\ conn'.timers = conn.timers /\ conn'.armed = conn.armed
        /\ conn'.due = conn.due /\ conn'.connected = conn.connected
    BY <1>0, <1>5 DEF TransportOpened, Connections
  <2>4. Timers' /\ SessionOverTransport'
    BY <2>1, <2>3, ActiveFacts
    DEF NoLeakedTimer, RetriesOnlyWhenDown, TimerOrder, SessionOverTransport,
        IInv
  <2> QED
    BY <2>1, <2>2, <2>3, <2>4, ActiveFacts, KeepRunningIInv
<1>6. CASE TransportFails
  <2> DEFINE c1 == [conn EXCEPT !.io = "closed"]
             c2 == ScheduleReconnection(c1)
             c3 == [c2 EXCEPT !.reconnecting = TRUE]
  <2>1. conn.io = "opening" /\ UNCHANGED <<running, session, waiting, proc,
                                           exitCode, cause>>
    BY <1>6 DEF TransportFails
  <2>2. conn.timers = 0 /\ conn.connected = FALSE
    BY <1>0, <2>1, ActiveFacts DEF IInv, SessionOverTransport, Connections
  <2>3. c1 \in Connections /\ c1.io = "closed" /\ c1.timers = 0
        /\ c1.connected = FALSE
        /\ c1.socket = conn.socket /\ c1.listening = conn.listening
    <3>1. c1 \in Connections
      BY <1>0, FieldUpdates
    <3> QED
      BY <1>0, <2>2, <3>1 DEF Connections
  <2> HIDE DEF c1
  <2>4. c2 \in Connections /\ c2.io = "closed" /\ c2.timers = 1
        /\ c2.armed = TRUE /\ c2.connected = FALSE
        /\ c2.socket = conn.socket /\ c2.listening = conn.listening
    <3>1. c2 \in Connections /\ c2.timers = c1.timers + 1
      BY <2>3, ScheduleReconnectionFacts
    <3>2. c2.timers = 1
      BY <2>3, <3>1
    <3> QED
      BY <2>3, <3>1, <3>2, ScheduleReconnectionFacts
  <2>5. conn' = [c3 EXCEPT !.due = 1]
    <3>1. conn' \in ManagerReconnect(c2)
      BY <1>6 DEF TransportFails, c1
    <3>2. DuePositions(c2.timers) = {1}
      BY <2>4 DEF DuePositions, SamePace, MinReconnectionDelay,
                  MaxReconnectionDelay
    <3> HIDE DEF c2
    <3> QED
      BY <3>1, <3>2 DEF ManagerReconnect
  <2> HIDE DEF c2
  <2>6. c3 \in Connections
    BY <2>4, FieldUpdates
  <2>7. conn' \in Connections
    <3> HIDE DEF c3
    <3> 1 \in Int
      OBVIOUS
    <3> QED
      BY <2>5, <2>6, FieldUpdates
  <2>8. /\ conn'.io = "closed" /\ conn'.timers = 1 /\ conn'.armed = TRUE
        /\ conn'.reconnecting = TRUE /\ conn'.due = 1
        /\ conn'.connected = FALSE
        /\ conn'.socket = conn.socket /\ conn'.listening = conn.listening
    BY <2>4, <2>5 DEF Connections
  <2> HIDE DEF c3
  <2>9. Timers' /\ SessionOverTransport'
    BY <1>0, <2>1, <2>2, <2>8
    DEF NoLeakedTimer, RetriesOnlyWhenDown, TimerOrder, SessionOverTransport,
        IInv, Connections
  <2> QED
    BY <2>1, <2>7, <2>8, <2>9, ActiveFacts, KeepRunningIInv
<1>7. CASE TransportGivesUp
  <2> DEFINE c1 == [conn EXCEPT !.io = "closed"]
             c2 == [c1 EXCEPT !.reconnecting = FALSE]
             c3 == ScheduleReconnection(c2)
  <2>1. conn.io = "opening" /\ proc = "up" /\ proc' = "up"
        /\ Close("gave_up") /\ exitCode' = 1 /\ conn' = Disconnect(c3)
        /\ waiting' = waiting
    BY <1>7 DEF TransportGivesUp, ReconnectionFailed
  <2>2. conn.timers = 0 /\ conn.due = -1 /\ conn.connected = FALSE
        /\ conn.socket = TRUE /\ cause = "none"
    BY <1>0, <2>1, ActiveFacts DEF IInv, SessionOverTransport, Connections
  <2>3. c2 \in Connections
    <3>1. c1 \in Connections
      BY <1>0, FieldUpdates
    <3> HIDE DEF c1
    <3> QED
      BY <3>1, FieldUpdates
  <2>4. c2.timers = 0 /\ c2.due = -1 /\ c2.socket = TRUE
    BY <1>0, <2>2 DEF Connections
  <2> HIDE DEF c2
  <2>5. c3 \in Connections /\ c3.timers = 1 /\ c3.armed = TRUE
        /\ c3.due = -1 /\ c3.socket = TRUE
    <3>1. c3 \in Connections /\ c3.timers = c2.timers + 1
      BY <2>3, ScheduleReconnectionFacts
    <3>2. c3.timers = 1
      BY <2>4, <3>1
    <3> QED
      BY <2>3, <2>4, <3>1, <3>2, ScheduleReconnectionFacts
  <2> HIDE DEF c3
  <2>6. conn' \in Connections
        /\ conn'.socket = FALSE /\ conn'.listening = FALSE
        /\ conn'.timers = 0 /\ conn'.armed = FALSE /\ conn'.io = "closed"
        /\ conn'.reconnecting = FALSE /\ conn'.due = -1
        /\ conn'.connected = FALSE
    BY <2>1, <2>5, DisconnectFacts
  <2> QED
    BY <2>1, <2>2, <2>6, CloseIInv
<1>8. CASE ServerAccepts
  <2> DEFINE c1 == ClearConnectionTimer(conn)
             c2 == [c1 EXCEPT !.attempts = 0]
  <2>1. conn.io = "open" /\ UNCHANGED <<running, proc, exitCode, cause>>
    BY <1>8 DEF ServerAccepts
  <2>2. /\ c1 \in Connections /\ c1.timers = 0 /\ c1.armed = FALSE
        /\ c1.due = -1 /\ c1.io = "open"
        /\ c1.reconnecting = conn.reconnecting
        /\ c1.socket = conn.socket /\ c1.listening = conn.listening
    BY <1>0, <2>1, ActiveFacts, ClearConnectionTimerFacts
  <2> HIDE DEF c1
  <2>3. c2 \in Connections
    <3>1. 0 \in 0..MaxAttempts
      BY ConstantsAssumption
    <3> QED
      BY <2>2, <3>1, FieldUpdates
  <2>4. conn' = [c2 EXCEPT !.connected = TRUE]
    BY <1>8 DEF ServerAccepts, HandleConnect, c1
  <2>5. conn' \in Connections
    <3> HIDE DEF c2
    <3> QED
      BY <2>3, <2>4, FieldUpdates
  <2>6. /\ conn'.connected = TRUE /\ conn'.timers = 0 /\ conn'.armed = FALSE
        /\ conn'.due = -1 /\ conn'.io = "open"
        /\ conn'.reconnecting = conn.reconnecting
        /\ conn'.socket = conn.socket /\ conn'.listening = conn.listening
    BY <2>2, <2>4 DEF Connections
  <2> HIDE DEF c2
  <2>7. running = TRUE /\ conn.socket = TRUE /\ conn.listening = TRUE
    BY <2>1, ActiveFacts
  <2>8. session' = "sent" /\ waiting' \in 0..MaxWaiting
    BY <1>8, <2>7, ActiveFacts, ConstantsAssumption DEF ServerAccepts, Lesser
  <2>9. Timers' /\ SessionOverTransport'
    BY <2>1, <2>6, <2>8
    DEF NoLeakedTimer, RetriesOnlyWhenDown, TimerOrder, SessionOverTransport,
        IInv
  <2> QED
    BY <2>1, <2>5, <2>6, <2>7, <2>8, <2>9, KeepRunningIInv
<1>9. CASE ServerRejects
  <2> DEFINE c1 == ManagerClose(conn)
  <2>1. PICK code \in ErrorCodes \cup {NoData} : HandleConnectionError(code)
    BY <1>9 DEF ServerRejects
  <2>2. /\ conn.io = "open" /\ conn.connected = FALSE
        /\ conn.timers = 0 /\ conn.armed = FALSE
        /\ running = TRUE /\ conn.socket = TRUE /\ conn.listening = TRUE
        /\ cause = "none" /\ proc = "up" /\ UNCHANGED proc
    BY <1>0, <1>9, ActiveFacts DEF ServerRejects, Connections
  <2>3. /\ c1 \in Connections /\ c1.io = "closed" /\ c1.due = -1
        /\ c1.reconnecting = FALSE /\ c1.connected = FALSE
        /\ c1.timers = 0 /\ c1.armed = FALSE
        /\ c1.socket = TRUE /\ c1.listening = TRUE
    BY <1>0, <2>2, ManagerCloseFacts
  <2>4. CASE /\ conn' = ScheduleReconnection(Disconnect(c1))
             /\ HandleCriticalError
             /\ waiting' = waiting
    <3> DEFINE c2 == Disconnect(c1)
    <3> HIDE DEF c1
    <3>1. c2 \in Connections
          /\ c2.socket = FALSE /\ c2.listening = FALSE
          /\ c2.timers = 0 /\ c2.armed = FALSE /\ c2.io = "closed"
          /\ c2.reconnecting = FALSE /\ c2.due = -1
          /\ c2.connected = FALSE
      BY <2>3, DisconnectFacts
    <3> HIDE DEF c2
    <3>2. conn' \in Connections /\ conn'.timers = c2.timers + 1
          /\ conn'.armed = TRUE
          /\ conn'.socket = FALSE /\ conn'.listening = FALSE
          /\ conn'.io = "closed" /\ conn'.reconnecting = FALSE
          /\ conn'.due = -1 /\ conn'.connected = FALSE
      BY <2>4, <3>1, ScheduleReconnectionFacts DEF c2
    <3>3. conn'.timers = 1
      BY <3>1, <3>2
    <3>4. /\ running' = FALSE /\ session' = "none" /\ waiting' = waiting
          /\ cause' = "critical" /\ exitCode' = 1 /\ proc' = "up"
      BY <2>2, <2>4 DEF HandleCriticalError, Close
    <3>5. TypeOK'
      <4>1. waiting' \in 0..MaxWaiting
        BY <3>4 DEF IInv, TypeOK
      <4> QED
        BY <3>2, <3>4, <4>1 DEF TypeOK
    <3>6. Timers' /\ SessionOverTransport'
      BY <3>2, <3>3, <3>4
      DEF NoLeakedTimer, RetriesOnlyWhenDown, TimerOrder, SessionOverTransport
    <3>7. (LauncherInStep /\ ClosedIsQuiet /\ RetryPending)'
      BY <3>2, <3>4 DEF LauncherInStep, ClosedIsQuiet, RetryPending
    <3>8. (OrphanTimer /\ CleanStop /\ CrashOnlyAfterRefusal)'
      BY <3>4 DEF OrphanTimer, CleanStop, CrashOnlyAfterRefusal
    <3> QED
      BY <3>5, <3>6, <3>7, <3>8 DEF IInv
  <2>5. CASE /\ conn' = ScheduleReconnection(c1)
             /\ UNCHANGED <<running, session, waiting, exitCode, cause>>
    <3> HIDE DEF c1
    <3>1. conn' \in Connections /\ conn'.timers = c1.timers + 1
          /\ conn'.armed = TRUE
          /\ conn'.socket = TRUE /\ conn'.listening = TRUE
          /\ conn'.io = "closed" /\ conn'.reconnecting = FALSE
          /\ conn'.due = -1 /\ conn'.connected = FALSE
      BY <2>3, <2>5, ScheduleReconnectionFacts
    <3>2. conn'.timers = 1
      BY <2>3, <3>1
    <3>3. Timers'
      BY <3>1, <3>2 DEF NoLeakedTimer, RetriesOnlyWhenDown, TimerOrder
    <3>4. SessionOverTransport'
      BY <2>2, <2>5, <3>1 DEF SessionOverTransport, IInv
    <3>5. UNCHANGED <<running, proc, exitCode, cause, session, waiting>>
      BY <2>2, <2>5
    <3>6. conn'.timers > 0
      BY <3>2
    <3> QED
      BY <2>2, <3>1, <3>3, <3>4, <3>5, <3>6, ActiveFacts, KeepRunningIInv
  <2> QED
    BY <2>1, <2>4, <2>5 DEF HandleConnectionError
<1>10. CASE ServerDisconnects
  <2> DEFINE c1 == ManagerClose(conn)
             c2 == [c1 EXCEPT !.connected = FALSE]
  <2>1. /\ conn.connected = TRUE /\ session' = "none"
        /\ UNCHANGED <<running, waiting, proc, exitCode, cause>>
        /\ conn' = SocketConnect(c2)
    BY <1>0, <1>10
    DEF ServerDisconnects, HandleServerDisconnect, Connections
  <2>2. /\ running = TRUE /\ conn.socket = TRUE /\ conn.listening = TRUE
        /\ conn.io = "open" /\ conn.timers = 0 /\ conn.armed = FALSE
    BY <1>0, <2>1, ActiveFacts DEF IInv, SessionOverTransport
  <2>3. /\ c1 \in Connections /\ c1.io = "closed" /\ c1.due = -1
        /\ c1.reconnecting = FALSE
        /\ c1.timers = 0 /\ c1.armed = FALSE
        /\ c1.socket = TRUE /\ c1.listening = TRUE
    BY <1>0, <2>2, ManagerCloseFacts
  <2> HIDE DEF c1
  <2>4. c2 \in Connections
    BY <2>3, FieldUpdates
  <2>5. /\ c2.io = "closed" /\ c2.due = -1 /\ c2.reconnecting = FALSE
        /\ c2.timers = 0 /\ c2.armed = FALSE /\ c2.connected = FALSE
        /\ c2.socket = TRUE /\ c2.listening = TRUE
    BY <2>3 DEF Connections
  <2> HIDE DEF c2
  <2>6. conn' = [c2 EXCEPT !.io = "opening"]
    BY <2>1, <2>5 DEF SocketConnect
  <2>7. conn' \in Connections
    BY <2>4, <2>6, FieldUpdates
  <2>8. /\ conn'.io = "opening" /\ conn'.due = -1
        /\ conn'.reconnecting = FALSE
        /\ conn'.timers = 0 /\ conn'.armed = FALSE /\ conn'.connected = FALSE
        /\ conn'.socket = TRUE /\ conn'.listening = TRUE
    BY <2>4, <2>5, <2>6 DEF Connections
  <2>9. Timers' /\ SessionOverTransport'
    BY <2>1, <2>8
    DEF NoLeakedTimer, RetriesOnlyWhenDown, TimerOrder, SessionOverTransport
  <2> QED
    BY <2>1, <2>2, <2>7, <2>8, <2>9, ActiveFacts, KeepRunningIInv
<1>11. CASE TransportLost
  <2> DEFINE c1 == [conn EXCEPT !.io = "closed"]
             c2 == [c1 EXCEPT !.connected = FALSE]
             c3 == [c2 EXCEPT !.reconnecting = TRUE]
  <2>1. /\ conn.io = "open" /\ session' = "none"
        /\ UNCHANGED <<running, waiting, proc, exitCode, cause>>
        /\ conn' \in ManagerReconnect(c2)
    BY <1>11 DEF TransportLost
  <2>2. /\ running = TRUE /\ conn.socket = TRUE /\ conn.listening = TRUE
        /\ conn.timers = 0 /\ conn.armed = FALSE
    BY <2>1, ActiveFacts
  <2>3. c2 \in Connections
    <3>1. c1 \in Connections
      BY <1>0, FieldUpdates
    <3> HIDE DEF c1
    <3> QED
      BY <3>1, FieldUpdates
  <2>4. /\ c2.io = "closed" /\ c2.timers = 0 /\ c2.armed = FALSE
        /\ c2.connected = FALSE /\ c2.socket = TRUE /\ c2.listening = TRUE
    BY <1>0, <2>2 DEF Connections
  <2> HIDE DEF c2
  <2>5. conn' = [c3 EXCEPT !.due = 0]
    <3>1. DuePositions(c2.timers) = {0}
      BY <2>4 DEF DuePositions, SamePace, MinReconnectionDelay,
                  MaxReconnectionDelay
    <3> QED
      BY <2>1, <3>1 DEF ManagerReconnect
  <2>6. c3 \in Connections
    BY <2>3, FieldUpdates
  <2>7. conn' \in Connections
    <3> HIDE DEF c3
    <3> 0 \in Int
      OBVIOUS
    <3> QED
      BY <2>5, <2>6, FieldUpdates
  <2>8. /\ conn'.io = "closed" /\ conn'.timers = 0 /\ conn'.armed = FALSE
        /\ conn'.reconnecting = TRUE /\ conn'.due = 0
        /\ conn'.connected = FALSE
        /\ conn'.socket = TRUE /\ conn'.listening = TRUE
    BY <2>3, <2>4, <2>5 DEF Connections
  <2> HIDE DEF c3
  <2>9. Timers' /\ SessionOverTransport'
    BY <2>1, <2>8
    DEF NoLeakedTimer, RetriesOnlyWhenDown, TimerOrder, SessionOverTransport
  <2>10. conn'.due >= 0
    BY <2>8
  <2> QED
    BY <2>1, <2>2, <2>7, <2>8, <2>9, <2>10, ActiveFacts, KeepRunningIInv
<1>12. CASE ConnectionTimerFires
  <2> DEFINE d == IF conn.due > 0 THEN conn.due - 1 ELSE conn.due
             b == conn.armed /\ conn.timers > 1
             c1 == [conn EXCEPT !.timers = conn.timers - 1]
             c2 == [c1 EXCEPT !.due = d]
             fired == [c2 EXCEPT !.armed = b]
  <2>1. /\ UNCHANGED <<running, session, waiting, cause>>
        /\ IF conn.socket
           THEN conn' = SocketConnect(fired) /\ UNCHANGED <<proc, exitCode>>
           ELSE conn' = fired /\ proc' = "crashed" /\ exitCode' = 1
    BY <1>0, <1>12 DEF ConnectionTimerFires, Connections
  <2>2. /\ conn.timers = 1 /\ conn.due \in {-1, 1} /\ conn.io = "closed"
        /\ conn.connected = FALSE
    <3>1. conn.timers = 1 /\ conn.due \in {-1, 1}
      BY <1>12, ActiveFacts DEF ConnectionTimerFires
    <3>2. conn.io = "closed"
      BY <3>1 DEF IInv, RetriesOnlyWhenDown
    <3> QED
      BY <1>0, <3>1, <3>2 DEF IInv, SessionOverTransport, Connections
  <2>3. /\ conn.timers - 1 = 0 /\ b = FALSE /\ d \in {-1, 0}
        /\ d = 0 <=> conn.due = 1
    BY <2>2
  <2> HIDE DEF d, b
  <2>4. fired \in Connections
    <3>1. c1 \in Connections
      BY <1>0, <2>3, FieldUpdates
    <3> HIDE DEF c1
    <3>2. d \in Int
      BY <2>3
    <3>3. c2 \in Connections
      BY <3>1, <3>2, FieldUpdates
    <3> HIDE DEF c2
    <3> QED
      BY <2>3, <3>3, FieldUpdates
  <2>5. /\ fired.timers = 0 /\ fired.armed = FALSE /\ fired.due = d
        /\ fired.io = "closed" /\ fired.connected = FALSE
        /\ fired.reconnecting = conn.reconnecting
        /\ fired.socket = conn.socket /\ fired.listening = conn.listening
    BY <1>0, <2>2, <2>3 DEF Connections
  <2> HIDE DEF fired
  <2>6. conn.reconnecting = (d = 0)
    <3>1. conn.due >= 0 <=> d = 0
      BY <2>2, <2>3
    <3> QED
      BY <1>0, <2>2, <3>1 DEF IInv, TimerOrder, Connections
  <2>7. CASE conn.socket = TRUE
    <3>1. running = TRUE /\ conn.listening = TRUE
      BY <1>0, <2>7 DEF IInv, ClosedIsQuiet, LauncherInStep, Connections
    <3>2. conn' = SocketConnect(fired) /\ UNCHANGED <<proc, exitCode>>
      BY <2>1, <2>7
    <3>3. conn' \in Connections
      BY <2>4, <3>2, FieldUpdates DEF SocketConnect
    <3>4. session' = "none"
      BY <2>1, <2>2 DEF IInv, SessionOverTransport
    <3>5. CASE d = 0
      <4>0. conn.reconnecting = TRUE
        BY <2>6, <3>5
      <4>1. conn' = fired
        BY <2>5, <3>2, <4>0 DEF SocketConnect
      <4>2. Timers' /\ SessionOverTransport'
        BY <2>5, <3>4, <3>5, <4>0, <4>1
        DEF NoLeakedTimer, RetriesOnlyWhenDown, TimerOrder,
            SessionOverTransport
      <4>3. conn'.due >= 0
        BY <2>5, <3>5, <4>1
      <4> QED
        BY <2>1, <2>5, <2>7, <3>1, <3>2, <3>3, <4>1, <4>2, <4>3,
           ActiveFacts, KeepRunningIInv
    <3>6. CASE d = -1
      <4>0. conn.reconnecting = FALSE
        <5>1. ~(d = 0)
          BY <3>6
        <5> QED
          BY <2>6, <5>1
      <4>1. conn' = [fired EXCEPT !.io = "opening"]
        BY <2>5, <3>2, <4>0 DEF SocketConnect
      <4>2. /\ conn'.timers = 0 /\ conn'.armed = FALSE /\ conn'.due = -1
            /\ conn'.io = "opening" /\ conn'.connected = FALSE
            /\ conn'.reconnecting = FALSE
            /\ conn'.socket = TRUE /\ conn'.listening = TRUE
        BY <2>4, <2>5, <2>7, <3>1, <3>6, <4>0, <4>1 DEF Connections
      <4>3. Timers' /\ SessionOverTransport'
        BY <3>4, <4>2
        DEF NoLeakedTimer, RetriesOnlyWhenDown, TimerOrder,
            SessionOverTransport
      <4> QED
        BY <2>1, <3>1, <3>2, <3>3, <4>2, <4>3, ActiveFacts, KeepRunningIInv
    <3> QED
      BY <2>3, <3>5, <3>6
  <2>8. CASE conn.socket = FALSE
    <3>1. running = FALSE
      BY <1>0, <2>8 DEF IInv, LauncherInStep
    <3>2. conn' = fired /\ proc' = "crashed" /\ exitCode' = 1
      BY <2>1, <2>8
    <3>3. conn.timers > 0
      BY <2>2
    <3>4. cause = "critical" /\ cause' = cause /\ running' = FALSE
          /\ session' = "none" /\ waiting' = waiting
      BY <2>1, <3>1, <3>3 DEF IInv, OrphanTimer, ClosedIsQuiet
    <3>5. d = -1 /\ conn.reconnecting = FALSE /\ conn.listening = FALSE
      BY <1>0, <2>2, <2>3, <2>6, <3>1 DEF IInv, ClosedIsQuiet, Connections
    <3>6. TypeOK'
      BY <2>4, <3>2, <3>4, ActiveFacts DEF TypeOK
    <3>7. Timers' /\ SessionOverTransport'
      BY <2>5, <3>2, <3>4, <3>5
      DEF NoLeakedTimer, RetriesOnlyWhenDown, TimerOrder, SessionOverTransport
    <3>8. (LauncherInStep /\ ClosedIsQuiet /\ RetryPending)'
      BY <2>5, <2>8, <3>2, <3>4, <3>5
      DEF LauncherInStep, ClosedIsQuiet, RetryPending
    <3>9. (OrphanTimer /\ CleanStop /\ CrashOnlyAfterRefusal)'
      BY <3>2, <3>4 DEF OrphanTimer, CleanStop, CrashOnlyAfterRefusal
    <3> QED
      BY <3>6, <3>7, <3>8, <3>9 DEF IInv
  <2> QED
    BY <1>0, <2>7, <2>8 DEF Connections
<1>13. CASE ManagerTimerFires
  <2> DEFINE c1 == [conn EXCEPT !.due = -1]
  <2>1. /\ conn.due = 0
        /\ conn' = [c1 EXCEPT !.io = "opening"]
        /\ UNCHANGED <<running, session, waiting, proc, exitCode, cause>>
    BY <1>13 DEF ManagerTimerFires
  <2>2. /\ conn.timers = 0 /\ conn.armed = FALSE /\ conn.io = "closed"
    <3>1. conn.timers = 0
      BY <2>1 DEF IInv, TimerOrder
    <3>2. conn.armed = FALSE
      BY <1>0, <3>1 DEF IInv, NoLeakedTimer, Connections
    <3>3. conn.due >= 0
      BY <2>1
    <3> QED
      BY <3>1, <3>2, <3>3 DEF IInv, TimerOrder
  <2>3. running = TRUE /\ conn.socket = TRUE /\ conn.listening = TRUE
    <3>1. conn.due >= 0
      BY <2>1
    <3> QED
      BY <3>1, ActiveFacts
  <2>4. session = "none" /\ conn.connected = FALSE
    BY <1>0, <2>2 DEF IInv, SessionOverTransport, Connections
  <2>5. c1 \in Connections
    <3> -1 \in Int
      OBVIOUS
    <3> QED
      BY <1>0, FieldUpdates
  <2>6. conn' \in Connections
    <3> HIDE DEF c1
    <3> QED
      BY <2>1, <2>5, FieldUpdates
  <2>7. /\ conn'.timers = 0 /\ conn'.armed = FALSE /\ conn'.due = -1
        /\ conn'.io = "opening" /\ conn'.connected = FALSE
        /\ conn'.socket = TRUE /\ conn'.listening = TRUE
    BY <1>0, <2>1, <2>2, <2>3, <2>4 DEF Connections
  <2>8. Timers' /\ SessionOverTransport'
    BY <2>1, <2>4, <2>7
    DEF NoLeakedTimer, RetriesOnlyWhenDown, TimerOrder, SessionOverTransport
  <2> QED
    BY <2>1, <2>3, <2>6, <2>7, <2>8, ActiveFacts, KeepRunningIInv
<1>14. CASE \/ Deployed \/ DeployTimesOut
            \/ /\ ServerReportsError
               /\ waiting' = 0
               /\ UNCHANGED <<conn, running, session, exitCode, cause>>
            \/ UNCHANGED vars
  <2>1. /\ UNCHANGED <<conn, running, proc, exitCode, cause>>
        /\ session' = session \/ (conn.connected /\ session' = "deployed")
        /\ session' \in {"none", "sent", "deployed"}
    BY <1>14, ActiveFacts DEF Deployed, DeployTimesOut, ServerReportsError, vars
  <2>2. waiting' \in 0..MaxWaiting
    BY <1>14, ActiveFacts, ConstantsAssumption
    DEF Deployed, DeployTimesOut, vars
  <2>3. TypeOK'
    BY <2>1, <2>2 DEF IInv, TypeOK
  <2>4. Timers' /\ SessionOverTransport'
    BY <2>1
    DEF IInv, NoLeakedTimer, RetriesOnlyWhenDown, TimerOrder,
        SessionOverTransport
  <2>5. (LauncherInStep /\ ClosedIsQuiet /\ RetryPending)'
    BY <2>1 DEF IInv, LauncherInStep, ClosedIsQuiet, RetryPending
  <2>6. (OrphanTimer /\ CleanStop /\ CrashOnlyAfterRefusal)'
    BY <2>1 DEF IInv, OrphanTimer, CleanStop, CrashOnlyAfterRefusal
  <2> QED
    BY <2>3, <2>4, <2>5, <2>6 DEF IInv
<1>15. CASE ServerReportsError
  <2>1. PICK code \in ErrorCodes : HandleError(code)
    BY <1>15 DEF ServerReportsError
  <2>2. CASE conn' = Disconnect(conn) /\ HandleCriticalError /\ waiting' = 0
    <3>1. proc = "up" /\ proc' = "up" /\ Close("critical") /\ exitCode' = 1
          /\ conn' = Disconnect(conn) /\ waiting' = 0
      BY <1>15, <2>2 DEF ServerReportsError, HandleCriticalError
    <3>2. cause = "none"
      BY <1>15, ActiveFacts DEF ServerReportsError, Connections
    <3> QED
      BY <3>1, <3>2, DisconnectConn, CloseIInv
  <2>3. CASE /\ waiting' = 0
             /\ UNCHANGED <<conn, running, session, exitCode, cause>>
    BY <1>14, <1>15, <2>3
  <2> QED
    BY <2>1, <2>2, <2>3 DEF HandleError
<1>16. CASE Exit
  <2>1. /\ proc = "up" /\ proc' = "exited" /\ NothingPending(conn)
        /\ UNCHANGED <<conn, running, session, waiting, exitCode, cause>>
    BY <1>16 DEF Exit
  <2>2. running = FALSE
    BY <1>0, <2>1
    DEF NothingPending, IInv, RetryPending, SessionOverTransport
  <2>3. TypeOK'
    BY <2>1 DEF IInv, TypeOK
  <2>4. Timers' /\ SessionOverTransport'
    BY <2>1
    DEF IInv, NoLeakedTimer, RetriesOnlyWhenDown, TimerOrder,
        SessionOverTransport
  <2>5. (LauncherInStep /\ ClosedIsQuiet /\ RetryPending)'
    BY <2>1, <2>2 DEF IInv, LauncherInStep, ClosedIsQuiet, RetryPending
  <2>6. (OrphanTimer /\ CleanStop /\ CrashOnlyAfterRefusal)'
    BY <2>1 DEF IInv, OrphanTimer, CleanStop, CrashOnlyAfterRefusal
  <2> QED
    BY <2>3, <2>4, <2>5, <2>6 DEF IInv
<1> QED
  BY <1>1, <1>2, <1>3, <1>4, <1>5, <1>6, <1>7, <1>8, <1>9, <1>10, <1>11,
     <1>12, <1>13, <1>14, <1>15, <1>16
  DEF Next
-----------------------------------------------------------------------------
(* The theorems. *)

\* The inductive invariant holds in every reachable state.
THEOREM SpecIInv == Spec => []IInv
<1>1. Init => IInv
  BY InitIInv
<1>2. IInv /\ [Next]_vars => IInv'
  BY StepIInv
<1> QED
  BY <1>1, <1>2, PTL DEF Spec

\* Every field and variable of the Repeater's connection keeps its type.
THEOREM SpecTypeOK == Spec => []TypeOK
<1>1. IInv => TypeOK
  BY DEF IInv
<1> QED
  BY <1>1, SpecIInv, PTL

\* scheduleReconnection() never loses a pending timer, although it overwrites
\* the field without clearing it.
THEOREM SpecNoLeakedTimer == Spec => []NoLeakedTimer
<1>1. IInv => NoLeakedTimer
  BY DEF IInv
<1> QED
  BY <1>1, SpecIInv, PTL

\* Neither retry mechanism has a timer pending while a transport is being
\* opened or is open.
THEOREM SpecRetriesOnlyWhenDown == Spec => []RetriesOnlyWhenDown
<1>1. IInv => RetriesOnlyWhenDown
  BY DEF IInv
<1> QED
  BY <1>1, SpecIInv, PTL

\* A running Repeater without a session always has a retry under way.
THEOREM SpecRetryPending == Spec => []RetryPending
<1>1. IInv => RetryPending
  BY DEF IInv
<1> QED
  BY <1>1, SpecIInv, PTL

\* close() leaves nothing of the client behind.
THEOREM SpecClosedIsQuiet == Spec => []ClosedIsQuiet
<1>1. IInv => ClosedIsQuiet
  BY DEF IInv
<1> QED
  BY <1>1, SpecIInv, PTL

\* A Repeater stopped on request ends with code 0 and never crashes.
THEOREM SpecCleanStop == Spec => []CleanStop
<1>1. IInv => CleanStop
  BY DEF IInv
<1> QED
  BY <1>1, SpecIInv, PTL

\* The only uncaught exception follows a refused handshake.
THEOREM SpecCrashOnlyAfterRefusal == Spec => []CrashOnlyAfterRefusal
<1>1. IInv => CrashOnlyAfterRefusal
  BY DEF IInv
<1> QED
  BY <1>1, SpecIInv, PTL
-----------------------------------------------------------------------------
(* Refinement *)

\* The phase, read off the state.
PhaseByState ==
  /\ proc = "init" => Phase = "idle"
  /\ proc \in {"exited", "crashed"} => Phase = "gone"
  /\ proc = "up" /\ running = FALSE => Phase = "closed"
  /\ proc = "up" /\ running = TRUE /\ session # "none" => Phase = "serving"
  /\ proc = "up" /\ running = TRUE /\ session = "none" => Phase = "connecting"

\* In every state of the invariant the phase of the lifecycle is the one that
\* the launcher's and the process's state say.
LEMMA PhaseFacts == IInv => PhaseByState
<1> SUFFICES ASSUME IInv PROVE PhaseByState
  OBVIOUS
<1>1. conn.connected <=> session # "none"
  BY DEF IInv, SessionOverTransport
<1> QED
  BY <1>1 DEF Phase, PhaseByState

\* The initial states are initial states of the lifecycle.
LEMMA InitRefines == Init => Lifecycle!Init
  BY DEF Init, Phase, Lifecycle!Init

\* Every step is a step of the lifecycle or leaves it alone.
LEMMA StepRefines ==
  IInv /\ IInv' /\ [Next]_vars => [Lifecycle!Next]_<<Phase, exitCode>>
<1> SUFFICES ASSUME IInv, IInv', [Next]_vars
             PROVE  [Lifecycle!Next]_<<Phase, exitCode>>
  OBVIOUS
<1>1. PhaseByState
  BY PhaseFacts
<1>2. PhaseByState'
  BY PhaseFacts, PTL
<1>3. /\ running \in BOOLEAN
      /\ session \in {"none", "sent", "deployed"}
      /\ conn.io # "closed" \/ conn.connected = TRUE
           => running = TRUE /\ proc = "up"
  BY ActiveFacts DEF IInv, TypeOK
<1>4. running => proc = "up"
  BY DEF IInv, LauncherInStep
<1>5. CASE Run
  <2>1. Phase = "idle" /\ Phase' = "connecting" /\ exitCode' = exitCode
    <3>1. session = "none"
      BY <1>5, BeforeRun DEF Run
    <3> QED
      BY <1>1, <1>2, <1>5, <3>1 DEF Run, PhaseByState
  <2> QED
    BY <2>1 DEF Lifecycle!Next, Lifecycle!Start
<1>6. CASE RunFails
  <2>1. Phase = "idle" /\ Phase' = "closed" /\ exitCode' = 1
    BY <1>1, <1>2, <1>6 DEF RunFails, Close, PhaseByState
  <2> QED
    BY <2>1 DEF Lifecycle!Next, Lifecycle!Fail, Lifecycle!Active
<1>7. CASE Signal \/ ServiceStop
  <2>1. /\ Phase \in {"connecting", "serving", "closed"}
        /\ Phase' \in {"closed", "gone"} /\ exitCode' = 0
    BY <1>1, <1>2, <1>3, <1>7 DEF Signal, ServiceStop, Close, PhaseByState
  <2> QED
    BY <2>1 DEF Lifecycle!Next, Lifecycle!Stop, Lifecycle!Active
<1>8. CASE TransportGivesUp \/ (HandleCriticalError /\ UNCHANGED proc
                                /\ conn.io # "closed")
  <2>1. /\ Phase \in {"connecting", "serving"}
        /\ Phase' = "closed" /\ exitCode' = 1
    BY <1>1, <1>2, <1>3, <1>8
    DEF TransportGivesUp, ReconnectionFailed, HandleCriticalError, Close,
        PhaseByState
  <2> QED
    BY <2>1 DEF Lifecycle!Next, Lifecycle!Fail, Lifecycle!Active
<1>9. CASE ServerAccepts
  <2>1. /\ proc = "up" /\ running = TRUE /\ conn.listening = TRUE
        /\ session = "none"
    BY <1>9, ActiveFacts
    DEF ServerAccepts, IInv, SessionOverTransport
  <2>2. Phase = "connecting" /\ Phase' = "serving" /\ exitCode' = exitCode
    BY <1>1, <1>2, <1>9, <2>1 DEF ServerAccepts, PhaseByState
  <2> QED
    BY <2>2 DEF Lifecycle!Next, Lifecycle!Establish
<1>10. CASE ServerDisconnects \/ TransportLost
  <2>1. proc = "up" /\ running = TRUE
    BY <1>10, ActiveFacts DEF ServerDisconnects, TransportLost, Connections
  <2>2. /\ Phase \in {"connecting", "serving"}
        /\ Phase' = "connecting" /\ exitCode' = exitCode
    BY <1>1, <1>2, <1>3, <1>10, <2>1
    DEF ServerDisconnects, TransportLost, PhaseByState
  <2> QED
    BY <2>2 DEF Lifecycle!Next, Lifecycle!Lose
<1>11. CASE Exit
  <2>1. /\ proc = "up" /\ proc' = "exited" /\ exitCode' = exitCode
        /\ NothingPending(conn)
    BY <1>11 DEF Exit
  <2>2. running = FALSE
    BY <1>3, <2>1
    DEF NothingPending, IInv, RetryPending, SessionOverTransport
  <2>3. Phase = "closed" /\ Phase' = "gone"
    BY <1>1, <1>2, <2>1, <2>2 DEF PhaseByState
  <2> QED
    BY <2>1, <2>3 DEF Lifecycle!Next, Lifecycle!Leave
<1>12. CASE ConnectionTimerFires
  <2>1. CASE conn.socket = TRUE
    <3>1. UNCHANGED <<running, session, proc, exitCode>>
      BY <1>12, <2>1 DEF ConnectionTimerFires
    <3> QED
      BY <1>1, <1>2, <1>3, <1>12, <3>1 DEF PhaseByState, ConnectionTimerFires
  <2>2. CASE conn.socket = FALSE
    <3>1. running = FALSE
      BY <1>3, <2>2 DEF IInv, LauncherInStep
    <3>2. proc = "up" /\ conn.timers > 0 /\ proc' = "crashed" /\ exitCode' = 1
      BY <1>12, <2>2 DEF ConnectionTimerFires
    <3>3. exitCode = 1
      BY <3>1, <3>2 DEF IInv, OrphanTimer
    <3>4. Phase = "closed" /\ Phase' = "gone"
      BY <1>1, <1>2, <3>1, <3>2 DEF PhaseByState
    <3> QED
      BY <3>2, <3>3, <3>4 DEF Lifecycle!Next, Lifecycle!Leave
  <2> QED
    BY <2>1, <2>2, ActiveFacts DEF Connections
<1>13. CASE \/ TransportOpened \/ TransportFails \/ ManagerTimerFires
            \/ Deployed \/ DeployTimesOut
            \/ UNCHANGED <<running, session, proc, exitCode>>
  <2>1. UNCHANGED <<running, proc, exitCode>>
        /\ (session' = "none" <=> session = "none")
    BY <1>13
    DEF TransportOpened, TransportFails, ManagerTimerFires, Deployed,
        DeployTimesOut
  <2> QED
    BY <1>1, <1>2, <1>3, <2>1, <1>4 DEF PhaseByState, IInv, TypeOK
<1>14. CASE ServerRejects
  <2>1. PICK code \in ErrorCodes \cup {NoData} : HandleConnectionError(code)
    BY <1>14 DEF ServerRejects
  <2> QED
    BY <1>8, <1>13, <1>14, <2>1 DEF ServerRejects, HandleConnectionError
<1>15. CASE ServerReportsError
  <2>1. PICK code \in ErrorCodes : HandleError(code)
    BY <1>15 DEF ServerReportsError
  <2>2. conn.io # "closed"
    BY <1>15 DEF ServerReportsError, IInv, SessionOverTransport
  <2> QED
    BY <1>8, <1>13, <1>15, <2>1, <2>2 DEF ServerReportsError, HandleError
<1>16. CASE UNCHANGED vars
  BY <1>13, <1>16 DEF vars
<1> QED
  BY <1>5, <1>6, <1>7, <1>8, <1>9, <1>10, <1>11, <1>12, <1>13, <1>14, <1>15,
     <1>16
  DEF Next

\* The connection implements the lifecycle that whoever started the Repeater
\* relies on: it ends only by being closed, and its exit code tells why.
THEOREM SpecRefinesLifecycle == Spec => RefinesLifecycle
<1>1. Init => Lifecycle!Init
  BY InitRefines
<1>2. IInv /\ IInv' /\ [Next]_vars => [Lifecycle!Next]_<<Phase, exitCode>>
  BY StepRefines
<1> QED
  BY <1>1, <1>2, SpecIInv, PTL DEF Spec, RefinesLifecycle, Lifecycle!Spec
-----------------------------------------------------------------------------
(* After close() *)

\* After close() only another request to stop, the end of the process or the
\* timeout of an abandoned deploy() can follow.  With the fairness of timers and
\* of Exit this is why the process ends.
THEOREM SpecOnlyTheEndFollows == Spec => OnlyTheEndFollows
<1> DEFINE Quiet == UNCHANGED <<conn, running, session, proc, exitCode, cause>>
           Ends == proc = "up" /\ ~running =>
                     proc' \in {"exited", "crashed"} \/ Signal \/ Quiet
<1>1. IInv /\ [Next]_vars => [Ends]_vars
  <2> SUFFICES ASSUME IInv, Next, proc = "up", ~running
               PROVE  proc' \in {"exited", "crashed"} \/ Signal \/ Quiet
    OBVIOUS
  <2>1. ~conn.socket /\ ~conn.connected /\ conn.io = "closed" /\ conn.due = -1
    BY DEF IInv, ClosedIsQuiet
  <2>2. /\ ~TransportOpened /\ ~TransportFails /\ ~TransportGivesUp /\ ~TransportLost
        /\ ~ServerAccepts /\ ~ServerRejects
    BY <2>1 DEF TransportOpened, TransportFails, TransportGivesUp, TransportLost,
                ServerAccepts, ServerRejects
  <2>3. /\ ~ServerDisconnects /\ ~Deployed /\ ~ServerReportsError
        /\ ~ManagerTimerFires
    BY <2>1 DEF ServerDisconnects, Deployed, ServerReportsError, ManagerTimerFires
  <2>4. ~Run /\ ~RunFails
    BY DEF Run, RunFails
  <2>5. ServiceStop \/ Exit \/ ConnectionTimerFires => proc' \in {"exited", "crashed"}
    BY <2>1 DEF ServiceStop, Exit, ConnectionTimerFires
  <2>6. DeployTimesOut => Quiet
    BY DEF DeployTimesOut
  <2> QED
    BY <2>2, <2>3, <2>4, <2>5, <2>6 DEF Next
<1> QED
  BY <1>1, SpecIInv, PTL DEF Spec, OnlyTheEndFollows
=============================================================================
