--------------------------- MODULE RepeaterTools ---------------------------
(***************************************************************************)
(* The `mcp' command: BrightMcpServer passes tool calls to                 *)
(* DefaultRepeaterTools, which starts, inspects and stops one repeater     *)
(* process per id.                                                         *)
(*                                                                         *)
(* A call is cut into steps at its awaits: run() awaits the grace period,  *)
(* stop() awaits the exit twice.  A process ends first for the operating   *)
(* system; Node learns of it later, by the event `exit'.  One that cannot  *)
(* be spawned never lives: Node reports `error', and no `exit' follows.    *)
(***************************************************************************)
EXTENDS Naturals, FiniteSets

CONSTANTS
  Ids,       \* repeater ids that clients use
  MaxSpawns  \* bound: how many processes are started

ASSUME RepeaterToolsAssumption == MaxSpawns \in Nat

Children == 1..MaxSpawns

NoChild == 0

\* Shutdown runs once per signal.
Signals == {"SIGINT", "SIGTERM"}

\* Who calls stop(): a client, or a shutdown by way of stopAll().  Concurrent
\* calls of clients for one process count as one.
Callers == Signals \cup {"tool"}

VARIABLES
  processes,  \* the Map: the child of each id, NoChild when there is none
  child,      \* the entries and their processes, see ChildType
  spawned,    \* how many children have been used
  shutdown,   \* the shutdown of each signal: no, stopping or closed
  server,     \* up, closed, or killed by a signal that nobody handles
  snapshot    \* history: the children that stopAll() of each signal found

vars == <<processes, child, spawned, shutdown, server, snapshot>>

ChildType ==
  [id       : Ids,
   os       : {"failed", "alive", "dead"},  \* failed: it was never spawned
   sent     : {"none", "term", "kill"},     \* the strongest signal so far
   exited   : BOOLEAN,                      \* exitedAt is set
   errored  : BOOLEAN,                      \* lastError is set
   starting : BOOLEAN,                      \* run() awaits the grace period
   stopping : [Callers -> {"no", "term", "kill"}]]  \* what stop() awaits

Used == 1..spawned

\* Fault: a process that was sent a signal counts as gone.
IsRunningUnlessSignalled(c) == ~child[c].exited /\ child[c].sent = "none"

IsRunning(c) == ~child[c].exited
-----------------------------------------------------------------------------
Init ==
  /\ processes = [i \in Ids |-> NoChild]
  /\ child = << >>
  /\ spawned = 0
  /\ shutdown = [s \in Signals |-> "no"]
  /\ server = "up"
  /\ snapshot = [s \in Signals |-> {}]

NewChild(i) ==
  [id |-> i, os |-> "alive", sent |-> "none", exited |-> FALSE,
   errored |-> FALSE, starting |-> TRUE, stopping |-> [k \in Callers |-> "no"]]

\* run() up to its await.  The check and the new entry are one step: no other
\* call comes between them.
Spawn(i, new) ==
  /\ server = "up"
  /\ spawned < MaxSpawns
  /\ processes[i] # NoChild => ~IsRunning(processes[i])
  /\ spawned' = spawned + 1
  /\ child' = [c \in 1..spawned' |-> IF c = spawned' THEN new ELSE child[c]]
  /\ processes' = [processes EXCEPT ![i] = spawned']
  /\ UNCHANGED <<shutdown, server, snapshot>>

Run(i) == Spawn(i, NewChild(i))

\* The same when the process cannot be spawned: `error' comes on the next tick
\* and run() rejects.  exitedAt is not set, so that the catch takes the entry
\* for a running one and keeps it.
RunFails(i) ==
  Spawn(i, [NewChild(i) EXCEPT !.os = "failed", !.errored = TRUE,
                               !.starting = FALSE])

\* The grace period is over: run() returns the status.
GraceEnds(c) ==
  /\ child[c].starting
  /\ child' = [child EXCEPT ![c].starting = FALSE]
  /\ UNCHANGED <<processes, spawned, shutdown, server, snapshot>>

\* The catch of run(): an entry that is still the current one is deleted.
Forget(c) ==
  IF child[c].starting /\ processes[child[c].id] = c
  THEN [processes EXCEPT ![child[c].id] = NoChild]
  ELSE processes

\* `exit': run() rejects if it still waits, and every stop() returns.
ExitEvent(c) ==
  /\ child[c].os = "dead"
  /\ ~child[c].exited
  /\ processes' = Forget(c)
  /\ child' = [child EXCEPT ![c].exited = TRUE,
                            ![c].starting = FALSE,
                            ![c].stopping = [k \in Callers |-> "no"]]
  /\ UNCHANGED <<spawned, shutdown, server, snapshot>>

Stronger(a, b) == IF "kill" \in {a, b} THEN "kill" ELSE "term"

\* stop() up to its first await.
Signalled(entry, caller, signal) ==
  [entry EXCEPT !.sent = Stronger(@, signal), !.stopping[caller] = "term"]

Stop(i) ==
  /\ server = "up"
  /\ processes[i] # NoChild
  /\ IsRunning(processes[i])
  /\ child[processes[i]].stopping["tool"] = "no"
  /\ \E signal \in {"term", "kill"} :  \* SIGTERM and SIGINT, or SIGKILL
       child' = [child EXCEPT ![processes[i]] = Signalled(@, "tool", signal)]
  /\ UNCHANGED <<processes, spawned, shutdown, server, snapshot>>

\* Fault: a process that ignores the signal is left alone.
StopTimesOutGently(c, caller) ==
  /\ child[c].stopping[caller] = "term"
  /\ child' = [child EXCEPT ![c].stopping[caller] = "no"]
  /\ UNCHANGED <<processes, spawned, shutdown, server, snapshot>>

\* timeoutMs has passed without `exit': SIGKILL, and wait once more.
StopTimesOut(c, caller) ==
  /\ child[c].stopping[caller] = "term"
  /\ child' = [child EXCEPT ![c].sent = "kill", ![c].stopping[caller] = "kill"]
  /\ UNCHANGED <<processes, spawned, shutdown, server, snapshot>>

\* Fault: the second wait has no time limit.
StopWaitsForExit(c, caller) ==
  /\ child[c].stopping[caller] = "kill"
  /\ child[c].exited
  /\ child' = [child EXCEPT ![c].stopping[caller] = "no"]
  /\ UNCHANGED <<processes, spawned, shutdown, server, snapshot>>

\* Another second has passed: stop() returns a status that says "running".
StopGivesUp(c, caller) ==
  /\ child[c].stopping[caller] = "kill"
  /\ child' = [child EXCEPT ![c].stopping[caller] = "no"]
  /\ UNCHANGED <<processes, spawned, shutdown, server, snapshot>>
-----------------------------------------------------------------------------
(* RunMcpServer and BrightMcpServer *)

\* The children that stopAll() of a shutdown has to stop.
Registered == {processes[i] : i \in Ids} \ {NoChild}

\* The first SIGINT or SIGTERM: close() calls stopAll().
Shutdown(s) ==
  /\ server # "killed"
  /\ shutdown[s] = "no"
  /\ shutdown' = [shutdown EXCEPT ![s] = "stopping"]
  /\ snapshot' = [snapshot EXCEPT ![s] = {c \in Registered : IsRunning(c)}]
  /\ child' = [c \in Used |-> IF c \in snapshot'[s]
                              THEN Signalled(child[c], s, "term")
                              ELSE child[c]]
  /\ UNCHANGED <<processes, spawned, server>>

\* Fault: the server is closed before the processes are stopped.
ServerClosesAtOnce(s) ==
  /\ shutdown[s] = "stopping"
  /\ shutdown' = [shutdown EXCEPT ![s] = "closed"]
  /\ server' = IF server = "up" THEN "closed" ELSE server
  /\ UNCHANGED <<processes, child, spawned, snapshot>>

\* Every stop() of stopAll() has returned: the transport is closed.
ServerCloses(s) ==
  /\ shutdown[s] = "stopping"
  /\ \A c \in Used : child[c].stopping[s] = "no"
  /\ shutdown' = [shutdown EXCEPT ![s] = "closed"]
  /\ server' = IF server = "up" THEN "closed" ELSE server
  /\ UNCHANGED <<processes, child, spawned, snapshot>>

\* The same signal again has no handler left: Node ends at once, and whatever
\* it awaited is forgotten.
SignalAgain(s) ==
  /\ server # "killed"
  /\ shutdown[s] # "no"
  /\ server' = "killed"
  /\ child' = [c \in Used |-> [child[c] EXCEPT
                 !.starting = FALSE,
                 !.stopping = [k \in Callers |-> "no"]]]
  /\ UNCHANGED <<processes, spawned, shutdown, snapshot>>

\* A repeater process ends by itself or by a signal.
ProcessEnds(c) ==
  /\ child[c].os = "alive"
  /\ child' = [child EXCEPT ![c].os = "dead"]
  /\ UNCHANGED <<processes, spawned, shutdown, server, snapshot>>

\* Node handles events and timers while it runs.
Handle(action) == server # "killed" /\ action

Next ==
  \/ \E i \in Ids : Run(i) \/ RunFails(i) \/ Stop(i)
  \/ \E c \in Used :
       \/ ProcessEnds(c) \/ Handle(GraceEnds(c)) \/ Handle(ExitEvent(c))
       \/ \E k \in Callers : \/ Handle(StopTimesOut(c, k))
                             \/ Handle(StopGivesUp(c, k))
  \/ \E s \in Signals : Shutdown(s) \/ SignalAgain(s) \/ Handle(ServerCloses(s))

Spec == Init /\ [][Next]_vars

\* Events are delivered, timers fire, and nothing survives SIGKILL.
Fairness ==
  /\ \A c \in Children :
       /\ WF_vars(c \in Used /\ Handle(ExitEvent(c)))
       /\ WF_vars(c \in Used /\ child[c].sent = "kill" /\ ProcessEnds(c))
       /\ \A k \in Callers :
            /\ WF_vars(c \in Used /\ Handle(StopTimesOut(c, k)))
            /\ WF_vars(c \in Used /\ Handle(StopGivesUp(c, k)))
  /\ \A s \in Signals : WF_vars(Handle(ServerCloses(s)))
-----------------------------------------------------------------------------
(* Properties *)

\* Every variable has its type, and the Map only holds children that exist.
TypeOK ==
  /\ spawned \in 0..MaxSpawns
  /\ child \in [1..spawned -> ChildType]
  /\ processes \in [Ids -> {NoChild} \cup Used]
  /\ shutdown \in [Signals -> {"no", "stopping", "closed"}]
  /\ server \in {"up", "closed", "killed"}
  /\ snapshot \in [Signals -> SUBSET Used]

\* "must be unique per running repeater process": however run() and stop()
\* overlap, no two processes of one id live at the same time.
OneProcessPerId ==
  \A c, d \in Used : /\ child[c].os = "alive" /\ child[d].os = "alive"
                     /\ child[c].id = child[d].id
                     => c = d

\* No process is lost: each one that lives is the entry of its id, so that
\* status() finds it and stop() reaches it.
LiveIsRegistered ==
  \A c \in Used : child[c].os = "alive" => processes[child[c].id] = c

\* close() does not return while a process that stopAll() found is alive and
\* has not even been sent SIGKILL.  (One that is started while stopAll() waits
\* is not in its snapshot and lives on.)
ShutdownIsThorough ==
  \A s \in Signals, c \in Used :
    shutdown[s] = "closed" /\ c \in snapshot[s] /\ child[c].os = "alive"
      => child[c].sent = "kill"

\* The processes that the operating system runs, by their ids.
Live == [i \in Ids |-> {c \in Used : child[c].id = i /\ child[c].os = "alive"}]

Registry == INSTANCE RepeaterRegistry
              WITH Processes <- Children, live <- Live, started <- Used,
                   open <- server = "up"

\* run(), stop() and the events of the processes implement the registry: that
\* the Map, which learns of an end late, lets run() start a process means that
\* none of that id lives.
RefinesRegistry == Registry!Spec

\* stopAll() misses no process: each one that lives when the signal comes is
\* in the snapshot and is being stopped.
SnapshotComplete ==
  [][\A s \in Signals : shutdown[s] = "no" /\ shutdown'[s] = "stopping" =>
       \A c \in Used : child[c].os = "alive" =>
         c \in snapshot'[s] /\ child'[c].stopping[s] = "term"]_vars

StopRank == [no |-> 0, kill |-> 1, term |-> 2]

\* What a shutdown waits for gets less and never more: a stop() of stopAll()
\* goes from SIGTERM to SIGKILL to its end, and the processes that clients
\* start meanwhile are not waited for.
ShutdownCountsDown ==
  [][\A s \in Signals : shutdown[s] = "stopping" =>
       \A c \in Used' : IF c \in Used
                        THEN StopRank[child'[c].stopping[s]] <= StopRank[child[c].stopping[s]]
                        ELSE child'[c].stopping[s] = "no"]_vars

\* "Return the current status for the repeater process with the given id":
\* once Node has reported that it could not be spawned, it is not running.
StatusTruthful ==
  \A i \in Ids :
    processes[i] # NoChild /\ child[processes[i]].errored
      => ~IsRunning(processes[i])

\* A process that stop() was called for ends, whether or not it reacts to the
\* signal, unless the server itself is killed.
StopEndsProcess ==
  \A c \in Children :
    (c \in Used /\ \E k \in Callers : child[c].stopping[k] # "no")
      ~> ((c \in Used /\ child[c].os # "alive") \/ server = "killed")

\* A shutdown comes to its end.
ShutdownEnds ==
  \A s \in Signals :
    shutdown[s] = "stopping" ~> (shutdown[s] = "closed" \/ server = "killed")
=============================================================================
