-------------------------- MODULE RepeaterRegistry --------------------------
(***************************************************************************)
(* What the `mcp' command promises about repeater processes, without the   *)
(* Map, the signals and the events that it works with: under one id one    *)
(* process lives at a time, a process that has ended does not come back,   *)
(* and none is started once the server is closed.                          *)
(***************************************************************************)
CONSTANTS Ids, Processes

VARIABLES
  live,     \* the processes that live under each id
  started,  \* the processes that were ever started, or tried to
  open      \* is the server up?

Init ==
  /\ live = [i \in Ids |-> {}]
  /\ started = {}
  /\ open = TRUE

\* A new process, under an id that has none.
Start(i, p) ==
  /\ open /\ live[i] = {} /\ p \notin started
  /\ live' = [live EXCEPT ![i] = {p}]
  /\ started' = started \cup {p}
  /\ UNCHANGED open

\* It could not be spawned.
Fail(i, p) ==
  /\ open /\ live[i] = {} /\ p \notin started
  /\ started' = started \cup {p}
  /\ UNCHANGED <<live, open>>

\* The process of an id ends.
End(i) ==
  /\ live[i] # {}
  /\ live' = [live EXCEPT ![i] = {}]
  /\ UNCHANGED <<started, open>>

Close ==
  /\ open
  /\ open' = FALSE
  /\ UNCHANGED <<live, started>>

Next ==
  \/ \E i \in Ids : (\E p \in Processes : Start(i, p) \/ Fail(i, p)) \/ End(i)
  \/ Close

Spec == Init /\ [][Next]_<<live, started, open>>
=============================================================================
