---------------------------- MODULE MCNetworkTest ----------------------------
(* The instance of NetworkTest that TLC checks. *)
EXTENDS NetworkTest

\* The wizard has ended and the hub has its answer, or the hub is gone.
Over == test \in {"output", "error", "crashed"} \/ (mode = "full" /\ wizard = "exited")

\* A trace that failed leaves its socket and the process open.
Leaked == wizard = "done" /\ socket = "open"

\* The hub has not recognised a message; both sides wait.
Stuck == missed /\ stdout = <<>>

Done == (Over \/ Leaked \/ Stuck) /\ UNCHANGED vars

MCSpec == Init /\ [][Next \/ Done]_vars /\ Fairness
=============================================================================
