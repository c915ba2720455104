------------------------- MODULE MCAbortablePolling -------------------------
(* The instance of AbortablePolling that TLC checks. *)
EXTENDS AbortablePolling

\* The command has exited; nothing is left to do.
Done == pc = "over" /\ UNCHANGED vars

MCSpec == Init /\ [][Next \/ Done]_vars /\ Fairness
=============================================================================
