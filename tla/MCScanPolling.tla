--------------------------- MODULE MCScanPolling ---------------------------
(* The instance of ScanPolling that TLC checks. *)
EXTENDS ScanPolling

\* The command has exited; nothing is left to do.
Done == pc = "over" /\ UNCHANGED vars

MCSpec == Init /\ [][Next \/ Done]_vars /\ Fairness
=============================================================================
