------------------------ MODULE MCRepeaterConnection ------------------------
(* The instance of RepeaterConnection that TLC checks. *)
EXTENDS RepeaterConnection

\* A process that has ended does nothing more; everything else must move.
Done == proc \in {"exited", "crashed"} /\ UNCHANGED vars

MCSpec == Init /\ [][Next \/ Done]_vars

MCFairSpec == MCSpec /\ Progress /\ StrongNetwork
=============================================================================
