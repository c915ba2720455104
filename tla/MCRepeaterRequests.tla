------------------------- MODULE MCRepeaterRequests -------------------------
(* The instance of RepeaterRequests that TLC checks. *)
EXTENDS RepeaterRequests

Entry(i, compiles, responds) ==
  [id |-> i, compiles |-> compiles, responds |-> responds]

\* No local script, or two that match.
MCLocals == {{}, {"all", "host"}}

\* One script for all hosts; two that match, in both orders, one of which may
\* not compile; one for another host.
MCPayloads ==
  {<<Entry("all", TRUE, TRUE)>>,
   <<Entry("host", TRUE, FALSE), Entry("all", TRUE, TRUE)>>,
   <<Entry("all", TRUE, TRUE), Entry("host", FALSE, TRUE), Entry("other", TRUE, TRUE)>>,
   <<Entry("other", TRUE, TRUE)>>}

\* The command has failed or crashed, or every request is answered or dropped.
Done ==
  /\ \/ phase \in {"failed", "crashed"}
     \/ \A r \in Requests : req[r].pc \in {"answered", "dropped"}
  /\ UNCHANGED vars

MCSpec == Init /\ [][Next \/ Done]_vars /\ Fairness
=============================================================================
