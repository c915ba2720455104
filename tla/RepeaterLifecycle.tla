------------------------- MODULE RepeaterLifecycle -------------------------
(***************************************************************************)
(* What a Repeater process promises to whoever started it, without its     *)
(* sockets and timers: it serves only sessions it has announced to the     *)
(* cloud, it gives up only by being closed, a closed Repeater never serves *)
(* again, and its exit code tells a requested stop (0) from a failure (1). *)
(***************************************************************************)
EXTENDS Naturals

VARIABLES phase, code

Phases == {"idle", "connecting", "serving", "closed", "gone"}

Active == {"connecting", "serving"}

Init ==
  /\ phase = "idle"
  /\ code = 0

Start ==
  /\ phase = "idle"
  /\ phase' = "connecting"
  /\ UNCHANGED code

Establish ==
  /\ phase = "connecting"
  /\ phase' = "serving"
  /\ UNCHANGED code

Lose ==
  /\ phase = "serving"
  /\ phase' = "connecting"
  /\ UNCHANGED code

Fail ==
  /\ phase \in Active \cup {"idle"}
  /\ phase' = "closed"
  /\ code' = 1

\* The last request to stop decides the code, even after a failure.
Stop ==
  /\ phase \in Active \cup {"closed"}
  /\ phase' \in {"closed", "gone"}
  /\ code' = 0

\* The process ends by itself, and only once it is closed.
Leave ==
  /\ phase = "closed"
  /\ phase' = "gone"
  /\ UNCHANGED code

Next == Start \/ Establish \/ Lose \/ Fail \/ Stop \/ Leave

Spec == Init /\ [][Next]_<<phase, code>>
=============================================================================
