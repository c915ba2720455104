---------------------------- MODULE ScanPolling ----------------------------
(***************************************************************************)
(* `scan:polling': BasePolling asks for the state of a scan at intervals,  *)
(* until the scan is over, the timeout has passed, a request fails for     *)
(* good, or an issue is found that the breakpoint is about.  The command   *)
(* turns the outcome into an exit code.                                    *)
(*                                                                         *)
(* The scan itself runs in the cloud and moves on at any time; the timeout *)
(* may strike at any await of the loop.                                    *)
(***************************************************************************)
EXTENDS Integers, Backoff

CONSTANT LiveStatuses  \* statuses of a scan that still runs or waits

\* ScanStatus.DONE, STOPPED, DISRUPTED and FAILED.
RedundantStatuses == {"done", "stopped", "disrupted", "failed"}

ASSUME ScanPollingAssumption ==
  /\ LiveStatuses # {}
  /\ LiveStatuses \cap RedundantStatuses = {}

Severities == {"Low", "Medium", "High", "Critical"}

BreakpointTypes == {"any", "medium_issue", "high_issue", "critical_issue"}

VARIABLES
  scan,        \* the scan in the cloud: its status and severities found
  breakpoint,  \* the option `breakpoint'
  pc,          \* what the loop awaits: delay, request, backoff, or over
  active,      \* _active
  timer,       \* the timeout is set and has not fired
  depth,       \* Backoff.depth of the current request
  view,        \* the state that the last answer carried
  exit,        \* the exit code, NoCode while the process runs
  expired,     \* history: the timeout has passed
  late         \* history: how many requests were sent after that

vars ==
  <<scan, breakpoint, pc, active, timer, depth, view, exit, expired, late>>

ScanStates == [status : LiveStatuses \cup RedundantStatuses,
               issues : SUBSET Severities]

NoCode == -1

\* severityRanges
SeverityRange(severity) ==
  CASE severity = "Critical" -> {"Critical"}
    [] severity = "High" -> {"High", "Critical"}
    [] severity = "Medium" -> {"Medium", "High", "Critical"}
    [] severity = "Low" -> Severities

\* DefaultBreakpointFactory.create()
BreakpointSeverity(type) ==
  CASE type = "any" -> "Low"
    [] type = "medium_issue" -> "Medium"
    [] type = "high_issue" -> "High"
    [] type = "critical_issue" -> "Critical"

BreakSeverities == SeverityRange(BreakpointSeverity(breakpoint))

\* Fault: every finding is an exception.
IsExceptedOnAnything(stats) == stats.issues # {}

\* OnSeverity.isExcepted()
IsExcepted(stats) == \E severity \in BreakSeverities : severity \in stats.issues

\* Fault: a scan that was stopped is polled on, one that is queued is not.
IsRedundantWhenQueued(status) ==
  status \in (RedundantStatuses \ {"stopped"}) \cup {"queued"}

IsRedundant(status) == status \in RedundantStatuses
-----------------------------------------------------------------------------
Init ==
  /\ scan \in [status : LiveStatuses, issues : {{}}]
  /\ breakpoint \in BreakpointTypes
  /\ pc = "delay"
  /\ active = TRUE
  /\ timer \in BOOLEAN  \* is the option `timeout' given?
  /\ depth = 0
  /\ view = scan
  /\ exit = NoCode
  /\ expired = FALSE
  /\ late = 0

\* The scan reports an issue, changes its status, or ends.
ScanMoves ==
  /\ scan.status \notin RedundantStatuses
  /\ \/ \E s \in Severities \ scan.issues :
          scan' = [scan EXCEPT !.issues = @ \cup {s}]
     \/ \E s \in (LiveStatuses \cup RedundantStatuses) \ {scan.status} :
          scan' = [scan EXCEPT !.status = s]
  /\ UNCHANGED <<breakpoint, pc, active, timer, depth, view, exit, expired, late>>

\* setTimeout(() => (this._active = false), timeout)
TimeoutFires ==
  /\ timer
  /\ timer' = FALSE
  /\ active' = FALSE
  /\ expired' = TRUE
  /\ UNCHANGED <<scan, breakpoint, pc, depth, view, exit, late>>

\* start() ends one way or another: stop() runs, and the command exits.
Finish(code) ==
  /\ pc' = "over"
  /\ active' = FALSE
  /\ timer' = FALSE
  /\ exit' = code

\* Late requests are counted up to one more than there can be.
MaxLate == MaxDepth + 2

SendRequest == late' = IF expired /\ late < MaxLate THEN late + 1 ELSE late

\* The interval is over: a fresh Backoff sends the first request.
DelayEnds ==
  /\ pc = "delay"
  /\ pc' = "request"
  /\ depth' = 0
  /\ SendRequest
  /\ UNCHANGED <<scan, breakpoint, active, timer, view, exit, expired>>

\* Backoff.retry() has waited long enough.
BackoffEnds ==
  /\ pc = "backoff"
  /\ pc' = "request"
  /\ depth' = depth + 1
  /\ SendRequest
  /\ UNCHANGED <<scan, breakpoint, active, timer, view, exit, expired>>

RequestFails ==
  /\ pc = "request"
  /\ \E err \in Failures :
       \/ /\ CanRetry(err, depth)
          /\ pc' = "backoff"
          /\ UNCHANGED <<active, timer, exit>>
       \/ /\ ~CanRetry(err, depth)
          /\ Finish(1)
  /\ UNCHANGED <<scan, breakpoint, depth, view, expired, late>>

\* Fault: the loop goes on although the timeout has passed.
NextRoundAlways ==
  /\ pc' = "delay"
  /\ UNCHANGED <<active, timer, exit>>

\* while (this.active)
NextRound ==
  \/ /\ active
     /\ pc' = "delay"
     /\ UNCHANGED <<active, timer, exit>>
  \/ /\ ~active
     /\ Finish(0)

\* The answer: leave the loop if the scan is over, else let the breakpoint see
\* it and go round again.
RequestAnswered ==
  /\ pc = "request"
  /\ view' = scan
  /\ \/ /\ IsRedundant(scan.status)
        /\ Finish(0)
     \/ /\ ~IsRedundant(scan.status)
        /\ IsExcepted(scan)
        /\ Finish(50)
     \/ /\ ~IsRedundant(scan.status)
        /\ ~IsExcepted(scan)
        /\ NextRound
  /\ UNCHANGED <<scan, breakpoint, depth, expired, late>>

Poll == DelayEnds \/ BackoffEnds \/ RequestFails \/ RequestAnswered

Next == ScanMoves \/ TimeoutFires \/ Poll

Spec == Init /\ [][Next]_vars

\* Timers fire and every request ends, in an answer or in an error.
Fairness == WF_vars(TimeoutFires) /\ WF_vars(Poll)
-----------------------------------------------------------------------------
(* Properties *)

\* Every variable has its type; no request is retried more often than
\* DEFAULT_RECONNECT_TIMES.
TypeOK ==
  /\ scan \in ScanStates /\ view \in ScanStates
  /\ breakpoint \in BreakpointTypes
  /\ pc \in {"delay", "request", "backoff", "over"}
  /\ active \in BOOLEAN /\ timer \in BOOLEAN /\ expired \in BOOLEAN
  /\ depth \in 0..MaxDepth
  /\ exit \in {NoCode, 0, 1, 50}
  /\ late \in 0..MaxLate

Rank == [Low |-> 1, Medium |-> 2, High |-> 3, Critical |-> 4]

Breaches(stats) ==
  \E s \in stats.issues : Rank[s] >= Rank[BreakpointSeverity(breakpoint)]

\* "finish the process with exit code 50 only after fulfilling the predefined
\* condition": the scan has an issue at least as severe as the breakpoint's.
BreakpointJustified == exit = 50 => Breaches(scan)

\* Exit code 0 means that the last answer showed a scan that is over, or that
\* the timeout passed and no answer had yet met the breakpoint.  (A scan that
\* is over is not shown to the breakpoint, whatever it found.)
ZeroMeansOverOrExpired ==
  exit = 0 => \/ view.status \in RedundantStatuses
              \/ expired /\ ~Breaches(view)

\* The timeout is only looked at between rounds: after it the round under way
\* still sends its request and every retry, but never another round.
LateRequestsBounded == late <= MaxDepth + 1

\* How many steps of the loop are left at most, if no further round begins.
StepsLeft ==
  CASE pc = "delay" -> 2 * MaxDepth + 3
    [] pc = "request" -> 2 * (MaxDepth - depth) + 2
    [] pc = "backoff" -> 2 * (MaxDepth - depth) + 1
    [] pc = "over" -> 0

\* The timeout counts the loop down: from then on each of its steps, whatever
\* the cloud answers, is one of the StepsLeft, and there is no way back.
CountsDown ==
  [][expired /\ pc # "over" =>
       StepsLeft' \in 0..StepsLeft /\ (Poll => StepsLeft' < StepsLeft)]_vars

\* With a timeout the command ends, though the scan may run for ever and every
\* request may fail.
EndsInTime == timer ~> pc = "over"

\* Without one it still ends once the scan is over.
EndsWithScan == scan.status \in RedundantStatuses ~> pc = "over"
=============================================================================
