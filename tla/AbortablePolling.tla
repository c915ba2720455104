-------------------------- MODULE AbortablePolling --------------------------
(***************************************************************************)
(* `discovery:polling' and `entrypoints:update-host-polling': the two      *)
(* pollings have the same loop, which ends when the job is over, when it   *)
(* is not found, when a request fails for good, or when the timeout has    *)
(* aborted it.  They differ in the statuses of the job.                    *)
(*                                                                         *)
(* The abort signal is given to the delay between two rounds only: neither *)
(* a request nor the wait of its Backoff hears it.                         *)
(***************************************************************************)
EXTENDS Integers, Backoff

CONSTANTS
  LiveStatuses,     \* of a job that still runs or waits
  FinishedStatuses  \* of a job that is over

ASSUME AbortablePollingAssumption ==
  /\ LiveStatuses # {}
  /\ LiveStatuses \cap FinishedStatuses = {}

NotFound == "not_found"  \* the answer that carries no job

VARIABLES
  job,      \* the status of the job in the cloud
  pc,       \* what the loop awaits: request, backoff, delay, or over
  aborted,  \* abortController.signal.aborted
  timer,    \* the timeout is set and has not fired
  depth,    \* Backoff.depth of the current request
  view,     \* what the last answer said
  exit,     \* the exit code, NoCode while the process runs
  expired,  \* history: the timeout has passed
  late      \* history: how many requests were sent after that

vars == <<job, pc, aborted, timer, depth, view, exit, expired, late>>

NoCode == -1

NoView == "none"

Statuses == LiveStatuses \cup FinishedStatuses

\* Fault: a failed job is polled on.
IsFinishedUnlessFailed(status) == status \in FinishedStatuses \ {"failed"}

IsFinished(status) == status \in FinishedStatuses

\* processDiscoveryView() and processJobView()
ShouldContinue(answer) == answer # NotFound /\ ~IsFinished(answer)
-----------------------------------------------------------------------------
Init ==
  /\ job \in LiveStatuses
  /\ pc = "request"
  /\ aborted = FALSE
  /\ timer \in BOOLEAN  \* is the option `timeout' given?
  /\ depth = 0
  /\ view = NoView
  /\ exit = NoCode
  /\ expired = FALSE
  /\ late = 0

JobMoves ==
  /\ job \notin FinishedStatuses
  /\ job' \in Statuses \ {job}
  /\ UNCHANGED <<pc, aborted, timer, depth, view, exit, expired, late>>

\* start() ends: stop() aborts the controller and clears the timeout, and the
\* command exits.
Finish(code) ==
  /\ pc' = "over"
  /\ aborted' = TRUE
  /\ timer' = FALSE
  /\ exit' = code

\* The timeout aborts the controller: a delay rejects at once, handleError
\* finds the signal aborted, and start() returns.
TimeoutFires ==
  /\ timer
  /\ expired' = TRUE
  /\ \/ /\ pc = "delay"
        /\ Finish(0)
     \/ /\ pc # "delay"
        /\ timer' = FALSE
        /\ aborted' = TRUE
        /\ UNCHANGED <<pc, exit>>
  /\ UNCHANGED <<job, depth, view, late>>

\* Late requests are counted up to one more than there can be.
MaxLate == MaxDepth + 1

SendRequest == late' = IF expired /\ late < MaxLate THEN late + 1 ELSE late

\* Backoff.retry() has waited long enough, aborted or not.
BackoffEnds ==
  /\ pc = "backoff"
  /\ pc' = "request"
  /\ depth' = depth + 1
  /\ SendRequest
  /\ UNCHANGED <<job, aborted, timer, view, exit, expired>>

\* Fault: an error fails the command though the timeout has passed.
HandleErrorAlways == Finish(1)

\* handleError(): an error after the abort is ignored.
HandleError == IF aborted THEN Finish(0) ELSE Finish(1)

RequestFails ==
  /\ pc = "request"
  /\ \E err \in Failures :
       \/ /\ CanRetry(err, depth)
          /\ pc' = "backoff"
          /\ UNCHANGED <<aborted, timer, exit>>
       \/ /\ ~CanRetry(err, depth)
          /\ HandleError
  /\ UNCHANGED <<job, depth, view, expired, late>>

\* Fault: the delay does not listen to the signal.
DelayUnlessDeaf ==
  /\ pc' = "delay"
  /\ UNCHANGED <<aborted, timer, exit>>

\* delay() rejects at once when the signal is aborted already.
DelayUnlessAborted ==
  \/ /\ ~aborted
     /\ pc' = "delay"
     /\ UNCHANGED <<aborted, timer, exit>>
  \/ /\ aborted
     /\ Finish(0)

RequestAnswered ==
  /\ pc = "request"
  /\ view' \in {job, NotFound}
  /\ \/ /\ ShouldContinue(view')
        /\ DelayUnlessAborted
     \/ /\ ~ShouldContinue(view')
        /\ Finish(0)
  /\ UNCHANGED <<job, depth, expired, late>>

\* The interval is over: the next round, with a fresh Backoff.
DelayEnds ==
  /\ pc = "delay"
  /\ pc' = "request"
  /\ depth' = 0
  /\ SendRequest
  /\ UNCHANGED <<job, aborted, timer, view, exit, expired>>

Poll == BackoffEnds \/ RequestFails \/ RequestAnswered \/ DelayEnds

Next == JobMoves \/ TimeoutFires \/ Poll

Spec == Init /\ [][Next]_vars

\* Timers fire and every request ends, in an answer or in an error.
Fairness == WF_vars(TimeoutFires) /\ WF_vars(Poll)
-----------------------------------------------------------------------------
(* Properties *)

\* Every variable has its type; no request is retried more often than
\* DEFAULT_RECONNECT_TIMES.
TypeOK ==
  /\ job \in Statuses
  /\ view \in Statuses \cup {NoView, NotFound}
  /\ pc \in {"request", "backoff", "delay", "over"}
  /\ aborted \in BOOLEAN /\ timer \in BOOLEAN /\ expired \in BOOLEAN
  /\ depth \in 0..MaxDepth
  /\ exit \in {NoCode, 0, 1}
  /\ late \in 0..MaxLate

\* The exit code: 1 only for an error before the timeout, 0 only when the job
\* is over, is not found, or the timeout has passed.
ExitCodeJustified ==
  /\ exit = 1 => ~expired
  /\ exit = 0 => expired \/ view \in FinishedStatuses \cup {NotFound}

\* The abort stops the rounds but not the one under way: its retries, and
\* nothing else, are still sent.
LateRequestsBounded == late <= MaxDepth

\* "Polling has been stopped by timeout": once that is logged, no further
\* request is sent.
StoppedByTimeout == late = 0

\* How many steps of the loop are left at most, if no further round begins.
StepsLeft ==
  CASE pc = "delay" -> 2 * MaxDepth + 3
    [] pc = "request" -> 2 * (MaxDepth - depth) + 2
    [] pc = "backoff" -> 2 * (MaxDepth - depth) + 1
    [] pc = "over" -> 0

\* The timeout counts the loop down: from then on each of its steps, whatever
\* the cloud answers, is one of the StepsLeft, and there is no way back.
CountsDown ==
  [][expired /\ pc # "over" =>
       StepsLeft' \in 0..StepsLeft /\ (Poll => StepsLeft' < StepsLeft)]_vars

\* With a timeout the command ends.
EndsInTime == timer ~> pc = "over"

\* Without one it still ends once the job is over.
EndsWithJob == job \in FinishedStatuses ~> pc = "over"
=============================================================================
