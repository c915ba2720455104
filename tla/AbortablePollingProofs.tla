----------------------- MODULE AbortablePollingProofs -----------------------
(***************************************************************************)
(* Proofs about AbortablePolling, for every set of statuses and every      *)
(* number of retries.                                                      *)
(***************************************************************************)
EXTENDS AbortablePolling, TLAPS

\* The inductive invariant: the timeout has passed exactly when a loop that
\* still runs is aborted; then it is in its last round, and the late requests
\* are retries of that round.
IInv ==
  /\ TypeOK
  /\ pc # "over" => (aborted <=> expired) /\ exit = NoCode
  /\ expired \/ pc = "over" => ~timer
  /\ pc = "delay" => ~expired
  /\ ~expired => late = 0
  /\ pc \in {"request", "backoff"} => late <= depth
  /\ pc = "backoff" => depth < MaxDepth
  /\ LateRequestsBounded
  /\ ExitCodeJustified

\* The initial states satisfy the invariant.
LEMMA InitIInv == Init => IInv
<1> SUFFICES ASSUME Init PROVE IInv
  OBVIOUS
<1>1. 0 \in 0..MaxDepth /\ 0 \in 0..MaxLate /\ 0 <= MaxDepth
  BY MaxDepthAssumption DEF MaxLate
<1>2. TypeOK
  BY <1>1 DEF Init, TypeOK, Statuses, NoCode
<1>3. LateRequestsBounded /\ ExitCodeJustified
  BY <1>1 DEF Init, LateRequestsBounded, ExitCodeJustified, NoCode
<1> QED
  BY <1>1, <1>2, <1>3 DEF Init, IInv

\* start() may return or throw in the middle of a round when the code it exits
\* with is justified.
LEMMA EndsRound ==
  ASSUME IInv, NEW code \in {0, 1}, Finish(code), pc = "request",
         view' \in Statuses \cup {NotFound} \/ view' = view,
         UNCHANGED <<job, depth, expired, late>>,
         code = 1 => ~expired,
         code = 0 => expired \/ view' \in FinishedStatuses \cup {NotFound}
  PROVE  IInv'
<1> USE MaxDepthAssumption DEF IInv, TypeOK, LateRequestsBounded
<1>1. /\ pc' = "over" /\ exit' = code /\ UNCHANGED <<job, depth, expired, late>>
      /\ ~timer' /\ timer' \in BOOLEAN /\ aborted' \in BOOLEAN
  BY DEF Finish
<1>2. TypeOK'
  BY <1>1 DEF MaxLate
<1>3. ExitCodeJustified'
  BY <1>1 DEF ExitCodeJustified
<1> QED
  BY <1>1, <1>2, <1>3

\* Every step preserves the invariant.
LEMMA StepIInv == IInv /\ [Next]_vars => IInv'
<1> SUFFICES ASSUME IInv, [Next]_vars PROVE IInv'
  OBVIOUS
<1> USE MaxDepthAssumption
    DEF IInv, TypeOK, Statuses, NoCode, LateRequestsBounded, ExitCodeJustified,
        MaxLate
<1>1. CASE JobMoves
  BY <1>1 DEF JobMoves
<1>2. CASE TimeoutFires
  <2>1. timer /\ ~expired /\ pc # "over" /\ late = 0
    BY <1>2 DEF TimeoutFires
  <2>2. /\ expired' /\ aborted' /\ ~timer'
        /\ UNCHANGED <<job, depth, view, late>>
    BY <1>2 DEF TimeoutFires, Finish
  <2>3. expired' \in BOOLEAN /\ aborted' \in BOOLEAN /\ timer' \in BOOLEAN
    BY <1>2 DEF TimeoutFires, Finish
  <2>4. CASE pc = "delay" /\ pc' = "over" /\ exit' = 0
    BY <2>1, <2>2, <2>3, <2>4
  <2>5. CASE pc # "delay" /\ UNCHANGED <<pc, exit>>
    BY <2>1, <2>2, <2>3, <2>5
  <2> QED
    BY <1>2, <2>4, <2>5 DEF TimeoutFires, Finish
<1>3. CASE BackoffEnds
  BY <1>3 DEF BackoffEnds, SendRequest
<1>4. CASE RequestFails
  <2>1. pc = "request" /\ exit = NoCode /\ UNCHANGED <<job, depth, view, expired, late>>
    BY <1>4 DEF RequestFails
  <2>2. CASE depth < MaxDepth /\ pc' = "backoff" /\ UNCHANGED <<aborted, timer, exit>>
    BY <2>1, <2>2
  <2>3. CASE aborted /\ Finish(0)
    BY <2>1, <2>3, EndsRound
  <2>4. CASE ~aborted /\ Finish(1)
    BY <2>1, <2>4, EndsRound
  <2> QED
    BY <1>4, <2>2, <2>3, <2>4 DEF RequestFails, CanRetry, HandleError
<1>5. CASE RequestAnswered
  <2>1. /\ pc = "request" /\ exit = NoCode
        /\ view' \in Statuses \cup {NotFound}
        /\ UNCHANGED <<job, depth, expired, late>>
    BY <1>5 DEF RequestAnswered
  <2>2. CASE ~aborted /\ pc' = "delay" /\ UNCHANGED <<aborted, timer, exit>>
    BY <2>1, <2>2
  <2>3. CASE aborted /\ Finish(0)
    BY <2>1, <2>3, EndsRound
  <2>4. CASE view' \in FinishedStatuses \cup {NotFound} /\ Finish(0)
    BY <2>1, <2>4, EndsRound
  <2> QED
    BY <1>5, <2>1, <2>2, <2>3, <2>4
    DEF RequestAnswered, ShouldContinue, IsFinished, DelayUnlessAborted
<1>6. CASE DelayEnds
  BY <1>6 DEF DelayEnds, SendRequest
<1>7. CASE UNCHANGED vars
  BY <1>7 DEF vars
<1> QED
  BY <1>1, <1>2, <1>3, <1>4, <1>5, <1>6, <1>7 DEF Next, Poll
-----------------------------------------------------------------------------
\* The invariant holds throughout.
THEOREM SpecIInv == Spec => []IInv
<1>1. Init => IInv
  BY InitIInv
<1>2. IInv /\ [Next]_vars => IInv'
  BY StepIInv
<1> QED
  BY <1>1, <1>2, PTL DEF Spec

\* Every variable keeps its type, and retries stay within the limit.
THEOREM SpecTypeOK == Spec => []TypeOK
<1>1. IInv => TypeOK
  BY DEF IInv
<1> QED
  BY <1>1, SpecIInv, PTL

\* The exit code of the command says what ended the polling.
THEOREM SpecExitCodeJustified == Spec => []ExitCodeJustified
<1>1. IInv => ExitCodeJustified
  BY DEF IInv
<1> QED
  BY <1>1, SpecIInv, PTL

\* After the timeout at most DEFAULT_RECONNECT_TIMES requests are still sent.
THEOREM SpecLateRequestsBounded == Spec => []LateRequestsBounded
<1>1. IInv => LateRequestsBounded
  BY DEF IInv
<1> QED
  BY <1>1, SpecIInv, PTL
-----------------------------------------------------------------------------
(* The countdown *)

\* What is left after a step of the last round is less than before it.
LEMMA PollCountsDown ==
  ASSUME IInv, IInv', Poll, expired, pc # "over"
  PROVE  StepsLeft' \in 0..StepsLeft /\ StepsLeft' < StepsLeft
<1> USE MaxDepthAssumption DEF StepsLeft
<1>1. depth \in 0..MaxDepth /\ depth' \in 0..MaxDepth
  BY DEF IInv, TypeOK
<1>2. CASE pc = "request" /\ pc' = "over"
  BY <1>1, <1>2
<1>3. CASE pc = "request" /\ pc' = "backoff" /\ depth' = depth
  BY <1>1, <1>3
<1>4. CASE pc = "backoff" /\ pc' = "request" /\ depth' = depth + 1
  BY <1>1, <1>4
<1>5. CASE pc = "delay" /\ pc' = "request" /\ depth' = 0
  BY <1>1, <1>5
<1>6. pc = "request" => aborted
  BY DEF IInv
<1> QED
  BY <1>2, <1>3, <1>4, <1>5, <1>6
  DEF Poll, DelayEnds, BackoffEnds, RequestFails, RequestAnswered, HandleError, DelayUnlessAborted, Finish

\* After the timeout the loop is counted down to its end, for every number of
\* retries.  With the weak fairness of Poll this is why it ends in time.
THEOREM SpecCountsDown == Spec => CountsDown
<1> DEFINE Down == expired /\ pc # "over" =>
                     /\ StepsLeft' \in 0..StepsLeft
                     /\ Poll => StepsLeft' < StepsLeft
<1>1. IInv /\ IInv' /\ [Next]_vars => [Down]_vars
  <2> SUFFICES ASSUME IInv, IInv', Next, expired, pc # "over"
               PROVE  StepsLeft' \in 0..StepsLeft /\ (Poll => StepsLeft' < StepsLeft)
    OBVIOUS
  <2>1. CASE Poll
    BY <2>1, PollCountsDown
  <2>2. CASE JobMoves /\ ~Poll
    <3>1. UNCHANGED <<pc, depth>>
      BY <2>2 DEF JobMoves
    <3>2. StepsLeft \in Nat /\ StepsLeft' = StepsLeft
      <4>1. depth \in 0..MaxDepth /\ pc \in {"delay", "request", "backoff", "over"}
        BY DEF IInv, TypeOK
      <4>2. StepsLeft \in Nat
        BY <4>1, MaxDepthAssumption DEF StepsLeft
      <4> QED
        BY <3>1, <4>2 DEF StepsLeft
    <3> QED
      BY <2>2, <3>2
  <2>3. ~TimeoutFires
    BY DEF IInv, TimeoutFires
  <2> QED
    BY <2>1, <2>2, <2>3 DEF Next
<1> QED
  BY <1>1, SpecIInv, PTL DEF Spec, CountsDown
=============================================================================
