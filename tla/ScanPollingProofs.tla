------------------------- MODULE ScanPollingProofs -------------------------
(***************************************************************************)
(* Proofs about ScanPolling, for every set of live statuses and every      *)
(* number of retries.                                                      *)
(***************************************************************************)
EXTENDS ScanPolling, TLAPS

\* The inductive invariant: while the loop runs it is inactive exactly when
\* the timeout has passed, and then it is in its last round.
IInv ==
  /\ TypeOK
  /\ pc # "over" => (active <=> ~expired) /\ exit = NoCode
  /\ expired \/ pc = "over" => ~timer
  /\ ~expired \/ pc = "delay" => late = 0
  /\ pc \in {"request", "backoff"} => late <= depth + 1
  /\ pc = "backoff" => depth < MaxDepth
  /\ LateRequestsBounded
  /\ BreakpointJustified
  /\ ZeroMeansOverOrExpired

\* The severity ranges list exactly the severities that rank at least as high
\* as the one the breakpoint stands for.
LEMMA SeverityRanges ==
  ASSUME breakpoint \in BreakpointTypes, NEW s \in Severities
  PROVE  s \in BreakSeverities <=> Rank[s] >= Rank[BreakpointSeverity(breakpoint)]
<1> USE DEF BreakSeverities, BreakpointSeverity, SeverityRange, Rank, Severities
<1>1. CASE breakpoint = "any"
  BY <1>1
<1>2. CASE breakpoint = "medium_issue"
  BY <1>2
<1>3. CASE breakpoint = "high_issue"
  BY <1>3
<1>4. CASE breakpoint = "critical_issue"
  BY <1>4
<1> QED
  BY <1>1, <1>2, <1>3, <1>4 DEF BreakpointTypes

\* OnSeverity excepts the states that breach the breakpoint.
LEMMA ExceptedIsBreach ==
  ASSUME breakpoint \in BreakpointTypes, NEW stats \in ScanStates
  PROVE  IsExcepted(stats) <=> Breaches(stats)
<1>1. stats.issues \subseteq Severities
  BY DEF ScanStates
<1>2. BreakSeverities \subseteq Severities
  BY DEF BreakSeverities, BreakpointSeverity, SeverityRange, Severities,
         BreakpointTypes
<1> QED
  BY <1>1, <1>2, SeverityRanges DEF IsExcepted, Breaches

\* The initial states satisfy the invariant.
LEMMA InitIInv == Init => IInv
<1> SUFFICES ASSUME Init PROVE IInv
  OBVIOUS
<1>1. 0 \in 0..MaxDepth /\ 0 \in 0..MaxLate /\ 0 <= MaxDepth + 1
  BY MaxDepthAssumption DEF MaxLate
<1>2. scan \in ScanStates /\ view \in ScanStates
  BY DEF Init, ScanStates
<1>3. TypeOK
  BY <1>1, <1>2 DEF Init, TypeOK, NoCode
<1>4. LateRequestsBounded /\ BreakpointJustified /\ ZeroMeansOverOrExpired
  BY <1>1 DEF Init, LateRequestsBounded, BreakpointJustified,
              ZeroMeansOverOrExpired, NoCode
<1> QED
  BY <1>1, <1>3, <1>4 DEF Init, IInv
-----------------------------------------------------------------------------
\* start() may return or throw in the middle of a round when the code it exits
\* with is justified.
LEMMA EndsRound ==
  ASSUME IInv, NEW code \in {0, 1, 50}, Finish(code), pc = "request",
         view' \in ScanStates,
         UNCHANGED <<scan, breakpoint, depth, expired, late>>,
         code = 50 => Breaches(scan),
         code = 0 => \/ view'.status \in RedundantStatuses
                     \/ expired /\ ~Breaches(view')
  PROVE  IInv'
<1> USE MaxDepthAssumption DEF IInv, TypeOK, LateRequestsBounded
<1>1. /\ pc' = "over" /\ exit' = code
      /\ UNCHANGED <<scan, breakpoint, depth, expired, late>>
      /\ ~timer' /\ timer' \in BOOLEAN /\ active' \in BOOLEAN
  BY DEF Finish
<1>2. TypeOK'
  BY <1>1 DEF MaxLate
<1>3. BreakpointJustified' /\ ZeroMeansOverOrExpired'
  BY <1>1 DEF BreakpointJustified, ZeroMeansOverOrExpired, Breaches
<1> QED
  BY <1>1, <1>2, <1>3

\* Every step preserves the invariant.
LEMMA StepIInv == IInv /\ [Next]_vars => IInv'
<1> SUFFICES ASSUME IInv, [Next]_vars PROVE IInv'
  OBVIOUS
<1> USE MaxDepthAssumption DEF IInv, TypeOK, LateRequestsBounded, MaxLate
<1>0. exit = NoCode => ~(exit = 50) /\ ~(exit = 0)
  BY DEF NoCode
<1>1. CASE ScanMoves
  <2>1. scan' \in ScanStates /\ scan.issues \subseteq scan'.issues
    BY <1>1 DEF ScanMoves, ScanStates
  <2>2. UNCHANGED <<breakpoint, pc, active, timer, depth, view, exit, expired, late>>
    BY <1>1 DEF ScanMoves
  <2>3. BreakpointJustified' /\ ZeroMeansOverOrExpired'
    BY <2>1, <2>2 DEF BreakpointJustified, ZeroMeansOverOrExpired, Breaches
  <2> QED
    BY <2>1, <2>2, <2>3
<1>2. CASE TimeoutFires
  <2>1. timer /\ ~expired /\ pc # "over" /\ exit = NoCode
    BY <1>2 DEF TimeoutFires
  <2>2. /\ expired' /\ ~active' /\ ~timer'
        /\ UNCHANGED <<scan, breakpoint, pc, depth, view, exit, late>>
    BY <1>2 DEF TimeoutFires
  <2>3. expired' \in BOOLEAN /\ active' \in BOOLEAN /\ timer' \in BOOLEAN
    BY <1>2 DEF TimeoutFires
  <2>4. BreakpointJustified' /\ ZeroMeansOverOrExpired'
    BY <1>0, <2>1, <2>2 DEF BreakpointJustified, ZeroMeansOverOrExpired
  <2> QED
    BY <2>1, <2>2, <2>3, <2>4
<1>3. CASE DelayEnds
  <2>1. BreakpointJustified' /\ ZeroMeansOverOrExpired'
    BY <1>0, <1>3 DEF DelayEnds, BreakpointJustified, ZeroMeansOverOrExpired
  <2> QED
    BY <1>3, <2>1 DEF DelayEnds, SendRequest
<1>4. CASE BackoffEnds
  <2>1. BreakpointJustified' /\ ZeroMeansOverOrExpired'
    BY <1>0, <1>4 DEF BackoffEnds, BreakpointJustified, ZeroMeansOverOrExpired
  <2> QED
    BY <1>4, <2>1 DEF BackoffEnds, SendRequest
<1>5. CASE RequestFails
  <2>1. /\ pc = "request" /\ exit = NoCode
        /\ UNCHANGED <<scan, breakpoint, depth, view, expired, late>>
    BY <1>5 DEF RequestFails
  <2>2. CASE depth < MaxDepth /\ pc' = "backoff" /\ UNCHANGED <<active, timer, exit>>
    <3>1. BreakpointJustified' /\ ZeroMeansOverOrExpired'
      BY <1>0, <2>1, <2>2 DEF BreakpointJustified, ZeroMeansOverOrExpired
    <3> QED
      BY <2>1, <2>2, <3>1
  <2>3. CASE Finish(1)
    BY <2>1, <2>3, EndsRound
  <2> QED
    BY <1>5, <2>2, <2>3 DEF RequestFails, CanRetry
<1>6. CASE RequestAnswered
  <2>1. /\ pc = "request" /\ exit = NoCode /\ view' = scan
        /\ UNCHANGED <<scan, breakpoint, depth, expired, late>>
    BY <1>6 DEF RequestAnswered
  <2>2. IsExcepted(scan) <=> Breaches(scan)
    BY ExceptedIsBreach
  <2>3. CASE active /\ pc' = "delay" /\ UNCHANGED <<active, timer, exit>>
    <3>1. BreakpointJustified' /\ ZeroMeansOverOrExpired'
      BY <1>0, <2>1, <2>3 DEF BreakpointJustified, ZeroMeansOverOrExpired
    <3> QED
      BY <2>1, <2>3, <3>1
  <2>4. CASE ~active /\ ~IsExcepted(scan) /\ Finish(0)
    <3>1. expired /\ ~Breaches(view')
      BY <2>1, <2>2, <2>4 DEF Breaches
    <3> QED
      BY <2>1, <2>4, <3>1, EndsRound
  <2>5. CASE IsRedundant(scan.status) /\ Finish(0)
    BY <2>1, <2>5, EndsRound DEF IsRedundant
  <2>6. CASE IsExcepted(scan) /\ Finish(50)
    BY <2>1, <2>2, <2>6, EndsRound
  <2> QED
    BY <1>6, <2>3, <2>4, <2>5, <2>6 DEF RequestAnswered, NextRound
<1>7. CASE UNCHANGED vars
  BY <1>7 DEF vars, BreakpointJustified, ZeroMeansOverOrExpired, Breaches
<1> QED
  BY <1>1, <1>2, <1>3, <1>4, <1>5, <1>6, <1>7 DEF Next, Poll
-----------------------------------------------------------------------------
\* The invariant holds throughout.
THEOREM SpecIInv == Spec => []IInv
<1>1. Init => IInv
  BY InitIInv
<1>2. IInv /\ [Next]_vars => IInv'
  BY StepIInv
<1> QED
  BY <1>1, <1>2, PTL DEF Spec

\* Every variable keeps its type, and retries stay within the limit.
THEOREM SpecTypeOK == Spec => []TypeOK
<1>1. IInv => TypeOK
  BY DEF IInv
<1> QED
  BY <1>1, SpecIInv, PTL

\* Exit code 50 is only used for a scan with an issue that the breakpoint is
\* about.
THEOREM SpecBreakpointJustified == Spec => []BreakpointJustified
<1>1. IInv => BreakpointJustified
  BY DEF IInv
<1> QED
  BY <1>1, SpecIInv, PTL

\* Exit code 0 is only used for a scan that is over, or after the timeout.
THEOREM SpecZeroMeansOverOrExpired == Spec => []ZeroMeansOverOrExpired
<1>1. IInv => ZeroMeansOverOrExpired
  BY DEF IInv
<1> QED
  BY <1>1, SpecIInv, PTL

\* After the timeout at most one request and its DEFAULT_RECONNECT_TIMES
\* retries are still sent.
THEOREM SpecLateRequestsBounded == Spec => []LateRequestsBounded
<1>1. IInv => LateRequestsBounded
  BY DEF IInv
<1> QED
  BY <1>1, SpecIInv, PTL
-----------------------------------------------------------------------------
(* The countdown *)

\* What is left after a step of the last round is less than before it.
LEMMA PollCountsDown ==
  ASSUME IInv, IInv', Poll, expired, pc # "over"
  PROVE  StepsLeft' \in 0..StepsLeft /\ StepsLeft' < StepsLeft
<1> USE MaxDepthAssumption DEF StepsLeft
<1>1. depth \in 0..MaxDepth /\ depth' \in 0..MaxDepth
  BY DEF IInv, TypeOK
<1>2. CASE pc = "request" /\ pc' = "over"
  BY <1>1, <1>2
<1>3. CASE pc = "request" /\ pc' = "backoff" /\ depth' = depth
  BY <1>1, <1>3
<1>4. CASE pc = "backoff" /\ pc' = "request" /\ depth' = depth + 1
  BY <1>1, <1>4
<1>5. CASE pc = "delay" /\ pc' = "request" /\ depth' = 0
  BY <1>1, <1>5
<1>6. pc = "request" => ~active
  BY DEF IInv
<1> QED
  BY <1>2, <1>3, <1>4, <1>5, <1>6
  DEF Poll, DelayEnds, BackoffEnds, RequestFails, RequestAnswered, NextRound, Finish

\* After the timeout the loop is counted down to its end, for every number of
\* retries.  With the weak fairness of Poll this is why it ends in time.
THEOREM SpecCountsDown == Spec => CountsDown
<1> DEFINE Down == expired /\ pc # "over" =>
                     /\ StepsLeft' \in 0..StepsLeft
                     /\ Poll => StepsLeft' < StepsLeft
<1>1. IInv /\ IInv' /\ [Next]_vars => [Down]_vars
  <2> SUFFICES ASSUME IInv, IInv', Next, expired, pc # "over"
               PROVE  StepsLeft' \in 0..StepsLeft /\ (Poll => StepsLeft' < StepsLeft)
    OBVIOUS
  <2>1. CASE Poll
    BY <2>1, PollCountsDown
  <2>2. CASE ScanMoves /\ ~Poll
    <3>1. UNCHANGED <<pc, depth>>
      BY <2>2 DEF ScanMoves
    <3>2. StepsLeft \in Nat /\ StepsLeft' = StepsLeft
      <4>1. depth \in 0..MaxDepth /\ pc \in {"delay", "request", "backoff", "over"}
        BY DEF IInv, TypeOK
      <4>2. StepsLeft \in Nat
        BY <4>1, MaxDepthAssumption DEF StepsLeft
      <4> QED
        BY <3>1, <4>2 DEF StepsLeft
    <3> QED
      BY <2>2, <3>2
  <2>3. ~TimeoutFires
    BY DEF IInv, TimeoutFires
  <2> QED
    BY <2>1, <2>2, <2>3 DEF Next
<1> QED
  BY <1>1, SpecIInv, PTL DEF Spec, CountsDown
=============================================================================
