------------------------- MODULE NetworkTestProofs --------------------------
(***************************************************************************)
(* Proofs about Traceroute and NetworkTest, for any number of probes, hops *)
(* and URLs, any limit of the pool and any distance of the destination.    *)
(*                                                                         *)
(* HopsBounded is about the counters ttl, probes and port; what keeps them *)
(* within bounds is that a single chain of callbacks works on them.  How   *)
(* many there are is ChainsCounted, from the cardinalities of the probes   *)
(* that are queued and timed.  The network test uses the trace only by     *)
(* steps that it allows, SpecTrace.                                        *)
(***************************************************************************)
EXTENDS NetworkTest, FiniteSetTheorems, SequenceTheorems, TLAPS

\* Before sendPacket is called for the first time nothing is under way.
Fresh ==
  status \in {"idle", "resolving"} =>
    /\ ttl = 1 /\ probes = 0 /\ port = 0 /\ scheduled = 0
    /\ queued = {} /\ timers = {}

\* No probe is queued and timed; chains are added by late replies only, and
\* a trace that runs keeps one.
ChainsInv ==
  /\ queued \intersect timers = {}
  /\ Chains <= 1 + extra
  /\ status = "running" => Chains >= 1

\* With a single chain, sendPacket is never called again after the last probe
\* of the last ttl.
NotPastTheEnd ==
  AmountProbes > 0 =>
    /\ probes <= AmountProbes
    /\ extra = 0 /\ scheduled > 0 /\ probes = AmountProbes => ttl < MaximumHops

TraceInv ==
  /\ TraceTypeOK
  /\ Fresh
  /\ ChainsInv
  /\ NotPastTheEnd
  /\ HopsBounded

\* The counters before the first probe.
LEMMA InitInv == TraceInit => TraceInv
<1> SUFFICES ASSUME TraceInit PROVE TraceInv
  OBVIOUS
<1>1. TraceTypeOK
  <2>1. /\ ttl \in Nat \ {0} /\ probes \in Nat /\ port \in Nat
        /\ scheduled \in Nat /\ timeout \in 0..port /\ copies \in 0..MaxCopies
        /\ extra \in Nat
    BY TracerouteAssumption DEF TraceInit
  <2>2. lookups \in [Addresses -> Nat]
    BY DEF TraceInit
  <2> QED
    BY <2>1, <2>2, Zenon DEF TraceInit, TraceTypeOK, Statuses
<1>2. HopsBounded /\ NotPastTheEnd /\ Fresh
  BY TracerouteAssumption DEF TraceInit, HopsBounded, NotPastTheEnd, Fresh
<1>3. ChainsInv
  BY FS_EmptySet DEF TraceInit, ChainsInv, Chains
<1> QED
  BY <1>1, <1>2, <1>3 DEF TraceInv

\* One row of AmountProbes probes more.
LEMMA NextRow ==
  ASSUME NEW t \in Nat, NEW a \in Nat
  PROVE  ((t + 1) - 1) * a + 1 = ((t - 1) * a + a) + 1
  OBVIOUS

\* A set of probes is finite, and one more or one less counts.
LEMMA CountProbes ==
  ASSUME NEW n \in Nat, NEW S \in SUBSET (1..n)
  PROVE  /\ Cardinality(S) \in Nat
         /\ \A p : p \notin S => Cardinality(S \union {p}) = Cardinality(S) + 1
         /\ \A p \in S : Cardinality(S \ {p}) = Cardinality(S) - 1
         /\ \A T \in SUBSET S : Cardinality(T) \in Nat /\ Cardinality(T) <= Cardinality(S)
<1>1. IsFiniteSet(S)
  <2>1. 1 \in Int /\ n \in Int
    OBVIOUS
  <2>2. IsFiniteSet(1..n)
    BY <2>1, FS_Interval, Zenon
  <2> QED
    BY <2>2, FS_Subset, Zenon
<1>2. Cardinality(S) \in Nat
  BY <1>1, FS_CardinalityType, Zenon
<1>3. \A p : p \notin S => Cardinality(S \union {p}) = Cardinality(S) + 1
  BY <1>1, FS_AddElement, Zenon
<1>4. \A p \in S : Cardinality(S \ {p}) = Cardinality(S) - 1
  BY <1>1, FS_RemoveElement, Zenon
<1>5. \A T \in SUBSET S : Cardinality(T) \in Nat /\ Cardinality(T) <= Cardinality(S)
  BY <1>1, FS_Subset, FS_CardinalityType, Zenon
<1> QED
  BY <1>2, <1>3, <1>4, <1>5, Zenon

\* One timer less, or several, leave at most one less than there were.
LEMMA OneLess ==
  ASSUME NEW n \in Nat, NEW S \in SUBSET (1..n), NEW p \in S,
         NEW T \in SUBSET (S \ {p})
  PROVE  Cardinality(T) <= Cardinality(S) - 1
<1>1. S \ {p} \in SUBSET (1..n)
  OBVIOUS
<1>2. Cardinality(T) <= Cardinality(S \ {p})
  BY <1>1, CountProbes, Zenon
<1>3. Cardinality(S \ {p}) = Cardinality(S) - 1
  BY CountProbes, Zenon
<1> QED
  BY <1>2, <1>3

\* handleReply() preserves the types of what it changes.
LEMMA RepliesType ==
  ASSUME TraceTypeOK, NEW ip, NEW fired, HandleReply(ip, fired)
  PROVE  /\ timers' \in SUBSET (1..port) /\ scheduled' \in Nat
         /\ status' \in Statuses /\ socket' \in {"closed", "open"}
         /\ reached' \in BOOLEAN
<1>1. timers' \in SUBSET (1..port) /\ scheduled' \in Nat
  <2>1. timers' \subseteq timers
    BY Zenon DEF HandleReply
  <2>2. UNCHANGED scheduled \/ scheduled' = scheduled + 1
    BY Zenon DEF HandleReply
  <2> QED
    BY <2>1, <2>2 DEF TraceTypeOK
<1>2. status' \in Statuses /\ socket' \in {"closed", "open"}
  BY DEF TraceTypeOK, HandleReply, Statuses
<1>3. reached' \in BOOLEAN
  <2>1. UNCHANGED reached \/ reached' = (ip = "dest")
    BY Zenon DEF HandleReply
  <2> QED
    BY <2>1, Zenon DEF TraceTypeOK
<1> QED
  BY <1>1, <1>2, <1>3

\* Every callback preserves the types.
LEMMA StepType == TraceTypeOK /\ [TraceNext]_traceVars => TraceTypeOK'
<1> SUFFICES ASSUME TraceTypeOK, [TraceNext]_traceVars
             PROVE  TraceTypeOK'
  OBVIOUS
<1> USE TracerouteAssumption DEF TraceTypeOK, Statuses, chainVars
<1>1. CASE Execute
  BY <1>1, Zenon DEF Execute
<1>2. CASE Resolved
  <2>1. scheduled' \in Nat
    BY <1>2 DEF Resolved
  <2> QED
    BY <1>2, <2>1, Zenon DEF Resolved
<1>3. CASE SendPacket
  <2>1. ttl' \in Nat \ {0} /\ probes' \in Nat
    BY <1>3 DEF SendPacket, Count
  <2>2. port' = port + 1 /\ scheduled > 0 /\ scheduled' = scheduled - 1
    BY <1>3 DEF SendPacket
  <2>3. port' \in Nat /\ scheduled' \in Nat /\ port' \in 1..port'
    BY <2>2
  <2>4. 0..port \subseteq 0..port' /\ 1..port \subseteq 1..port'
    BY <2>2
  <2>5. timeout' \in 0..port' /\ timers' \in SUBSET (1..port')
    BY <1>3, <2>4, Zenon DEF SendPacket
  <2>6. queued' \in SUBSET (1..port')
    <3>1. queued' = queued \/ queued' = queued \union {port'}
      BY <1>3, Zenon DEF SendPacket
    <3> QED
      BY <2>3, <2>4, <3>1, Zenon
  <2> QED
    BY <1>3, <2>1, <2>3, <2>5, <2>6, Zenon DEF SendPacket
<1>4. ASSUME NEW p \in queued, Sent(p)
      PROVE  TraceTypeOK'
  <2>1. /\ timers' \in SUBSET (1..port) /\ timeout' \in 0..port
        /\ queued' \in SUBSET (1..port)
    BY <1>4 DEF Sent
  <2> QED
    BY <1>4, <2>1, Zenon DEF Sent
<1>5. ASSUME NEW p \in queued, SendFails(p)
      PROVE  TraceTypeOK'
  <2>1. queued' \in SUBSET (1..port)
    BY <1>5, Zenon DEF SendFails
  <2> QED
    BY <1>5, <2>1, Zenon DEF SendFails, EmitError
<1>6. CASE SocketFails
  BY <1>6, Zenon DEF SocketFails, EmitError
<1>7. CASE Reply
  <2>1. lookups' \in [Addresses -> Nat]
    BY <1>7 DEF Reply, Addresses
  <2>2. copies' \in 0..MaxCopies
    BY <1>7 DEF Reply
  <2> QED
    BY <1>7, <2>1, <2>2, Zenon DEF Reply
<1>8. ASSUME NEW a \in Addresses, LookupEnds(a)
      PROVE  TraceTypeOK'
  <2>1. lookups' \in [Addresses -> Nat] /\ extra' \in Nat
    BY <1>8 DEF LookupEnds
  <2>2. HandleReply(a, 0)
    BY <1>8 DEF LookupEnds
  <2> QED
    BY <1>8, <2>1, <2>2, RepliesType, Zenon DEF LookupEnds
<1>9. ASSUME NEW p \in timers, TimerFires(p)
      PROVE  TraceTypeOK'
  <2>1. HandleReply("none", p)
    BY <1>9 DEF TimerFires
  <2> QED
    BY <1>9, <2>1, RepliesType, Zenon DEF TimerFires
<1>10. CASE UNCHANGED traceVars
  BY <1>10, Zenon DEF traceVars
<1> QED
  BY <1>1, <1>2, <1>3, <1>4, <1>5, <1>6, <1>7, <1>8, <1>9, <1>10
  DEF TraceNext, TraceStep

\* handleReply() takes one timer for the call of sendPacket that it starts, or
\* finds none, and then a reply has been handled late.
LEMMA RepliesChains ==
  ASSUME TraceInv, NEW ip, NEW fired,
         HandleReply(ip, fired), UNCHANGED queued,
         \/ fired \in timers /\ extra' = extra
         \/ fired = 0 /\ extra' = IF timeout \in timers THEN extra ELSE extra + 1
  PROVE  ChainsInv'
<1> DEFINE T == Cardinality(timers)
           Q == Cardinality(queued)
<1> USE DEF TraceInv, TraceTypeOK
<1>1. T \in Nat /\ Q \in Nat
  BY CountProbes, Zenon
<1>2. timers' = timers \ {timeout, fired}
  BY Zenon DEF HandleReply
<1>3. timers' \in SUBSET timers /\ timers \in SUBSET (1..port)
  BY <1>2
<1>4. Cardinality(timers') \in Nat /\ Cardinality(timers') <= T
  BY <1>3, CountProbes, Zenon
<1>5. \/ Cardinality(timers') <= T - 1 /\ extra' = extra
      \/ timers' = timers /\ extra' = extra + 1
  <2>1. CASE fired \in timers /\ extra' = extra
    <3>1. timers' \in SUBSET (timers \ {fired})
      BY <1>2, Zenon
    <3> QED
      BY <1>3, <2>1, <3>1, OneLess, Zenon
  <2>2. CASE fired = 0 /\ timeout \in timers /\ extra' = extra
    <3>1. timers' \in SUBSET (timers \ {timeout})
      BY <1>2, Zenon
    <3> QED
      BY <1>3, <2>2, <3>1, OneLess, Zenon
  <2>3. CASE fired = 0 /\ timeout \notin timers /\ extra' = extra + 1
    <3>1. 0 \notin timers
      BY <1>3
    <3> QED
      BY <1>2, <2>3, <3>1, Zenon
  <2> QED
    BY <2>1, <2>2, <2>3, Zenon
<1>6. \/ scheduled' = scheduled + 1
      \/ scheduled' = scheduled /\ status' # "running"
  BY DEF HandleReply
<1>7. Chains <= 1 + extra /\ extra \in Nat /\ scheduled \in Nat
  BY DEF ChainsInv
<1>8. Chains = scheduled + Q + T /\ Chains' = scheduled' + Q + Cardinality(timers')
  BY DEF Chains
<1> HIDE DEF T, Q
<1>9. Chains' <= 1 + extra' /\ (status' = "running" => Chains' >= 1)
  <2>1. timers' = timers => Cardinality(timers') = T
    BY DEF T
  <2> QED
    BY <1>1, <1>4, <1>5, <1>6, <1>7, <1>8, <2>1
<1>10. (queued \intersect timers = {})'
  BY <1>3 DEF ChainsInv
<1> QED
  BY <1>9, <1>10 DEF ChainsInv

\* Every callback keeps count of the chains.
LEMMA StepChains == TraceInv /\ [TraceNext]_traceVars => ChainsInv'
<1> SUFFICES ASSUME TraceInv, [TraceNext]_traceVars
             PROVE  ChainsInv'
  OBVIOUS
<1> DEFINE T == Cardinality(timers)
           Q == Cardinality(queued)
<1>0. /\ T \in Nat /\ Q \in Nat /\ scheduled \in Nat /\ extra \in Nat
      /\ port \in Nat /\ queued \in SUBSET (1..port) /\ timers \in SUBSET (1..port)
  BY CountProbes, Zenon DEF TraceInv, TraceTypeOK
<1>00. /\ queued \intersect timers = {}
       /\ scheduled + Q + T <= 1 + extra
       /\ status = "running" => scheduled + Q + T >= 1
  BY DEF TraceInv, ChainsInv, Chains
<1>1. CASE Resolved
  <2>1. scheduled = 0 /\ queued = {} /\ timers = {}
    BY <1>1 DEF Resolved, TraceInv, Fresh
  <2>2. Q = 0 /\ T = 0
    BY <2>1, FS_EmptySet, Zenon
  <2>3. UNCHANGED <<queued, timers, extra>> /\ scheduled' = scheduled + 1
    BY <1>1 DEF Resolved
  <2> QED
    BY <1>0, <2>1, <2>2, <2>3 DEF ChainsInv, Chains
<1>2. CASE SendPacket
  <2>1. /\ scheduled > 0 /\ scheduled' = scheduled - 1
        /\ UNCHANGED <<timers, extra>>
    BY <1>2 DEF SendPacket
  <2>2. \/ status' = "crashed" /\ UNCHANGED queued
        \/ queued' = queued \union {port + 1}
    BY <1>2 DEF SendPacket
  <2>3. port + 1 \notin queued /\ port + 1 \notin timers
    BY <1>0
  <2>4. Cardinality(queued \union {port + 1}) = Q + 1
    BY <1>0, <2>3, CountProbes, Zenon
  <2> HIDE DEF Q, T
  <2>5. CASE status' = "crashed" /\ UNCHANGED queued
    <3>1. Chains' = scheduled - 1 + Q + T
      BY <2>1, <2>5 DEF Chains, Q, T
    <3> QED
      BY <1>0, <1>00, <2>1, <2>5, <3>1 DEF ChainsInv
  <2>6. CASE queued' = queued \union {port + 1}
    <3>1. Chains' = (scheduled - 1) + (Q + 1) + T
      BY <2>1, <2>4, <2>6 DEF Chains, T
    <3>2. status' = "running" => status = "running"
      BY <1>2 DEF SendPacket
    <3>3. (queued \intersect timers = {})'
      BY <1>00, <2>1, <2>3, <2>6
    <3> QED
      BY <1>0, <1>00, <2>1, <3>1, <3>2, <3>3 DEF ChainsInv
  <2> QED
    BY <2>2, <2>5, <2>6
<1>3. ASSUME NEW p \in queued, Sent(p)
      PROVE  ChainsInv'
  <2>1. /\ queued' = queued \ {p} /\ timers' = timers \union {p}
        /\ UNCHANGED <<status, scheduled, extra>>
    BY <1>3 DEF Sent
  <2>2. Cardinality(queued') = Q - 1
    BY <1>0, <2>1, CountProbes, Zenon
  <2>3. p \notin timers
    BY <1>00, Zenon
  <2>5. Cardinality(timers') = T + 1
    BY <1>0, <2>1, <2>3, CountProbes, Zenon
  <2>4. (queued \intersect timers = {})'
    BY <1>00, <2>1
  <2> HIDE DEF Q, T
  <2> QED
    BY <1>0, <1>00, <2>1, <2>2, <2>4, <2>5 DEF ChainsInv, Chains
<1>4. ASSUME NEW p \in queued, SendFails(p)
      PROVE  ChainsInv'
  <2>1. /\ queued' = queued \ {p} /\ status' # "running"
        /\ UNCHANGED <<timers, scheduled, extra>>
    BY <1>4 DEF SendFails, EmitError
  <2>2. Cardinality(queued') = Q - 1 /\ Cardinality(timers') = T
    BY <1>0, <2>1, CountProbes, Zenon
  <2>3. (queued \intersect timers = {})'
    BY <1>00, <2>1
  <2> HIDE DEF Q, T
  <2> QED
    BY <1>0, <1>00, <2>1, <2>2, <2>3 DEF ChainsInv, Chains
<1>5. ASSUME UNCHANGED <<scheduled, queued, timers, extra>>,
             status' = "running" => status = "running"
      PROVE  ChainsInv'
  BY <1>5 DEF TraceInv, ChainsInv, Chains
<1>6. CASE Execute \/ SocketFails \/ Reply \/ UNCHANGED traceVars
  BY <1>5, <1>6 DEF Execute, SocketFails, EmitError, Reply, chainVars, traceVars
<1>7. ASSUME NEW a \in Addresses, LookupEnds(a)
      PROVE  ChainsInv'
  BY <1>7, RepliesChains DEF LookupEnds
<1>8. ASSUME NEW p \in timers, TimerFires(p)
      PROVE  ChainsInv'
  BY <1>8, RepliesChains DEF TimerFires
<1> QED
  BY <1>1, <1>2, <1>3, <1>4, <1>6, <1>7, <1>8 DEF TraceNext, TraceStep

\* Every callback preserves what is true before the first probe.
LEMMA StepFresh == TraceInv /\ [TraceNext]_traceVars => Fresh'
<1> SUFFICES ASSUME TraceInv, [TraceNext]_traceVars
             PROVE  Fresh'
  OBVIOUS
<1> USE DEF TraceInv, Fresh, Alive, Listening, EmitError, HandleReply, chainVars
<1>1. CASE Execute \/ Resolved \/ SendPacket
  BY <1>1 DEF Execute, Resolved, SendPacket
<1>2. CASE \E p \in queued : Sent(p) \/ SendFails(p)
  BY <1>2 DEF Sent, SendFails
<1>3. CASE SocketFails \/ Reply
  BY <1>3 DEF SocketFails, Reply
<1>4. CASE \E a \in Addresses : LookupEnds(a)
  BY <1>4 DEF LookupEnds
<1>5. CASE \E p \in timers : TimerFires(p)
  BY <1>5 DEF TimerFires
<1>6. CASE UNCHANGED traceVars
  BY <1>6 DEF traceVars
<1> QED
  BY <1>1, <1>2, <1>3, <1>4, <1>5, <1>6 DEF TraceNext, TraceStep

\* The counters stay within their bounds: only sendPacket counts, and a single
\* chain calls it once for each handleReply.
LEMMA StepHops ==
  TraceInv /\ [TraceNext]_traceVars => NotPastTheEnd' /\ HopsBounded'
<1> SUFFICES ASSUME TraceInv, [TraceNext]_traceVars, AmountProbes > 0
             PROVE  NotPastTheEnd' /\ HopsBounded'
  BY DEF NotPastTheEnd, HopsBounded
<1> USE TracerouteAssumption
<1>0. /\ ttl \in Nat \ {0} /\ probes \in Nat /\ port \in Nat /\ scheduled \in Nat
      /\ extra \in Nat /\ AmountProbes \in Nat /\ MaximumHops \in Nat
      /\ probes <= AmountProbes
      /\ extra = 0 /\ scheduled > 0 /\ probes = AmountProbes => ttl < MaximumHops
      /\ port = (ttl - 1) * AmountProbes + probes
      /\ extra = 0 => ttl <= MaximumHops
  BY DEF TraceInv, TraceTypeOK, NotPastTheEnd, HopsBounded
<1>1. CASE SendPacket
  <2>1. extra = 0 => scheduled <= 1
    <3>1. Cardinality(queued) \in Nat /\ Cardinality(timers) \in Nat
      BY CountProbes, Zenon DEF TraceInv, TraceTypeOK
    <3> QED
      BY <1>0, <3>1 DEF TraceInv, ChainsInv, Chains
  <2>2. /\ scheduled > 0 /\ scheduled' = scheduled - 1 /\ port' = port + 1
        /\ extra' = extra /\ Count
    BY <1>1 DEF SendPacket
  <2>3. CASE probes >= AmountProbes
    <3>1. probes = AmountProbes /\ ttl' = ttl + 1 /\ probes' = 1
      BY <1>0, <2>2, <2>3 DEF Count
    <3>2. port' = ((ttl + 1) - 1) * AmountProbes + 1
      BY <1>0, <2>2, <3>1, NextRow
    <3>3. HopsBounded'
      BY <1>0, <2>2, <3>1, <3>2 DEF HopsBounded
    <3>4. NotPastTheEnd'
      BY <1>0, <2>1, <2>2, <3>1 DEF NotPastTheEnd
    <3> QED
      BY <3>3, <3>4
  <2>4. CASE ~(probes >= AmountProbes)
    <3>1. ttl' = ttl /\ probes' = probes + 1
      BY <2>2, <2>4 DEF Count
    <3>2. port' = (ttl' - 1) * AmountProbes + probes'
      <4>1. (ttl - 1) * AmountProbes \in Int
        BY <1>0
      <4> HIDE DEF Count
      <4> QED
        BY <1>0, <2>2, <3>1, <4>1
    <3>3. HopsBounded'
      BY <1>0, <2>2, <3>1, <3>2 DEF HopsBounded
    <3>4. NotPastTheEnd'
      BY <1>0, <2>1, <2>2, <2>4, <3>1 DEF NotPastTheEnd
    <3> QED
      BY <3>3, <3>4
  <2> QED
    BY <2>3, <2>4
<1>2. ASSUME UNCHANGED <<ttl, probes, port>>, extra' = extra \/ extra' = extra + 1
      PROVE  HopsBounded'
  BY <1>0, <1>2 DEF HopsBounded
<1>3. ASSUME UNCHANGED <<ttl, probes, port, scheduled, extra>>
      PROVE  NotPastTheEnd' /\ HopsBounded'
  BY <1>0, <1>2, <1>3 DEF NotPastTheEnd
<1>4. CASE Resolved
  <2>1. probes = 0 /\ UNCHANGED <<ttl, probes, port, extra>>
    BY <1>4 DEF Resolved, TraceInv, Fresh
  <2> QED
    BY <1>0, <1>2, <2>1 DEF NotPastTheEnd
<1>5. ASSUME NEW ip, NEW fired, HandleReply(ip, fired),
             UNCHANGED <<ttl, probes, port>>, extra' = extra \/ extra' = extra + 1
      PROVE  NotPastTheEnd' /\ HopsBounded'
  <2>1. \/ UNCHANGED scheduled
        \/ ~(probes = AmountProbes /\ ttl >= MaximumHops)
    BY <1>5 DEF HandleReply
  <2> QED
    BY <1>0, <1>2, <1>5, <2>1 DEF NotPastTheEnd
<1>6. ASSUME NEW a \in Addresses, LookupEnds(a)
      PROVE  NotPastTheEnd' /\ HopsBounded'
  BY <1>5, <1>6 DEF LookupEnds
<1>7. ASSUME NEW p \in timers, TimerFires(p)
      PROVE  NotPastTheEnd' /\ HopsBounded'
  BY <1>5, <1>7 DEF TimerFires
<1>8. ASSUME NEW p \in queued, Sent(p) \/ SendFails(p)
      PROVE  NotPastTheEnd' /\ HopsBounded'
  BY <1>3, <1>8 DEF Sent, SendFails
<1>9. CASE Execute \/ SocketFails \/ Reply \/ UNCHANGED traceVars
  BY <1>3, <1>9 DEF Execute, SocketFails, Reply, traceVars, chainVars
<1> QED
  BY <1>1, <1>4, <1>6, <1>7, <1>8, <1>9 DEF TraceNext, TraceStep

\* TraceInv is an invariant.
THEOREM TraceInvariant == TraceSpec => []TraceInv
<1>1. TraceInv /\ [TraceNext]_traceVars => TraceInv'
  BY StepType, StepChains, StepFresh, StepHops DEF TraceInv
<1> QED
  BY InitInv, <1>1, PTL DEF TraceSpec

\* Every variable of Traceroute has its type.
THEOREM TraceTypeCorrect == TraceSpec => []TraceTypeOK
  BY TraceInvariant, PTL DEF TraceInv

\* A trace that runs has a chain of callbacks, and no more of them than one and
\* one for each late reply, however many replies a probe gets.
THEOREM TraceChainsCounted == TraceSpec => []ChainsCounted
<1>1. TraceInv => ChainsCounted
  <2> SUFFICES ASSUME TraceInv, status = "running" PROVE Chains \in 1..(1 + extra)
    BY DEF ChainsCounted
  <2>1. /\ Cardinality(queued) \in Nat /\ Cardinality(timers) \in Nat
        /\ scheduled \in Nat /\ extra \in Nat
    BY CountProbes, Zenon DEF TraceInv, TraceTypeOK
  <2> QED
    BY <2>1 DEF TraceInv, ChainsInv, Chains
<1> QED
  BY <1>1, TraceInvariant, PTL

\* A trace that has neither stopped nor failed has a probe under way.
TraceGoesOn ==
  status = "running" => scheduled > 0 \/ queued # {} \/ timers # {}

\* A trace never stalls, however many replies a probe gets.
THEOREM TraceNeverStalls == TraceSpec => []TraceGoesOn
<1>1. TraceInv => TraceGoesOn
  <2> SUFFICES ASSUME TraceInv, status = "running", queued = {}, timers = {}
               PROVE  scheduled > 0
    BY DEF TraceGoesOn
  <2>1. Cardinality(queued) = 0 /\ Cardinality(timers) = 0
    BY FS_EmptySet, Zenon
  <2> QED
    BY <2>1 DEF TraceInv, TraceTypeOK, ChainsInv, Chains
<1> QED
  BY <1>1, TraceInvariant, PTL

\* The trace ends at maximumHops, with amountProbes probes for each ttl, unless
\* a second chain runs: for any options and wherever the destination is.
THEOREM TraceHopsBounded == TraceSpec => []HopsBounded
  BY TraceInvariant, PTL DEF TraceInv
-----------------------------------------------------------------------------
(* The network test *)

\* Whatever the hub, the wizard and a person do, the trace of a network test
\* is one of Traceroute.
THEOREM SpecTrace == Spec => TraceSpec
<1>1. Init => TraceInit
  BY DEF Init
<1>2. [Next]_vars => [TraceNext]_traceVars
  <2> SUFFICES ASSUME [Next]_vars PROVE [TraceNext]_traceVars
    OBVIOUS
  <2>1. CASE HostTyped
    BY <2>1 DEF HostTyped, TraceNext
  <2>2. CASE Trace
    BY <2>2 DEF Trace, TraceNext
  <2>3. CASE UNCHANGED traceVars
    BY <2>3
  <2>4. CASE UNCHANGED vars
    BY <2>4 DEF vars
  <2> QED
    BY <2>1, <2>2, <2>3, <2>4
    DEF Next, Spawn, SpawnFails, Close, Data, PersonTypes, PersonLeaves,
        PersonInterrupts, Start, IdTyped, TokenTyped, HttpVerified,
        AuthVerified, UrlsTyped, UrlTested, SocketRefused, TraceEnds, WizardEnds
<1> QED
  BY <1>1, <1>2, PTL DEF Spec, TraceSpec

\* No trace of a network test sends a probe beyond maximumHops.
THEOREM SpecHopsBounded == Spec => []HopsBounded
  BY SpecTrace, TraceHopsBounded, PTL

\* The chains of a trace of a network test are counted as its own are.
THEOREM SpecChainsCounted == Spec => []ChainsCounted
  BY SpecTrace, TraceChainsCounted, PTL

\* The hub starts no second wizard.
StartInv ==
  /\ mode \in {"ping", "traceroute", "full"}
  /\ test = "idle" /\ mode # "full" => wizard = "off"

-----------------------------------------------------------------------------
(* The pool *)

\* What pool() keeps true: the items before `next` are running or have their
\* verdict, and nothing is left of it before the question and after the end.
PoolInv ==
  /\ StartInv
  /\ wizard \in Places
  /\ next \in 1..(Urls + 1)
  /\ running \in SUBSET (1..(next - 1))
  /\ Cardinality(running) <= PoolLimit
  /\ wizard = "pool" /\ next <= Urls => Cardinality(running) = PoolLimit
  /\ wizard = "pool" => reported = -1
  /\ wizard \in {"off", "starting", "id", "token", "http", "auth", "urls"}
       => next = 1 /\ reported = -1

\* A pool of members with items from n on is filled up to its limit.
LEMMA FillBounded ==
  ASSUME NEW n \in 1..(Urls + 1), NEW members \in SUBSET (1..(n - 1)),
         Cardinality(members) <= PoolLimit, Fill(n, members)
  PROVE  /\ next' \in n..(Urls + 1)
         /\ running' = members \union (n..(next' - 1))
         /\ running' \in SUBSET (1..(next' - 1))
         /\ Cardinality(running') <= PoolLimit
         /\ next' <= Urls => Cardinality(running') = PoolLimit
<1> USE NetworkTestAssumption
<1> DEFINE c == Cardinality(members)
           until == IF Urls < n + (PoolLimit - c) - 1 THEN Urls
                    ELSE n + (PoolLimit - c) - 1
<1>1. IsFiniteSet(members) /\ c \in Nat
  <2>1. IsFiniteSet(1..(n - 1))
    BY FS_Interval
  <2>2. IsFiniteSet(members)
    BY <2>1, FS_Subset, Zenon
  <2> QED
    BY <2>2, FS_CardinalityType, Zenon
<1>2. running' = members \union (n..until) /\ next' = until + 1
  BY Zenon DEF Fill, Free
<1> HIDE DEF c
<1>3. c <= PoolLimit
  BY DEF c
<1>4. until \in (n - 1)..Urls
  BY <1>1, <1>3
<1>5. IsFiniteSet(n..until) /\ Cardinality(n..until) = until - n + 1
  <2> HIDE DEF until
  <2>1. n \in Int /\ until \in Int
    BY <1>4
  <2>2. /\ IsFiniteSet(n..until)
        /\ Cardinality(n..until) = IF n > until THEN 0 ELSE until - n + 1
    BY <2>1, FS_Interval, Zenon
  <2> QED
    BY <1>4, <2>1, <2>2
<1>6. members \intersect (n..until) = {}
  BY <1>4
<1>7. Cardinality(running') = c + (until - n + 1)
  <2> HIDE DEF until
  <2>1. Cardinality(members \union (n..until)) =
          c + Cardinality(n..until) - Cardinality(members \intersect (n..until))
    BY <1>1, <1>5, FS_Union, Zenon DEF c
  <2>2. Cardinality(members \intersect (n..until)) = 0
    BY <1>6, FS_EmptySet
  <2> QED
    BY <1>1, <1>2, <1>4, <1>5, <2>1, <2>2
<1>8. until <= n + (PoolLimit - c) - 1
  BY <1>1, <1>3
<1>9. until < Urls => until = n + (PoolLimit - c) - 1
  BY <1>1, <1>3, SMTT(20)
<1> HIDE DEF until
<1> QED
  BY <1>1, <1>2, <1>3, <1>4, <1>7, <1>8, <1>9

\* PoolInv is preserved: only the answer to the question and the end of a test
\* touch the pool.
LEMMA StepPool == PoolInv /\ [Next]_vars => PoolInv'
<1> SUFFICES ASSUME PoolInv, [Next]_vars PROVE PoolInv'
  OBVIOUS
<1> USE NetworkTestAssumption DEF PoolInv, StartInv, Places, setupVars, hubVars
<1>1. CASE UrlsTyped
  <2>1. Fill(1, {}) /\ wizard = "urls" /\ next = 1 /\ reported = -1
    BY <1>1 DEF UrlsTyped
  <2>2. Cardinality({}) = 0
    BY FS_EmptySet
  <2>3. /\ next' \in 1..(Urls + 1)
        /\ running' \in SUBSET (1..(next' - 1))
        /\ Cardinality(running') <= PoolLimit
        /\ next' <= Urls => Cardinality(running') = PoolLimit
    BY <2>1, <2>2, FillBounded
  <2>4. \/ wizard' = "pool" /\ reported' = reported
        \/ wizard' = "done"
        \/ UNCHANGED wizard /\ Urls = 0 /\ ~PoolEnds(running', next')
    BY <1>1 DEF UrlsTyped, Report
  <2>5. Urls = 0 => PoolEnds(running', next')
    BY <2>3 DEF PoolEnds
  <2>6. UNCHANGED <<mode, test>>
    BY <1>1 DEF UrlsTyped
  <2> QED
    BY <2>1, <2>3, <2>4, <2>5, <2>6
<1>2. ASSUME NEW u \in running, NEW ok \in BOOLEAN, UrlTested(u, ok)
      PROVE  PoolInv'
  <2>1. wizard = "pool" /\ Fill(next, running \ {u})
    BY <1>2, Zenon DEF UrlTested
  <2>2. IsFiniteSet(running)
    <3>1. IsFiniteSet(1..(next - 1))
      BY FS_Interval
    <3> QED
      BY <3>1, FS_Subset, Zenon
  <2>3. Cardinality(running \ {u}) <= PoolLimit
    <3>1. Cardinality(running \ {u}) = Cardinality(running) - 1
      BY <2>2, FS_RemoveElement, Zenon
    <3>2. Cardinality(running) \in Nat
      BY <2>2, FS_CardinalityType
    <3> QED
      BY <3>1, <3>2
  <2>4. /\ next' \in next..(Urls + 1)
        /\ running' \in SUBSET (1..(next' - 1))
        /\ Cardinality(running') <= PoolLimit
        /\ next' <= Urls => Cardinality(running') = PoolLimit
    BY <2>1, <2>3, FillBounded
  <2>5. wizard' = "done" \/ UNCHANGED <<wizard, reported>>
    <3>1. Report
      BY <1>2, Zenon DEF UrlTested
    <3> QED
      BY <3>1 DEF Report
  <2>6. UNCHANGED <<mode, test>> /\ wizard = "pool"
    BY <1>2 DEF UrlTested
  <2>7. StartInv'
    BY <2>6
  <2>8. next' \in 1..(Urls + 1)
    BY <2>4
  <2> QED
    BY <2>4, <2>5, <2>6, <2>7, <2>8
<1> USE DEF poolVars
<1>3. CASE Spawn \/ SpawnFails \/ Close
  BY <1>3 DEF Spawn, SpawnFails, Close
<1>4. CASE \E n \in 1..Len(stdout) : Data(n)
  BY <1>4 DEF Data
<1>5. CASE \E a \in Answers : PersonTypes(a)
  BY <1>5 DEF PersonTypes
<1>6. CASE PersonLeaves \/ PersonInterrupts
  BY <1>6 DEF PersonLeaves, PersonInterrupts
<1>7. CASE Start
  BY <1>7 DEF Start
<1>8. CASE IdTyped \/ TokenTyped \/ HttpVerified
  BY <1>8 DEF IdTyped, TokenTyped, HttpVerified
<1>9. CASE \E ok \in BOOLEAN : AuthVerified(ok)
  BY <1>9 DEF AuthVerified
<1>10. CASE HostTyped \/ SocketRefused
  BY <1>10 DEF HostTyped, SocketRefused
<1>11. CASE Trace
  BY <1>11 DEF Trace
<1>12. CASE TraceEnds \/ WizardEnds
  BY <1>12 DEF TraceEnds, WizardEnds, Questions
<1>13. CASE UNCHANGED vars
  BY <1>13 DEF vars
<1> QED
  BY <1>1, <1>2, <1>3, <1>4, <1>5, <1>6, <1>7, <1>8, <1>9, <1>10, <1>11, <1>12,
     <1>13
  DEF Next

\* The URLs with one of the verdicts.
Succeeded == {u \in 1..Urls : verdict[u] = "Success"}
Failed == {u \in 1..Urls : verdict[u] = "Failed"}

\* What processPing() has counted at any time.
CountInv ==
  /\ verdict \in [1..Urls -> {"none", "Success", "Failed"}]
  /\ \A u \in 1..Urls : verdict[u] = "none" <=> (u \in running \/ u >= next)
  /\ reachedCount = Cardinality(Succeeded)
  /\ reported # -1 => /\ running = {} /\ next = Urls + 1
                      /\ reported = Urls - reachedCount

\* CountInv implies what the report says.
LEMMA CountImplies == CountInv => CountTruthful
<1> SUFFICES ASSUME CountInv, reported # -1
             PROVE  /\ \A u \in 1..Urls : verdict[u] # "none"
                    /\ reported = Cardinality(Failed)
  BY DEF CountInv, CountTruthful, Failed
<1> USE NetworkTestAssumption
<1>1. \A u \in 1..Urls : verdict[u] \in {"Success", "Failed"}
  BY DEF CountInv
<1>2. IsFiniteSet(1..Urls) /\ Cardinality(1..Urls) = Urls
  BY FS_Interval
<1>3. IsFiniteSet(Succeeded) /\ IsFiniteSet(Failed)
  <2>1. Succeeded \in SUBSET (1..Urls) /\ Failed \in SUBSET (1..Urls)
    BY DEF Succeeded, Failed
  <2> QED
    BY <1>2, <2>1, FS_Subset, Zenon
<1>4. Succeeded \union Failed = 1..Urls /\ Succeeded \intersect Failed = {}
  BY <1>1 DEF Succeeded, Failed
<1>5. Cardinality(Succeeded \union Failed) = Cardinality(Succeeded)
        + Cardinality(Failed) - Cardinality(Succeeded \intersect Failed)
  BY <1>3, FS_Union, Zenon
<1>6. Cardinality(Succeeded) \in Nat /\ Cardinality(Failed) \in Nat
  BY <1>3, FS_CardinalityType
<1>7. Cardinality(Succeeded \intersect Failed) = 0
  BY <1>4, FS_EmptySet
<1>8. Urls = Cardinality(Succeeded) + Cardinality(Failed)
  <2>1. Cardinality(Succeeded \union Failed) = Urls
    BY <1>2, <1>4, Zenon
  <2> QED
    BY <1>5, <1>6, <1>7, <2>1
<1> QED
  BY <1>1, <1>6, <1>8 DEF CountInv

\* What is not below j is below k or not.
LEMMA SplitAt ==
  \A i, j, k \in Int : j <= k => (i >= j <=> (i \in j..(k - 1) \/ i >= k))
  OBVIOUS

\* CountInv is preserved.
LEMMA StepCount == PoolInv /\ CountInv /\ [Next]_vars => CountInv'
<1> SUFFICES ASSUME PoolInv, CountInv, [Next]_vars PROVE CountInv'
  OBVIOUS
<1> USE NetworkTestAssumption
<1>1. CASE UrlsTyped
  <2>1. /\ Fill(1, {}) /\ next = 1 /\ reported = -1
        /\ UNCHANGED <<verdict, reachedCount>>
    BY <1>1 DEF UrlsTyped, PoolInv
  <2>2. next' \in 1..(Urls + 1) /\ running' = 1..(next' - 1)
    <3>1. /\ Cardinality({}) <= PoolLimit
          /\ 1 \in 1..(Urls + 1) /\ {} \in SUBSET (1..(1 - 1))
      BY FS_EmptySet
    <3>2. next' \in 1..(Urls + 1) /\ running' = {} \union (1..(next' - 1))
      BY <2>1, <3>1, FillBounded, Zenon
    <3> QED
      BY <3>2, Zenon
  <2>3. \A u \in 1..Urls : verdict'[u] = "none" <=> (u \in running' \/ u >= next')
    <3>1. \A u \in 1..Urls : verdict'[u] = "none"
      BY <2>1 DEF CountInv
    <3>2. \A u \in 1..Urls : u \in 1..(next' - 1) \/ u >= next'
      <4>1. next' \in Int /\ 1 <= next'
        <5>1. next' \in 1..(Urls + 1)
          BY <2>2
        <5> QED
          BY <5>1
      <4> SUFFICES ASSUME NEW u \in 1..Urls
                   PROVE  u \in 1..(next' - 1) \/ u >= next'
        OBVIOUS
      <4>2. u \in Int /\ u >= 1 /\ 1 \in Int
        OBVIOUS
      <4> QED
        BY <4>1, <4>2, SplitAt, Zenon
    <3> QED
      BY <2>2, <3>1, <3>2, Zenon
  <2>4. Succeeded' = Succeeded
    BY <2>1 DEF Succeeded
  <2>5. UNCHANGED reported \/ (PoolEnds(running', next') /\ reported' = Urls - reachedCount')
    BY <1>1 DEF UrlsTyped, Report
  <2>6. PoolEnds(running', next') => running' = {} /\ next' = Urls + 1
    <3>1. next' \in 1..(Urls + 1)
      BY <2>2
    <3> QED
      BY <3>1 DEF PoolEnds
  <2> QED
    BY <2>1, <2>3, <2>4, <2>5, <2>6 DEF CountInv
<1>2. ASSUME NEW u \in running, NEW ok \in BOOLEAN, UrlTested(u, ok)
      PROVE  CountInv'
  <2>1. /\ wizard = "pool" /\ Fill(next, running \ {u})
        /\ verdict' = [verdict EXCEPT ![u] = IF ok THEN "Success" ELSE "Failed"]
        /\ reachedCount' = reachedCount + (IF ok THEN 1 ELSE 0)
        /\ Report
    BY <1>2, Zenon DEF UrlTested
  <2>2. u \in 1..Urls /\ u < next
    BY DEF PoolInv
  <2>3. /\ next' \in next..(Urls + 1)
        /\ running' = (running \ {u}) \union (next..(next' - 1))
    <3>1. IsFiniteSet(running)
      <4>1. IsFiniteSet(1..(next - 1))
        BY FS_Interval DEF PoolInv
      <4> QED
        BY <4>1, FS_Subset, Zenon DEF PoolInv
    <3>2. Cardinality(running \ {u}) = Cardinality(running) - 1
      BY <3>1, FS_RemoveElement, Zenon
    <3>3. Cardinality(running) \in Nat
      BY <3>1, FS_CardinalityType
    <3>4. Cardinality(running \ {u}) <= PoolLimit
      BY <3>2, <3>3 DEF PoolInv
    <3> QED
      BY <2>1, <3>4, FillBounded DEF PoolInv
  <2>4. verdict' \in [1..Urls -> {"none", "Success", "Failed"}]
    BY <2>1, <2>2 DEF CountInv
  <2>5. \A v \in 1..Urls : verdict'[v] = "none" <=> (v \in running' \/ v >= next')
    <3> SUFFICES ASSUME NEW v \in 1..Urls
                 PROVE  verdict'[v] = "none" <=> (v \in running' \/ v >= next')
      OBVIOUS
    <3>1. CASE v = u
      <4>1. verdict'[u] # "none"
        BY <2>1, <2>2 DEF CountInv
      <4>2. next \in Int /\ next' \in Int /\ next <= next'
        BY <2>3 DEF PoolInv
      <4>3. u \in Int /\ u \notin next..(next' - 1) /\ ~(u >= next')
        <5>1. u \in Int /\ ~(u >= next)
          BY <2>2, <4>2
        <5> QED
          BY <4>2, <5>1, SplitAt
      <4>4. u \notin running'
        BY <2>3, <4>3, Zenon
      <4> QED
        BY <3>1, <4>1, <4>3, <4>4
    <3>2. CASE v # u
      <4>1. verdict'[v] = verdict[v]
        BY <2>1, <3>2 DEF CountInv
      <4>2. next \in Int /\ next' \in Int /\ next <= next'
        BY <2>3 DEF PoolInv
      <4>3. (v \in running \/ v >= next) <=> (v \in running' \/ v >= next')
        <5>1. v >= next <=> (v \in next..(next' - 1) \/ v >= next')
          <6>1. v \in Int
            OBVIOUS
          <6> QED
            BY <4>2, <6>1, SplitAt
        <5>2. v \in running' <=> (v \in running \/ v \in next..(next' - 1))
          BY <2>3, <3>2, Zenon
        <5> QED
          BY <5>1, <5>2
      <4> QED
        BY <4>1, <4>3 DEF CountInv
    <3> QED
      BY <3>1, <3>2
  <2>6. reachedCount' = Cardinality(Succeeded')
    <3>1. verdict[u] = "none"
      BY <2>2 DEF CountInv
    <3>2. IsFiniteSet(Succeeded)
      <4>1. IsFiniteSet(1..Urls) /\ Succeeded \in SUBSET (1..Urls)
        BY FS_Interval DEF Succeeded
      <4> QED
        BY <4>1, FS_Subset, Zenon
    <3>3. CASE ok
      <4>1. Succeeded' = Succeeded \union {u}
        BY <2>1, <2>2, <3>3 DEF Succeeded, CountInv
      <4>2. u \notin Succeeded
        BY <3>1 DEF Succeeded
      <4>3. Cardinality(Succeeded \union {u}) = Cardinality(Succeeded) + 1
        BY <3>2, <4>2, FS_AddElement, Zenon
      <4> QED
        BY <2>1, <3>3, <4>1, <4>3 DEF CountInv
    <3>4. CASE ~ok
      <4>1. Succeeded' = Succeeded
        BY <2>1, <2>2, <3>1, <3>4 DEF Succeeded, CountInv
      <4>2. Cardinality(Succeeded) \in Nat
        BY <3>2, FS_CardinalityType
      <4> QED
        BY <2>1, <3>4, <4>1, <4>2 DEF CountInv
    <3> QED
      BY <3>3, <3>4
  <2>7. reported' # -1 => /\ running' = {} /\ next' = Urls + 1
                          /\ reported' = Urls - reachedCount'
    <3>1. \/ UNCHANGED reported
          \/ PoolEnds(running', next') /\ reported' = Urls - reachedCount'
      BY <2>1 DEF Report
    <3>2. reported = -1
      BY <2>1 DEF PoolInv
    <3>3. PoolEnds(running', next') => running' = {} /\ next' = Urls + 1
      <4>1. next \in 1..(Urls + 1) /\ next' \in next..(Urls + 1)
        BY <2>3 DEF PoolInv
      <4> QED
        BY <4>1 DEF PoolEnds
    <3> QED
      BY <3>1, <3>2, <3>3
  <2> QED
    BY <2>4, <2>5, <2>6, <2>7 DEF CountInv
<1>3. CASE UNCHANGED poolVars
  <2>1. UNCHANGED Succeeded
    BY <1>3 DEF poolVars, Succeeded
  <2> QED
    BY <1>3, <2>1 DEF poolVars, CountInv
<1>4. CASE UNCHANGED vars
  BY <1>4, <1>3 DEF vars
<1> QED
  BY <1>1, <1>2, <1>3, <1>4
  DEF Next, Spawn, SpawnFails, Close, Data, PersonTypes, PersonLeaves,
      PersonInterrupts, Start, IdTyped, TokenTyped, HttpVerified, AuthVerified,
      HostTyped, SocketRefused, Trace, TraceEnds, WizardEnds

\* The pool and the counts before anything happens.
LEMMA InitPool == Init => PoolInv /\ CountInv
<1> SUFFICES ASSUME Init PROVE PoolInv /\ CountInv
  OBVIOUS
<1> USE NetworkTestAssumption DEF Init
<1>1. PoolInv
  BY FS_EmptySet DEF PoolInv, StartInv, Places
<1>2. Succeeded = {}
  BY DEF Succeeded
<1>3. CountInv
  BY <1>2, FS_EmptySet DEF CountInv
<1> QED
  BY <1>1, <1>3

\* pool() never has more members than its limit, and no fewer as long as URLs
\* are left.
THEOREM SpecPoolBounded == Spec => []PoolBounded
<1>1. PoolInv => PoolBounded
  BY DEF PoolInv, PoolBounded
<1> QED
  BY InitPool, StepPool, <1>1, PTL DEF Spec

\* The report of a ping counts each URL once and waits for the last of them.
THEOREM SpecCountTruthful == Spec => []CountTruthful
  BY InitPool, StepPool, StepCount, CountImplies, PTL DEF Spec

-----------------------------------------------------------------------------
(* The dialog *)

(* What is in the pipes of a test that is running, as long as no message   *)
(* was cut in two: the question or the last message of the wizard, what    *)
(* the hub typed for it, or nothing.                                       *)
DialogInv ==
  /\ StartInv
  /\ test = "running" => mode # "full"
  /\ test = "idle" /\ mode # "full" => stdout = <<>> /\ stdin = <<>>
  /\ test = "running" /\ ~missed =>
       \/ wizard = "exited"
       \/ wizard \in {"starting", "pool", "tracing"} /\ stdout = <<>> /\ stdin = <<>>
       \/ /\ wizard \in {"urls", "host"}
          /\ \/ stdout = Fragments(wizard) /\ stdin = <<>>
             \/ stdout = <<>> /\ stdin = <<"line">>
       \/ /\ wizard = "done"
          /\ \/ stdout = Fragments("done") /\ stdin = <<>>
             \/ stdout = <<>> /\ stdin = <<"end">>

\* Where the trace is when the wizard is somewhere.
PlaceInv ==
  /\ status \in {"idle", "stopped"} => socket = "closed"
  /\ wizard \in {"off", "starting", "id", "token", "http", "auth", "urls", "pool", "host"}
       => status = "idle"
  /\ wizard = "tracing" => status \in {"resolving", "running", "stopped", "failed"}
  /\ wizard = "done" => status \in {"idle", "stopped", "failed"}

\* A pool that has not returned has a member.
BusyInv == wizard = "pool" => running # {}

\* The two fragments of a message.
LEMMA TwoFragments ==
  ASSUME NEW m
  PROVE  /\ Len(Fragments(m)) = 2
         /\ Fragments(m)[1] = [of |-> m, last |-> FALSE]
         /\ Fragments(m)[2] = [of |-> m, last |-> TRUE]
         /\ SubSeq(Fragments(m), 1, 1)[1] = [of |-> m, last |-> FALSE]
         /\ SubSeq(Fragments(m), 1, 2) = Fragments(m)
         /\ SubSeq(Fragments(m), 3, 2) = <<>>
<1> DEFINE a == [of |-> m, last |-> FALSE]
           b == [of |-> m, last |-> TRUE]
           s == <<a, b>>
<1>1. Fragments(m) = s
  BY DEF Fragments
<1> HIDE DEF a, b
<1>2. s \in Seq({a, b}) /\ Len(s) = 2 /\ s[1] = a /\ s[2] = b
  OBVIOUS
<1> HIDE DEF s
<1>3. SubSeq(s, 1, 2) = s
  BY <1>2, SubSeqFull
<1>4. SubSeq(s, 3, 2) = <<>>
  BY SubSeqEmpty
<1>5. SubSeq(s, 1, 1)[1] = a
  BY <1>2
<1> QED
  BY <1>1, <1>2, <1>3, <1>4, <1>5 DEF a, b

\* A chunk that is one message contains that one and no other.
LEMMA ContainsItself ==
  ASSUME NEW m, NEW k
  PROVE  Contains(Fragments(m), k) <=> k = m
<1>1. Len(Fragments(m)) = 2 /\ SubSeq(Fragments(m), 1, 2) = Fragments(m)
  BY TwoFragments
<1>2. 1..(2 - 1) = {1}
  OBVIOUS
<1>3. Contains(Fragments(m), k) <=> Fragments(m) = Fragments(k)
  BY <1>1, <1>2 DEF Contains
<1>4. Fragments(m) = Fragments(k) => m = k
  <2>1. /\ Fragments(m)[1] = [of |-> m, last |-> FALSE]
        /\ Fragments(k)[1] = [of |-> k, last |-> FALSE]
    BY TwoFragments
  <2> QED
    BY <2>1
<1> QED
  BY <1>3, <1>4

\* What the hub types after such a chunk.
LEMMA TypedForOne ==
  ASSUME NEW m \in {"urls", "host", "done"}
  PROVE  TypedFor(Fragments(m)) = IF m = "done" THEN <<"end">> ELSE <<"line">>
<1>1. /\ Contains(Fragments(m), "urls") <=> m = "urls"
      /\ Contains(Fragments(m), "host") <=> m = "host"
      /\ Contains(Fragments(m), "done") <=> m = "done"
  BY ContainsItself
<1>2. TypedFor(Fragments(m)) =
        (IF m = "urls" THEN <<"line">> ELSE <<>>)
          \o (IF m = "host" THEN <<"line">> ELSE <<>>)
          \o (IF m = "done" THEN <<"end">> ELSE <<>>)
  BY <1>1 DEF TypedFor
<1>3. CASE m = "urls"
  BY <1>2, <1>3
<1>4. CASE m = "host"
  BY <1>2, <1>4
<1>5. CASE m = "done"
  BY <1>2, <1>5
<1> QED
  BY <1>3, <1>4, <1>5

\* What is printed into an empty pipe.
LEMMA SayAlone ==
  ASSUME NEW m, mode # "full", stdout = <<>>, Say(m)
  PROVE  stdout' = Fragments(m)
<1> DEFINE a == [of |-> m, last |-> FALSE]
           b == [of |-> m, last |-> TRUE]
<1>1. stdout' = <<>> \o <<a, b>>
  BY DEF Say, Fragments
<1> HIDE DEF a, b
<1>2. <<a, b>> \in Seq({a, b})
  OBVIOUS
<1>3. stdout' = <<a, b>>
  BY <1>1, <1>2, ConcatEmptySeq
<1> QED
  BY <1>3 DEF Fragments, a, b

\* A chunk that leaves no message cut in two is a message, and the hub answers.
LEMMA DataAnswers ==
  ASSUME NEW m \in {"urls", "host", "done"}, stdout = Fragments(m), stdin = <<>>,
         NEW n \in 1..Len(stdout), Data(n), test' = "running", ~missed'
  PROVE  stdout' = <<>> /\ stdin' = IF m = "done" THEN <<"end">> ELSE <<"line">>
<1>1. /\ Len(stdout) = 2
      /\ SubSeq(stdout, 1, 1)[1] = [of |-> m, last |-> FALSE]
      /\ SubSeq(stdout, 1, 2) = Fragments(m)
      /\ SubSeq(stdout, 3, 2) = <<>>
  BY TwoFragments
<1>2. n = 1 \/ n = 2
  BY <1>1
<1>3. n # 1
  <2> SUFFICES ASSUME n = 1 PROVE FALSE
    OBVIOUS
  <2>1. missed' = (missed \/ ~SubSeq(stdout, 1, n)[n].last)
    BY Zenon DEF Data
  <2>2. SubSeq(stdout, 1, n)[n].last = FALSE
    BY <1>1
  <2> QED
    BY <2>1, <2>2
<1>4. n = 2 /\ n + 1 = 3
  BY <1>2, <1>3
<1>5. stdin' = stdin \o TypedFor(SubSeq(stdout, 1, n)) /\ stdout' = SubSeq(stdout, n + 1, Len(stdout))
  BY DEF Data
<1>6. stdin' = <<>> \o (IF m = "done" THEN <<"end">> ELSE <<"line">>) /\ stdout' = <<>>
  BY <1>1, <1>4, <1>5, TypedForOne
<1> QED
  BY <1>6

\* DialogInv is preserved.
LEMMA StepDialog == PoolInv /\ DialogInv /\ [Next]_vars => DialogInv'
<1> SUFFICES ASSUME PoolInv, DialogInv, [Next]_vars PROVE DialogInv'
  OBVIOUS
<1> USE DEF setupVars, hubVars
<1>1. StartInv'
  BY StepPool DEF PoolInv
<1>2. mode \in {"ping", "traceroute", "full"} /\ (test = "idle" /\ mode # "full" => wizard = "off")
  BY DEF DialogInv, StartInv
<1> DEFINE D == /\ test = "running" => mode # "full"
                /\ test = "idle" /\ mode # "full" => stdout = <<>> /\ stdin = <<>>
                /\ test = "running" /\ ~missed =>
                     \/ wizard = "exited"
                     \/ wizard \in {"starting", "pool", "tracing"} /\ stdout = <<>> /\ stdin = <<>>
                     \/ /\ wizard \in {"urls", "host"}
                        /\ \/ stdout = Fragments(wizard) /\ stdin = <<>>
                           \/ stdout = <<>> /\ stdin = <<"line">>
                     \/ /\ wizard = "done"
                        /\ \/ stdout = Fragments("done") /\ stdin = <<>>
                           \/ stdout = <<>> /\ stdin = <<"end">>
<1>3. D
  BY DEF DialogInv
<1>4. D' => DialogInv'
  BY <1>1 DEF DialogInv
<1>5. CASE Spawn \/ SpawnFails
  <2>1. D'
    BY <1>2, <1>3, <1>5 DEF Spawn, SpawnFails
  <2> QED
    BY <1>4, <2>1
<1>6. CASE Close
  <2>1. D'
    BY <1>6 DEF Close
  <2> QED
    BY <1>4, <2>1
<1>7. ASSUME NEW n \in 1..Len(stdout), Data(n) PROVE DialogInv'
  <2>1. test = "running" /\ mode # "full" /\ wizard' = wizard /\ mode' = mode /\ test' # "idle"
    BY <1>3, <1>7 DEF Data
  <2>2. CASE test' = "running" /\ ~missed' /\ wizard # "exited"
    <3>1. ~missed
      BY <1>7, <2>2 DEF Data
    <3>2. stdout # <<>>
      <4>1. Len(<<>>) = 0
        OBVIOUS
      <4> QED
        BY <4>1
    <3>3. PICK m \in {"urls", "host", "done"} :
            wizard = m /\ stdout = Fragments(m) /\ stdin = <<>>
      BY <1>3, <2>1, <2>2, <3>1, <3>2
    <3>4. stdout' = <<>> /\ stdin' = IF m = "done" THEN <<"end">> ELSE <<"line">>
      BY <1>7, <2>2, <3>3, DataAnswers
    <3>5. D'
      BY <2>1, <3>3, <3>4
    <3> QED
      BY <1>4, <3>5
  <2>3. CASE ~(test' = "running" /\ ~missed' /\ wizard # "exited")
    <3>1. D'
      BY <2>1, <2>3, SMTT(20)
    <3> QED
      BY <1>4, <3>1
  <2> QED
    BY <2>2, <2>3
<1>8. CASE \/ \E a \in Answers : PersonTypes(a)
           \/ PersonLeaves \/ PersonInterrupts \/ IdTyped \/ TokenTyped \/ HttpVerified
           \/ \E ok \in BOOLEAN : AuthVerified(ok)
  <2>1. UNCHANGED <<mode, test, missed>> /\ (mode = "full" \/ wizard \in {"id", "token", "http", "auth"})
    BY <1>8 DEF PersonTypes, PersonLeaves, PersonInterrupts, IdTyped, TokenTyped,
                HttpVerified, AuthVerified
  <2>2. test' = "running" => missed'
    BY <1>3, <2>1
  <2>3. mode # "full" => test # "idle"
    BY <1>2, <2>1
  <2>4. D'
    BY <1>3, <2>1, <2>2, <2>3
  <2> QED
    BY <1>4, <2>4
<1>9. CASE Start
  <2>1. UNCHANGED <<mode, test, missed, stdin>> /\ wizard = "starting"
    BY <1>9 DEF Start
  <2>2. test # "idle" \/ mode = "full"
    BY <1>2, <2>1
  <2>3. CASE test = "running" /\ ~missed
    <3>1. mode # "full" /\ stdout = <<>> /\ stdin = <<>>
      BY <1>3, <2>1, <2>3
    <3>2. wizard' \in {"urls", "host"} /\ Say(wizard')
      BY <1>2, <1>9, <3>1 DEF Start
    <3>3. stdout' = Fragments(wizard')
      BY <3>1, <3>2, SayAlone
    <3>4. D'
      BY <2>1, <2>3, <3>1, <3>2, <3>3
    <3> QED
      BY <1>4, <3>4
  <2>4. CASE ~(test = "running" /\ ~missed)
    <3>1. D'
      BY <1>3, <2>1, <2>2, <2>4
    <3> QED
      BY <1>4, <3>1
  <2> QED
    BY <2>3, <2>4
<1>10. CASE UrlsTyped \/ \E u \in running, ok \in BOOLEAN : UrlTested(u, ok)
  <2>1. /\ UNCHANGED <<mode, test, missed>> /\ wizard \in {"urls", "pool"}
        /\ wizard = "urls" => stdin = <<"line">> /\ stdin' = <<>>
        /\ wizard = "pool" => stdin' = stdin
        /\ \/ wizard' = "pool" /\ stdout' = stdout
           \/ wizard' = "done" /\ Say("done")
           \/ wizard' = wizard /\ stdout' = stdout /\ wizard = "pool"
           \/ wizard = "urls" /\ Urls = 0 /\ ~PoolEnds(running', next')
    BY <1>10 DEF UrlsTyped, UrlTested, Report
  <2>2. wizard = "urls" /\ Urls = 0 => PoolEnds(running', next')
    <3> SUFFICES ASSUME wizard = "urls", Urls = 0 PROVE PoolEnds(running', next')
      OBVIOUS
    <3>1. Fill(1, {})
      BY <1>10 DEF UrlsTyped, UrlTested
    <3>2. next' \in 1..1 /\ running' \in SUBSET (1..(next' - 1))
      BY <3>1, NetworkTestAssumption, FS_EmptySet, FillBounded
    <3> QED
      BY <3>2 DEF PoolEnds
  <2>3. test # "idle" \/ mode = "full"
    BY <1>2, <2>1
  <2>4. CASE test = "running" /\ ~missed
    <3>1. mode # "full" /\ stdout = <<>> /\ stdin' = <<>>
      <4>1. Fragments(wizard) # <<>>
        <5>1. Len(Fragments(wizard)) = 2 /\ Len(<<>>) = 0
          BY TwoFragments
        <5> QED
          BY <5>1
      <4>2. <<"line">> # <<>>
        OBVIOUS
      <4> QED
        BY <1>3, <2>1, <2>4, <4>1, <4>2
    <3>2. \/ wizard' = "pool" /\ stdout' = <<>>
          \/ wizard' = "done" /\ stdout' = Fragments("done")
      BY <2>1, <2>2, <3>1, SayAlone
    <3>3. D'
      BY <2>1, <2>4, <3>1, <3>2
    <3> QED
      BY <1>4, <3>3
  <2>5. CASE ~(test = "running" /\ ~missed)
    <3>1. D'
      BY <1>3, <2>1, <2>3, <2>5
    <3> QED
      BY <1>4, <3>1
  <2> QED
    BY <2>4, <2>5
<1>11. CASE HostTyped \/ SocketRefused
  <2>1. /\ UNCHANGED <<mode, test, missed, stdout>> /\ wizard = "host" /\ stdin = <<"line">>
        /\ stdin' = <<>> /\ wizard' \in {"tracing", "exited"}
    BY <1>11 DEF HostTyped, SocketRefused
  <2>2. <<"line">> # <<>>
    OBVIOUS
  <2>3. D'
    BY <1>2, <1>3, <2>1, <2>2
  <2> QED
    BY <1>4, <2>3
<1>12. CASE Trace
  <2>1. /\ UNCHANGED <<mode, test, missed, stdout, stdin>> /\ wizard' \in {wizard, "exited"}
        /\ wizard \in {"tracing", "done"}
    BY <1>12 DEF Trace
  <2>2. D'
    BY <1>2, <1>3, <2>1
  <2> QED
    BY <1>4, <2>2
<1>13. CASE TraceEnds
  <2>1. /\ UNCHANGED <<mode, test, missed, stdin>> /\ wizard' = "done"
        /\ wizard = "tracing" /\ Say("done")
    BY <1>13 DEF TraceEnds
  <2>2. CASE test = "running" /\ ~missed
    <3>1. mode # "full" /\ stdout = <<>> /\ stdin = <<>>
      BY <1>3, <2>1, <2>2
    <3>2. stdout' = Fragments("done")
      BY <2>1, <3>1, SayAlone
    <3>3. D'
      BY <2>1, <2>2, <3>1, <3>2
    <3> QED
      BY <1>4, <3>3
  <2>3. CASE ~(test = "running" /\ ~missed)
    <3>1. D'
      BY <1>2, <1>3, <2>1, <2>3
    <3> QED
      BY <1>4, <3>1
  <2> QED
    BY <2>2, <2>3
<1>14. CASE WizardEnds
  <2>1. UNCHANGED <<mode, test, missed, stdin, stdout>> /\ wizard' = "exited"
    BY <1>14 DEF WizardEnds
  <2>2. D'
    BY <1>3, <2>1
  <2> QED
    BY <1>4, <2>2
<1>15. CASE UNCHANGED vars
  <2>1. UNCHANGED <<mode, test, missed, stdin, stdout, wizard>>
    BY <1>15 DEF vars
  <2>2. D'
    BY <1>3, <2>1
  <2> QED
    BY <1>4, <2>2
<1> QED
  BY <1>5, <1>6, <1>7, <1>8, <1>9, <1>10, <1>11, <1>12, <1>13, <1>14, <1>15 DEF Next

\* PlaceInv is preserved.
LEMMA StepPlace == TraceTypeOK /\ StartInv /\ PlaceInv /\ [Next]_vars => PlaceInv'
<1> SUFFICES ASSUME TraceTypeOK, StartInv, PlaceInv, [Next]_vars PROVE PlaceInv'
  OBVIOUS
<1> USE DEF PlaceInv
<1>1. CASE Trace
  <2> USE DEF TraceTypeOK, Statuses, chainVars, Alive, Listening
  <2>1. status \in {"resolving", "running", "failed", "stopped"} /\ wizard \in {"tracing", "done"}
    BY <1>1 DEF Trace, TraceStep, Resolved, SendPacket, Sent, SendFails, SocketFails,
                Reply, LookupEnds, TimerFires
  <2>2. /\ status' \in {"running", "stopped", "failed", "crashed"}
        /\ status' = "stopped" => socket' = "closed"
        /\ status = "failed" => status' \in {"failed", "crashed"}
        /\ status = "stopped" => status' \in {"stopped", "crashed"}
    <3>1. CASE Resolved \/ SendPacket \/ Reply
      BY <2>1, <3>1, SMTT(20) DEF Resolved, SendPacket, Reply
    <3>2. CASE SocketFails \/ \E p \in queued : Sent(p) \/ SendFails(p)
      BY <2>1, <3>2 DEF SocketFails, Sent, SendFails, EmitError
    <3>3. ASSUME NEW ip, NEW fired, HandleReply(ip, fired), Alive
          PROVE  <2>2!:
      BY <2>1, <3>3 DEF HandleReply
    <3>4. ASSUME NEW a \in Addresses, LookupEnds(a)
          PROVE  <2>2!:
      <4>1. HandleReply(a, 0) /\ Alive
        BY <3>4 DEF LookupEnds
      <4> QED
        BY <3>3, <4>1, Zenon
    <3>5. ASSUME NEW p \in timers, TimerFires(p)
          PROVE  <2>2!:
      <4>1. HandleReply("none", p) /\ Alive
        BY <3>5 DEF TimerFires
      <4> QED
        BY <3>3, <4>1, Zenon
    <3> QED
      BY <1>1, <3>1, <3>2, <3>4, <3>5, Zenon DEF Trace, TraceStep
  <2>3. IF status' = "crashed" THEN wizard' = "exited" ELSE wizard' = wizard
    BY <1>1 DEF Trace
  <2> QED
    BY <2>1, <2>2, <2>3
<1>2. CASE HostTyped
  BY <1>2, SMTT(20) DEF HostTyped, Execute
<1>3. CASE UNCHANGED traceVars
  <2>1. UNCHANGED <<status, socket>>
    BY <1>3 DEF traceVars
  <2>2. CASE UNCHANGED wizard
    BY <2>1, <2>2
  <2>3. CASE Spawn \/ PersonInterrupts \/ Start \/ IdTyped \/ TokenTyped \/ HttpVerified
             \/ \E ok \in BOOLEAN : AuthVerified(ok)
    <3>1. CASE Spawn
      BY <2>1, <3>1 DEF Spawn, StartInv
    <3>2. CASE PersonInterrupts
      BY <2>1, <3>2 DEF PersonInterrupts
    <3>3. CASE Start
      <4>1. wizard = "starting" /\ wizard' \in {"host", "urls", "id"}
        BY <3>3 DEF Start, StartInv
      <4> QED
        BY <2>1, <4>1
    <3>4. CASE IdTyped \/ TokenTyped \/ HttpVerified \/ \E ok \in BOOLEAN : AuthVerified(ok)
      <4>1. /\ wizard \in {"id", "token", "http", "auth"}
            /\ wizard' \in {"token", "http", "auth", "urls"}
        BY <3>4 DEF IdTyped, TokenTyped, HttpVerified, AuthVerified
      <4> QED
        BY <2>1, <4>1
    <3> QED
      BY <2>3, <3>1, <3>2, <3>3, <3>4
  <2>4. CASE UrlsTyped \/ \E u \in running, ok \in BOOLEAN : UrlTested(u, ok)
    <3>1. wizard \in {"urls", "pool"} /\ wizard' \in {"urls", "pool", "done"}
      BY <2>4 DEF UrlsTyped, UrlTested, Report
    <3> QED
      BY <2>1, <3>1
  <2>5. CASE SocketRefused \/ TraceEnds \/ WizardEnds
    BY <2>1, <2>5 DEF SocketRefused, TraceEnds, WizardEnds
  <2> QED
    BY <1>1, <1>2, <2>2, <2>3, <2>4, <2>5
    DEF Next, SpawnFails, Close, Data, PersonTypes, PersonLeaves, vars
<1> QED
  BY <1>1, <1>2, <1>3
  DEF Next, Spawn, SpawnFails, Close, Data, PersonTypes, PersonLeaves,
      PersonInterrupts, Start, IdTyped, TokenTyped, HttpVerified, AuthVerified,
      UrlsTyped, UrlTested, SocketRefused, TraceEnds, WizardEnds, vars

\* BusyInv is preserved: a pool that ends is left at once.
LEMMA StepBusy == PoolInv /\ BusyInv /\ [Next]_vars => BusyInv'
<1> SUFFICES ASSUME PoolInv, BusyInv, [Next]_vars, wizard' = "pool" PROVE running' # {}
  BY DEF BusyInv
<1> USE NetworkTestAssumption
<1>1. CASE UrlsTyped \/ \E u \in running, ok \in BOOLEAN : UrlTested(u, ok)
  <2>1. ~PoolEnds(running', next')
    <3>1. CASE UrlsTyped
      <4>1. Fill(1, {}) /\ Urls # 0
        BY <1>1, <3>1 DEF UrlsTyped, Report
      <4>2. /\ next' \in 1..(Urls + 1) /\ running' = {} \union (1..(next' - 1))
        <5>1. /\ Cardinality({}) <= PoolLimit
              /\ 1 \in 1..(Urls + 1) /\ {} \in SUBSET (1..(1 - 1))
          BY FS_EmptySet
        <5> QED
          BY <4>1, <5>1, FillBounded, Zenon
      <4>3. next' > Urls => 1 \in running'
        <5> SUFFICES ASSUME next' > Urls PROVE 1 \in running'
          OBVIOUS
        <5>1. next' \in 1..(Urls + 1)
          BY <4>2
        <5>2. next' - 1 = Urls
          <6>1. \A i \in 1..(Urls + 1) : i > Urls => i - 1 = Urls
            OBVIOUS
          <6> QED
            BY <5>1, <6>1, Zenon
        <5>3. 1 \in 1..Urls
          BY <4>1
        <5> QED
          BY <4>2, <5>2, <5>3
      <4> QED
        BY <4>3 DEF PoolEnds
    <3>2. CASE \E u \in running, ok \in BOOLEAN : UrlTested(u, ok)
      BY <3>2 DEF UrlTested, Report
    <3> QED
      BY <1>1, <3>1, <3>2
  <2>2. PoolInv'
    BY StepPool
  <2>3. next' <= Urls => Cardinality(running') # 0
    BY <2>2 DEF PoolInv
  <2>4. Cardinality({}) = 0
    BY FS_EmptySet
  <2>5. next' \in 1..(Urls + 1)
    BY <2>2 DEF PoolInv
  <2>6. next' > Urls \/ next' <= Urls
    BY <2>5
  <2> QED
    BY <2>1, <2>3, <2>4, <2>6 DEF PoolEnds
<1>2. CASE ~(UrlsTyped \/ \E u \in running, ok \in BOOLEAN : UrlTested(u, ok))
  <2>1. UNCHANGED <<poolVars>> /\ wizard = "pool"
    BY <1>2
    DEF Next, Spawn, SpawnFails, Close, Data, PersonTypes, PersonLeaves,
        PersonInterrupts, Start, IdTyped, TokenTyped, HttpVerified, AuthVerified,
        HostTyped, SocketRefused, Trace, TraceEnds, WizardEnds, vars, PoolInv, StartInv
  <2> QED
    BY <2>1 DEF BusyInv, poolVars
<1> QED
  BY <1>1, <1>2

\* The hub and the wizard never both wait, for any number of URLs, limit of the
\* pool, and trace.
THEOREM SpecNobodyWaits == Spec => []NobodyWaits
<1>1. Init => DialogInv /\ PlaceInv /\ BusyInv
  BY DEF Init, TraceInit, DialogInv, StartInv, PlaceInv, BusyInv
<1>2. DialogInv => StartInv
  BY DEF DialogInv
<1>3. DialogInv /\ PlaceInv /\ BusyInv /\ TraceGoesOn => NobodyWaits
  <2> SUFFICES ASSUME DialogInv, PlaceInv, BusyInv, TraceGoesOn, test = "running", ~missed,
                      stdout = <<>>
               PROVE  NobodyWaits
    BY DEF NobodyWaits
  <2>1. \A m : Fragments(m) # <<>>
    <3> SUFFICES ASSUME NEW m PROVE Fragments(m) # <<>>
      OBVIOUS
    <3>1. Len(Fragments(m)) = 2 /\ Len(<<>>) = 0
      BY TwoFragments
    <3> QED
      BY <3>1
  <2> QED
    BY <2>1 DEF DialogInv, PlaceInv, BusyInv, TraceGoesOn, NobodyWaits
<1>4. Spec => []TraceTypeOK /\ []TraceGoesOn
  BY SpecTrace, TraceTypeCorrect, TraceNeverStalls, PTL
<1> QED
  BY <1>1, <1>2, <1>3, <1>4, InitPool, StepPool, StepDialog, StepPlace, StepBusy, PTL DEF Spec
=============================================================================
