------------------------ MODULE RepeaterToolsProofs ------------------------
(***************************************************************************)
(* Proofs about RepeaterTools, for every set of ids and every number of    *)
(* processes.                                                              *)
(***************************************************************************)
EXTENDS RepeaterTools, TLAPS

\* Only a process that has ended is taken for one.
ExitedIsDead == \A c \in Used : child[c].exited => child[c].os = "dead"

\* stop() waits for the second time only after SIGKILL.
EscalationKills ==
  \A c \in Used, k \in Callers :
    child[c].stopping[k] = "kill" => child[c].sent = "kill"

\* While a shutdown waits, every live process that it found is being stopped
\* or was sent SIGKILL.
ShutdownInProgress ==
  \A s \in Signals : \A c \in snapshot[s] :
    /\ server # "killed" /\ shutdown[s] = "stopping" /\ child[c].os = "alive"
    => child[c].stopping[s] # "no" \/ child[c].sent = "kill"

\* The inductive invariant.
IInv ==
  /\ TypeOK
  /\ ExitedIsDead
  /\ LiveIsRegistered
  /\ EscalationKills
  /\ ShutdownInProgress
  /\ ShutdownIsThorough

\* The initial states satisfy the invariant.
LEMMA InitIInv == Init => IInv
<1> SUFFICES ASSUME Init PROVE IInv
  OBVIOUS
<1>1. spawned = 0 /\ Used = {} /\ 0 \in 0..MaxSpawns
  BY RepeaterToolsAssumption DEF Init, Used
<1>2. child \in [1..spawned -> ChildType]
  BY <1>1 DEF Init
<1>3. TypeOK
  BY <1>1, <1>2 DEF Init, TypeOK, NoChild
<1> QED
  BY <1>1, <1>3 DEF Init, IInv, ExitedIsDead, LiveIsRegistered,
     EscalationKills, ShutdownInProgress, ShutdownIsThorough

\* A step that changes the child c into e, registers nothing and leaves
\* shutdowns alone, with what the invariant asks of e.
ChangesOne(c, e) ==
  /\ child' = [child EXCEPT ![c] = e]
  /\ UNCHANGED <<spawned, shutdown, server, snapshot>>
  /\ \/ processes' = processes
     \/ /\ processes' = [processes EXCEPT ![child[c].id] = NoChild]
        /\ processes[child[c].id] = c /\ e.os # "alive"
  /\ e.id = child[c].id
  /\ e.os = "alive" => child[c].os = "alive"
  /\ e.exited => e.os = "dead"
  /\ \A k \in Callers : e.stopping[k] = "kill" => e.sent = "kill"
  /\ child[c].sent = "kill" => e.sent = "kill"
  /\ \A k \in Signals : child[c].stopping[k] # "no" /\ e.os = "alive"
                          => e.stopping[k] # "no" \/ e.sent = "kill"

\* Such a step preserves the invariant.
LEMMA OneChildChanges ==
  ASSUME IInv, NEW c \in Used, NEW e \in ChildType, ChangesOne(c, e)
  PROVE  IInv'
<1> USE DEF IInv, TypeOK, ChangesOne
<1>1. Used' = Used /\ \A d \in Used : child'[d] = IF d = c THEN e ELSE child[d]
  BY DEF Used
<1>2. child' \in [1..spawned' -> ChildType]
  BY DEF Used
<1>3. child[c] \in ChildType /\ child[c].id \in Ids
  BY DEF Used, ChildType
<1>4. processes' \in [Ids -> {NoChild} \cup Used']
  BY <1>1
<1>5. TypeOK'
  BY <1>1, <1>2, <1>4
<1>6. ExitedIsDead'
  BY <1>1 DEF ExitedIsDead
<1>7. LiveIsRegistered'
  <2> SUFFICES ASSUME NEW d \in Used, child'[d].os = "alive"
               PROVE  processes'[child'[d].id] = d
    BY <1>1 DEF LiveIsRegistered
  <2>1. child[d].os = "alive" /\ child'[d].id = child[d].id
    BY <1>1
  <2>2. processes[child[d].id] = d
    BY <2>1 DEF LiveIsRegistered
  <2>3. child[d] \in ChildType /\ child[d].id \in Ids
    BY DEF Used, ChildType
  <2>4. CASE processes' = processes
    BY <2>1, <2>2, <2>4
  <2>5. CASE /\ processes' = [processes EXCEPT ![child[c].id] = NoChild]
             /\ processes[child[c].id] = c /\ e.os # "alive"
    <3>1. d # c
      BY <1>1, <2>5
    <3>2. child[d].id # child[c].id
      BY <2>2, <2>5, <3>1
    <3> QED
      BY <2>1, <2>2, <2>3, <2>5, <3>2
  <2> QED
    BY <2>4, <2>5
<1>8. EscalationKills'
  BY <1>1 DEF EscalationKills
<1>9. ShutdownInProgress'
  BY <1>1 DEF ShutdownInProgress
<1>10. ShutdownIsThorough'
  BY <1>1 DEF ShutdownIsThorough
<1> QED
  BY <1>5, <1>6, <1>7, <1>8, <1>9, <1>10
-----------------------------------------------------------------------------
\* A new child, of an id whose last process has ended, preserves the invariant.
LEMMA SpawnIInv ==
  ASSUME IInv, NEW i \in Ids, NEW e \in ChildType, Spawn(i, e),
         e.id = i, ~e.exited, e.stopping = [k \in Callers |-> "no"]
  PROVE  IInv'
<1> USE RepeaterToolsAssumption DEF IInv, TypeOK
<1> DEFINE n == spawned + 1
<1>1. /\ spawned < MaxSpawns /\ spawned' = n
      /\ n \in 1..MaxSpawns /\ n \notin Used /\ Used' = Used \cup {n}
      /\ n # NoChild
  BY DEF Spawn, Used, NoChild
<1>2. /\ child' = [c \in Used' |-> IF c = n THEN e ELSE child[c]]
      /\ processes' = [processes EXCEPT ![i] = n]
      /\ UNCHANGED <<shutdown, server, snapshot>>
  BY DEF Spawn, Used
<1> HIDE DEF n
<1>3. child'[n] = e /\ \A c \in Used : child'[c] = child[c] /\ c # n
  BY <1>1, <1>2
<1>4. child' \in [Used' -> ChildType]
  BY <1>1, <1>2 DEF Used
<1>5. TypeOK'
  <2>1. spawned' \in 0..MaxSpawns /\ 1..spawned' = Used'
    BY <1>1 DEF Used
  <2>2. processes' \in [Ids -> {NoChild} \cup Used']
    BY <1>1, <1>2
  <2>3. snapshot' \in [Signals -> SUBSET Used']
    BY <1>1, <1>2
  <2> QED
    BY <1>2, <1>4, <2>1, <2>2, <2>3
<1>6. ExitedIsDead'
  BY <1>1, <1>3 DEF ExitedIsDead
<1>7. LiveIsRegistered'
  <2> SUFFICES ASSUME NEW d \in Used, child[d].os = "alive"
               PROVE  processes'[child[d].id] = d
    BY <1>1, <1>2, <1>3 DEF LiveIsRegistered
  <2>1. processes[child[d].id] = d /\ d # NoChild
    BY DEF LiveIsRegistered, Used, NoChild
  <2>2. ~child[d].exited
    BY DEF ExitedIsDead
  <2>3. child[d].id # i
    BY <2>1, <2>2 DEF Spawn, IsRunning
  <2>4. child[d].id \in Ids
    BY DEF Used, ChildType
  <2> QED
    BY <1>2, <2>1, <2>3, <2>4
<1>8. EscalationKills'
  BY <1>1, <1>3 DEF EscalationKills
<1>9. ShutdownInProgress'
  BY <1>1, <1>2, <1>3 DEF ShutdownInProgress
<1>10. ShutdownIsThorough'
  <2>1. \A s \in Signals : n \notin snapshot[s]
    BY <1>1
  <2> QED
    BY <1>1, <1>2, <1>3, <2>1 DEF ShutdownIsThorough
<1> QED
  BY <1>5, <1>6, <1>7, <1>8, <1>9, <1>10

\* What stop() makes of an entry.
LEMMA SignalledFacts ==
  ASSUME NEW e \in ChildType, NEW k \in Callers, NEW signal \in {"term", "kill"}
  PROVE  /\ Signalled(e, k, signal) \in ChildType
         /\ Signalled(e, k, signal).id = e.id
         /\ Signalled(e, k, signal).os = e.os
         /\ Signalled(e, k, signal).exited = e.exited
         /\ Signalled(e, k, signal).stopping = [e.stopping EXCEPT ![k] = "term"]
         /\ e.sent = "kill" => Signalled(e, k, signal).sent = "kill"
  BY DEF Signalled, ChildType, Stronger

\* The first signal of a kind preserves the invariant.
LEMMA ShutdownIInv ==
  ASSUME IInv, NEW s \in Signals, Shutdown(s)
  PROVE  IInv'
<1> USE DEF IInv, TypeOK
<1>0. s \in Callers
  BY DEF Callers
<1>1. /\ UNCHANGED <<processes, spawned, server>> /\ Used' = Used
      /\ shutdown[s] = "no"
      /\ shutdown' = [shutdown EXCEPT ![s] = "stopping"]
  BY DEF Shutdown, Used
<1>2. snapshot' \in [Signals -> SUBSET Used]
      /\ \A t \in Signals : t # s => snapshot'[t] = snapshot[t]
  <2>1. Registered \subseteq Used
    BY DEF Registered
  <2> QED
    BY <2>1 DEF Shutdown
<1>3. \A c \in Used :
        child'[c] = IF c \in snapshot'[s] THEN Signalled(child[c], s, "term")
                                          ELSE child[c]
  BY DEF Shutdown
<1>4. \A c \in Used : child[c] \in ChildType
  BY DEF Used
<1>5. \A c \in Used :
        /\ child'[c] \in ChildType
        /\ child'[c].id = child[c].id /\ child'[c].os = child[c].os
        /\ child'[c].exited = child[c].exited
        /\ child[c].sent = "kill" => child'[c].sent = "kill"
        /\ \A k \in Callers : child'[c].stopping[k] \in {child[c].stopping[k], "term"}
        /\ c \in snapshot'[s] => child'[c].stopping[s] = "term"
  <2> SUFFICES ASSUME NEW c \in Used
               PROVE  /\ child'[c] \in ChildType
                      /\ child'[c].id = child[c].id /\ child'[c].os = child[c].os
                      /\ child'[c].exited = child[c].exited
                      /\ child[c].sent = "kill" => child'[c].sent = "kill"
                      /\ \A k \in Callers :
                           child'[c].stopping[k] \in {child[c].stopping[k], "term"}
                      /\ c \in snapshot'[s] => child'[c].stopping[s] = "term"
    OBVIOUS
  <2>1. CASE c \in snapshot'[s]
    <3>1. child'[c] = Signalled(child[c], s, "term") /\ child[c] \in ChildType
      BY <1>3, <1>4, <2>1
    <3>2. child[c].stopping \in [Callers -> {"no", "term", "kill"}]
      BY <3>1 DEF ChildType
    <3> DEFINE f == Signalled(child[c], s, "term")
    <3>3. /\ f \in ChildType
          /\ f.id = child[c].id /\ f.os = child[c].os
          /\ f.exited = child[c].exited
          /\ f.stopping = [child[c].stopping EXCEPT ![s] = "term"]
          /\ child[c].sent = "kill" => f.sent = "kill"
      <4>1. child[c] \in ChildType /\ s \in Callers /\ "term" \in {"term", "kill"}
        BY <1>0, <3>1
      <4> QED
        BY ONLY <4>1, SignalledFacts
    <3>4. child'[c] = f
      BY <3>1
    <3> HIDE DEF f
    <3> QED
      BY <1>0, <3>2, <3>3, <3>4
  <2>2. CASE c \notin snapshot'[s]
    BY <1>3, <1>4, <2>2
  <2> QED
    BY <2>1, <2>2
<1>6. child' \in [1..spawned' -> ChildType]
  BY <1>1, <1>5 DEF Shutdown, Used
<1>7. TypeOK'
  BY <1>1, <1>2, <1>6
<1>8. ExitedIsDead'
  BY <1>1, <1>5 DEF ExitedIsDead
<1>9. LiveIsRegistered'
  BY <1>1, <1>5 DEF LiveIsRegistered
<1>10. EscalationKills'
  BY <1>1, <1>5 DEF EscalationKills
<1>11. ShutdownInProgress'
  <2> SUFFICES ASSUME NEW t \in Signals, NEW c \in snapshot'[t],
                      server # "killed", shutdown'[t] = "stopping",
                      child'[c].os = "alive"
               PROVE  child'[c].stopping[t] # "no" \/ child'[c].sent = "kill"
    BY <1>1 DEF ShutdownInProgress
  <2>1. c \in Used /\ t \in Callers
    BY <1>2 DEF Callers
  <2>2. CASE t = s
    BY <1>5, <2>1, <2>2
  <2>3. CASE t # s
    <3>1. c \in snapshot[t] /\ shutdown[t] = "stopping" /\ child[c].os = "alive"
      BY <1>1, <1>2, <1>5, <2>1, <2>3
    <3>2. child[c].stopping[t] # "no" \/ child[c].sent = "kill"
      BY <3>1 DEF ShutdownInProgress
    <3> QED
      BY <1>5, <2>1, <3>2
  <2> QED
    BY <2>2, <2>3
<1>12. ShutdownIsThorough'
  BY <1>1, <1>2, <1>5 DEF ShutdownIsThorough
<1> QED
  BY <1>7, <1>8, <1>9, <1>10, <1>11, <1>12

\* The second signal of a kind preserves the invariant.
LEMMA SignalAgainIInv ==
  ASSUME IInv, NEW s \in Signals, SignalAgain(s)
  PROVE  IInv'
<1> USE DEF IInv, TypeOK
<1>1. /\ UNCHANGED <<processes, spawned, shutdown, snapshot>> /\ Used' = Used
      /\ server' = "killed"
  BY DEF SignalAgain, Used
<1>2. \A c \in Used :
        /\ child'[c] \in ChildType
        /\ child'[c].id = child[c].id /\ child'[c].os = child[c].os
        /\ child'[c].exited = child[c].exited /\ child'[c].sent = child[c].sent
        /\ \A k \in Callers : child'[c].stopping[k] = "no"
  <2>1. \A c \in Used : child[c] \in ChildType
    BY DEF Used
  <2> QED
    <3> SUFFICES ASSUME NEW c \in Used
                 PROVE  /\ child'[c] \in ChildType
                        /\ child'[c].id = child[c].id /\ child'[c].os = child[c].os
                        /\ child'[c].exited = child[c].exited
                        /\ child'[c].sent = child[c].sent
                        /\ \A k \in Callers : child'[c].stopping[k] = "no"
      BY SMTT(20)
    <3> DEFINE e == [child[c] EXCEPT !.starting = FALSE,
                                     !.stopping = [k \in Callers |-> "no"]]
    <3>1. child'[c] = e
      BY DEF SignalAgain
    <3>2. child[c] \in ChildType
      BY <2>1
    <3>3. /\ e \in ChildType /\ e.id = child[c].id /\ e.os = child[c].os
          /\ e.exited = child[c].exited /\ e.sent = child[c].sent
          /\ e.stopping = [k \in Callers |-> "no"]
      BY ONLY <3>2 DEF ChildType
    <3> HIDE DEF e
    <3> QED
      BY <3>1, <3>3
<1>3. child' \in [1..spawned' -> ChildType]
  BY <1>1, <1>2 DEF SignalAgain, Used
<1>4. TypeOK'
  BY <1>1, <1>3
<1>5. ExitedIsDead' /\ LiveIsRegistered' /\ EscalationKills'
  BY <1>1, <1>2 DEF ExitedIsDead, LiveIsRegistered, EscalationKills
<1>6. ShutdownInProgress' /\ ShutdownIsThorough'
  BY <1>1, <1>2 DEF ShutdownInProgress, ShutdownIsThorough
<1> QED
  BY <1>4, <1>5, <1>6, SMTT(20)

\* Closing the server preserves the invariant: nothing that this shutdown found
\* is still being stopped, so that what lives was sent SIGKILL.
LEMMA ServerClosesIInv ==
  ASSUME IInv, NEW s \in Signals, server # "killed", ServerCloses(s)
  PROVE  IInv'
<1> USE DEF IInv, TypeOK
<1>1. /\ UNCHANGED <<processes, child, spawned, snapshot>> /\ Used' = Used
      /\ shutdown' = [shutdown EXCEPT ![s] = "closed"]
      /\ shutdown[s] = "stopping"
      /\ server' \in {"closed", server}
      /\ \A c \in Used : child[c].stopping[s] = "no"
  BY DEF ServerCloses, Used
<1>2. TypeOK' /\ ExitedIsDead' /\ LiveIsRegistered' /\ EscalationKills'
  BY <1>1 DEF ExitedIsDead, LiveIsRegistered, EscalationKills
<1>3. ShutdownInProgress'
  BY <1>1 DEF ShutdownInProgress
<1>4. ShutdownIsThorough'
  <2>1. \A c \in snapshot[s] : child[c].os = "alive" => child[c].sent = "kill"
    BY <1>1 DEF ShutdownInProgress
  <2> QED
    BY <1>1, <2>1 DEF ShutdownIsThorough
<1> QED
  BY <1>2, <1>3, <1>4

\* Every step preserves the invariant.
LEMMA StepIInv == IInv /\ [Next]_vars => IInv'
<1> SUFFICES ASSUME IInv, [Next]_vars PROVE IInv'
  OBVIOUS
<1>0. ASSUME NEW c \in Used
      PROVE  /\ child[c] \in ChildType /\ c \in 1..spawned
             /\ child[c].exited => child[c].os = "dead"
             /\ \A k \in Callers : child[c].stopping[k] = "kill" => child[c].sent = "kill"
             /\ Signals \subseteq Callers
  BY DEF IInv, TypeOK, Used, ExitedIsDead, EscalationKills, Callers
<1>1. ASSUME NEW i \in Ids, Run(i) PROVE IInv'
  <2>1. NewChild(i) \in ChildType
    BY DEF NewChild, ChildType
  <2> QED
    BY <1>1, <2>1, SpawnIInv DEF Run, NewChild
<1>2. ASSUME NEW i \in Ids, RunFails(i) PROVE IInv'
  <2> DEFINE e == [NewChild(i) EXCEPT !.os = "failed", !.errored = TRUE,
                                      !.starting = FALSE]
  <2>1. /\ e \in ChildType /\ e.id = i /\ ~e.exited
        /\ e.stopping = [k \in Callers |-> "no"]
    BY DEF NewChild, ChildType
  <2>2. Spawn(i, e)
    BY <1>2 DEF RunFails
  <2> HIDE DEF e
  <2> QED
    BY <2>1, <2>2, SpawnIInv
<1>3. ASSUME NEW i \in Ids, Stop(i) PROVE IInv'
  <2> DEFINE c == processes[i]
  <2>1. c \in Used
    BY <1>3 DEF Stop, IInv, TypeOK
  <2>2. PICK signal \in {"term", "kill"} :
          child' = [child EXCEPT ![c] = Signalled(@, "tool", signal)]
    BY <1>3 DEF Stop
  <2> DEFINE e == Signalled(child[c], "tool", signal)
  <2>3. /\ e \in ChildType /\ e.id = child[c].id /\ e.os = child[c].os
        /\ e.exited = child[c].exited
        /\ e.stopping = [child[c].stopping EXCEPT !["tool"] = "term"]
        /\ child[c].sent = "kill" => e.sent = "kill"
    <3>1. child[c] \in ChildType /\ "tool" \in Callers
      BY <1>0, <2>1 DEF Callers
    <3> QED
      BY ONLY <3>1, signal \in {"term", "kill"}, SignalledFacts
  <2>4. /\ child' = [child EXCEPT ![c] = e]
        /\ UNCHANGED <<processes, spawned, shutdown, server, snapshot>>
    BY <1>3, <2>2 DEF Stop
  <2> HIDE DEF e, c
  <2>5. child[c].stopping \in [Callers -> {"no", "term", "kill"}]
    BY <1>0, <2>1 DEF ChildType
  <2>6. /\ \A k \in Callers : e.stopping[k] = "kill" => e.sent = "kill"
        /\ \A k \in Signals : child[c].stopping[k] # "no" => e.stopping[k] # "no"
    BY <1>0, <2>1, <2>3, <2>5
  <2>9. ChangesOne(c, e)
    BY <1>0, <2>1, <2>3, <2>4, <2>6 DEF ChangesOne
  <2> QED
    BY <2>1, <2>3, <2>9, OneChildChanges
<1>4. ASSUME NEW c \in Used, ProcessEnds(c) PROVE IInv'
  <2> DEFINE e == [child[c] EXCEPT !.os = "dead"]
  <2>1. /\ e \in ChildType /\ e.id = child[c].id /\ e.os = "dead"
        /\ e.stopping = child[c].stopping /\ e.sent = child[c].sent
    BY <1>0 DEF ChildType
  <2>2. /\ child' = [child EXCEPT ![c] = e]
        /\ UNCHANGED <<processes, spawned, shutdown, server, snapshot>>
    BY <1>4 DEF ProcessEnds
  <2> HIDE DEF e
  <2>9. ChangesOne(c, e)
    BY <1>0, <2>1, <2>2 DEF ChangesOne
  <2> QED
    BY <2>1, <2>9, OneChildChanges
<1>5. ASSUME NEW c \in Used, GraceEnds(c) PROVE IInv'
  <2> DEFINE e == [child[c] EXCEPT !.starting = FALSE]
  <2>1. /\ e \in ChildType /\ e.id = child[c].id /\ e.os = child[c].os
        /\ e.exited = child[c].exited
        /\ e.stopping = child[c].stopping /\ e.sent = child[c].sent
    BY <1>0 DEF ChildType
  <2>2. /\ child' = [child EXCEPT ![c] = e]
        /\ UNCHANGED <<processes, spawned, shutdown, server, snapshot>>
    BY <1>5 DEF GraceEnds
  <2> HIDE DEF e
  <2>9. ChangesOne(c, e)
    BY <1>0, <2>1, <2>2 DEF ChangesOne
  <2> QED
    BY <2>1, <2>9, OneChildChanges
<1>6. ASSUME NEW c \in Used, ExitEvent(c) PROVE IInv'
  <2> DEFINE e == [child[c] EXCEPT !.exited = TRUE, !.starting = FALSE,
                                   !.stopping = [k \in Callers |-> "no"]]
  <2>1. /\ e \in ChildType /\ e.id = child[c].id /\ e.os = child[c].os
        /\ \A k \in Callers : e.stopping[k] = "no"
        /\ e.sent = child[c].sent
    BY <1>0 DEF ChildType
  <2>2. /\ child' = [child EXCEPT ![c] = e]
        /\ UNCHANGED <<spawned, shutdown, server, snapshot>>
        /\ child[c].os = "dead"
        /\ processes' = Forget(c)
    BY <1>6 DEF ExitEvent
  <2>3. \/ processes' = processes
        \/ /\ processes' = [processes EXCEPT ![child[c].id] = NoChild]
           /\ processes[child[c].id] = c
    BY <2>2 DEF Forget
  <2> HIDE DEF e
  <2>9. ChangesOne(c, e)
    BY <1>0, <2>1, <2>2, <2>3 DEF ChangesOne
  <2> QED
    BY <2>1, <2>9, OneChildChanges
<1>7. ASSUME NEW c \in Used, NEW k \in Callers, StopTimesOut(c, k) PROVE IInv'
  <2> DEFINE e == [child[c] EXCEPT !.sent = "kill", !.stopping[k] = "kill"]
  <2>1. /\ e \in ChildType /\ e.id = child[c].id /\ e.os = child[c].os
        /\ e.exited = child[c].exited /\ e.sent = "kill"
    BY <1>0 DEF ChildType
  <2>2. /\ child' = [child EXCEPT ![c] = e]
        /\ UNCHANGED <<processes, spawned, shutdown, server, snapshot>>
    BY <1>7 DEF StopTimesOut
  <2> HIDE DEF e
  <2>9. ChangesOne(c, e)
    BY <1>0, <2>1, <2>2 DEF ChangesOne
  <2> QED
    BY <2>1, <2>9, OneChildChanges
<1>8. ASSUME NEW c \in Used, NEW k \in Callers, StopGivesUp(c, k) PROVE IInv'
  <2> DEFINE e == [child[c] EXCEPT !.stopping[k] = "no"]
  <2>1. /\ e \in ChildType /\ e.id = child[c].id /\ e.os = child[c].os
        /\ e.exited = child[c].exited /\ e.sent = child[c].sent
    BY <1>0 DEF ChildType
  <2>2. /\ child' = [child EXCEPT ![c] = e]
        /\ UNCHANGED <<processes, spawned, shutdown, server, snapshot>>
        /\ child[c].stopping[k] = "kill"
    BY <1>8 DEF StopGivesUp
  <2>3. e.sent = "kill"
    BY <1>0, <2>1, <2>2
  <2> HIDE DEF e
  <2>9. ChangesOne(c, e)
    BY <1>0, <2>1, <2>2, <2>3 DEF ChangesOne
  <2> QED
    BY <2>1, <2>9, OneChildChanges
<1>9. CASE UNCHANGED vars
  BY <1>9 DEF vars, IInv, TypeOK, Used, ExitedIsDead, LiveIsRegistered,
     EscalationKills, ShutdownInProgress, ShutdownIsThorough
<1> QED
  BY <1>1, <1>2, <1>3, <1>4, <1>5, <1>6, <1>7, <1>8, <1>9, ShutdownIInv,
     SignalAgainIInv, ServerClosesIInv
  DEF Next, Handle
-----------------------------------------------------------------------------
\* The invariant holds throughout.
THEOREM SpecIInv == Spec => []IInv
<1>1. Init => IInv
  BY InitIInv
<1>2. IInv /\ [Next]_vars => IInv'
  BY StepIInv
<1> QED
  BY <1>1, <1>2, PTL DEF Spec

\* Every variable keeps its type.
THEOREM SpecTypeOK == Spec => []TypeOK
<1>1. IInv => TypeOK
  BY DEF IInv
<1> QED
  BY <1>1, SpecIInv, PTL

\* Every live process is the entry of its id.
THEOREM SpecLiveIsRegistered == Spec => []LiveIsRegistered
<1>1. IInv => LiveIsRegistered
  BY DEF IInv
<1> QED
  BY <1>1, SpecIInv, PTL

\* No two processes of one id live at the same time.
THEOREM SpecOneProcessPerId == Spec => []OneProcessPerId
<1>1. IInv => OneProcessPerId
  BY DEF IInv, LiveIsRegistered, OneProcessPerId
<1> QED
  BY <1>1, SpecIInv, PTL

\* What survives a completed shutdown that knew of it was sent SIGKILL.
THEOREM SpecShutdownIsThorough == Spec => []ShutdownIsThorough
<1>1. IInv => ShutdownIsThorough
  BY DEF IInv
<1> QED
  BY <1>1, SpecIInv, PTL
-----------------------------------------------------------------------------
(* The registry *)

\* A step after which the same processes live under the same ids.
Quiet ==
  /\ spawned' = spawned
  /\ \A c \in Used : child'[c].id = child[c].id /\ child'[c].os = child[c].os

\* Such a step is none of the registry's, unless it closes the server.
LEMMA QuietRefines ==
  ASSUME Quiet, server' = server \/ server' # "up"
  PROVE  [Registry!Next]_<<Live, Used, server = "up">>
<1>1. Used' = Used
  BY DEF Quiet, Used
<1>2. Live' = Live
  BY <1>1 DEF Quiet, Live
<1>3. CASE (server' = "up") = (server = "up")
  BY <1>1, <1>2, <1>3
<1>4. CASE (server' = "up") # (server = "up")
  <2>1. server = "up" /\ (server' = "up") = FALSE
    BY <1>4
  <2> QED
    BY <1>1, <1>2, <2>1 DEF Registry!Next, Registry!Close
<1> QED
  BY <1>3, <1>4

\* The steps that neither start nor end a process.
LEMMA QuietSteps ==
  ASSUME IInv, Next,
         ~\E i \in Ids : Run(i) \/ RunFails(i),
         ~\E c \in Used : ProcessEnds(c)
  PROVE  Quiet /\ (server' = server \/ server' # "up")
<1>1. Used = 1..spawned /\ child \in [Used -> ChildType]
      /\ \A c \in Used : child[c] \in ChildType
  BY DEF IInv, TypeOK, Used
<1>2. \A i \in Ids : processes[i] \in {NoChild} \cup Used
  <2>1. processes \in [Ids -> {NoChild} \cup Used]
    BY DEF IInv, TypeOK
  <2> QED
    BY <2>1
<1>3. ASSUME NEW c \in Used, NEW e, child' = [child EXCEPT ![c] = e],
             e.id = child[c].id, e.os = child[c].os, spawned' = spawned
      PROVE  Quiet
  BY <1>1, <1>3 DEF Quiet
<1>4. ASSUME NEW i \in Ids, Stop(i) PROVE Quiet /\ server' = server
  <2>1. PICK signal \in {"term", "kill"} :
          child' = [child EXCEPT ![processes[i]] = Signalled(@, "tool", signal)]
    BY <1>4 DEF Stop
  <2>2. processes[i] # NoChild /\ UNCHANGED <<spawned, server>>
    BY <1>4 DEF Stop
  <2>3. PICK c \in Used : c = processes[i]
    BY <1>2, <2>2
  <2> DEFINE e == Signalled(child[c], "tool", signal)
  <2>4. child' = [child EXCEPT ![c] = e]
    BY <2>1, <2>3
  <2>5. e.id = child[c].id /\ e.os = child[c].os
    BY <1>1 DEF Signalled, ChildType
  <2> HIDE DEF e
  <2> QED
    BY <1>3, <2>2, <2>4, <2>5
<1>5. ASSUME NEW c \in Used, GraceEnds(c) \/ ExitEvent(c)
      PROVE  Quiet /\ server' = server
  <2> DEFINE e == [child[c] EXCEPT !.starting = FALSE]
             f == [child[c] EXCEPT !.exited = TRUE, !.starting = FALSE,
                                   !.stopping = [k \in Callers |-> "no"]]
  <2>1. child' = [child EXCEPT ![c] = e] \/ child' = [child EXCEPT ![c] = f]
    BY <1>1, <1>5 DEF GraceEnds, ExitEvent
  <2>2. /\ e.id = child[c].id /\ e.os = child[c].os
        /\ f.id = child[c].id /\ f.os = child[c].os
    BY <1>1 DEF ChildType
  <2>3. UNCHANGED <<spawned, server>>
    BY <1>5 DEF GraceEnds, ExitEvent
  <2> HIDE DEF e, f
  <2> QED
    BY <1>3, <2>1, <2>2, <2>3
<1>6. ASSUME NEW c \in Used, NEW k \in Callers, StopTimesOut(c, k) \/ StopGivesUp(c, k)
      PROVE  Quiet /\ server' = server
  <2> DEFINE e == [child[c] EXCEPT !.sent = "kill", !.stopping[k] = "kill"]
             f == [child[c] EXCEPT !.stopping[k] = "no"]
  <2>1. child' = [child EXCEPT ![c] = e] \/ child' = [child EXCEPT ![c] = f]
    BY <1>1, <1>6, ZenonT(30) DEF StopTimesOut, StopGivesUp
  <2>2. /\ e.id = child[c].id /\ e.os = child[c].os
        /\ f.id = child[c].id /\ f.os = child[c].os
    BY <1>1 DEF ChildType
  <2>3. UNCHANGED <<spawned, server>>
    BY <1>6 DEF StopTimesOut, StopGivesUp
  <2> HIDE DEF e, f
  <2> QED
    BY <1>3, <2>1, <2>2, <2>3
<1>7. ASSUME NEW s \in Signals, Shutdown(s) PROVE Quiet /\ server' = server
  <2>1. \A c \in Used : LET e == Signalled(child[c], s, "term")
                        IN  e.id = child[c].id /\ e.os = child[c].os
    BY <1>1 DEF Signalled, ChildType
  <2>2. /\ \A c \in Used : child'[c] \in {child[c], Signalled(child[c], s, "term")}
        /\ UNCHANGED <<spawned, server>>
    BY <1>7 DEF Shutdown
  <2> QED
    BY <2>1, <2>2 DEF Quiet
<1>8. ASSUME NEW s \in Signals, SignalAgain(s) PROVE Quiet /\ server' # "up"
  BY <1>1, <1>8 DEF SignalAgain, Quiet, ChildType
<1>9. ASSUME NEW s \in Signals, ServerCloses(s) PROVE Quiet /\ server' # "up"
  BY <1>1, <1>9 DEF ServerCloses, Quiet
<1> QED
  BY <1>4, <1>5, <1>6, <1>7, <1>8, <1>9 DEF Next, Handle

\* run() finds no running entry only when no process of the id lives.
LEMMA SpawnRefines ==
  ASSUME IInv, NEW i \in Ids, NEW e, Spawn(i, e), e.id = i
  PROVE  /\ Live[i] = {} /\ server = "up" /\ server' = server
         /\ spawned + 1 \in Children \ Used
         /\ Used' = Used \cup {spawned + 1}
         /\ Live' = [Live EXCEPT ![i] = IF e.os = "alive" THEN {spawned + 1} ELSE {}]
<1> USE RepeaterToolsAssumption DEF IInv, TypeOK
<1> DEFINE n == spawned + 1
<1>1. /\ spawned' = n /\ n \in Children \ Used /\ Used' = Used \cup {n}
  BY DEF Spawn, Used, Children
<1>2. child' = [c \in Used' |-> IF c = n THEN e ELSE child[c]]
  BY DEF Spawn, Used
<1> HIDE DEF n
<1>3. child'[n] = e /\ \A c \in Used : child'[c] = child[c] /\ c # n
  BY <1>1, <1>2
<1>4. Live[i] = {}
  <2> SUFFICES ASSUME NEW c \in Used, child[c].id = i, child[c].os = "alive"
               PROVE  FALSE
    BY DEF Live
  <2>1. processes[i] = c /\ c # NoChild
    BY DEF LiveIsRegistered, Used, NoChild
  <2>2. ~child[c].exited
    BY DEF ExitedIsDead
  <2> QED
    BY <2>1, <2>2 DEF Spawn, IsRunning
<1>5. Live' = [Live EXCEPT ![i] = IF e.os = "alive" THEN {n} ELSE {}]
  <2> DEFINE L(j) == {c \in Used : child[c].id = j /\ child[c].os = "alive"}
             M(j) == {c \in Used' : child'[c].id = j /\ child'[c].os = "alive"}
  <2>1. ASSUME NEW j \in Ids, j # i PROVE M(j) = L(j)
    BY <1>1, <1>3, <2>1
  <2>2. M(i) = IF e.os = "alive" THEN {n} ELSE {}
    <3>1. L(i) = {}
      BY <1>4 DEF Live
    <3> QED
      BY <1>1, <1>3, <3>1
  <2>3. Live = [j \in Ids |-> L(j)] /\ Live' = [j \in Ids |-> M(j)]
    BY DEF Live
  <2> HIDE DEF L, M
  <2> QED
    BY <2>1, <2>2, <2>3
<1> QED
  BY <1>1, <1>4, <1>5 DEF Spawn, n

\* The end of a process is the end of the one that lives under its id.
LEMMA EndRefines ==
  ASSUME IInv, NEW c \in Used, ProcessEnds(c)
  PROVE  /\ child[c].id \in Ids /\ Live[child[c].id] # {}
         /\ Live' = [Live EXCEPT ![child[c].id] = {}]
         /\ Used' = Used /\ server' = server
<1> USE DEF IInv, TypeOK
<1> DEFINE i == child[c].id
<1>1. /\ Used' = Used /\ Used = 1..spawned /\ i \in Ids
      /\ child[c].os = "alive" /\ server' = server
  BY DEF ProcessEnds, Used, ChildType
<1>2. \A d \in Used : /\ child'[d].id = child[d].id
                      /\ child'[d].os = IF d = c THEN "dead" ELSE child[d].os
  <2>1. \A d \in Used : child[d] \in ChildType
    BY <1>1
  <2> QED
    BY <1>1, <2>1 DEF ProcessEnds, ChildType
<1>3. \A d \in Used : child[d].id = i /\ child[d].os = "alive" => d = c
  BY <1>1 DEF LiveIsRegistered
<1> HIDE DEF i
<1> DEFINE L(j) == {d \in Used : child[d].id = j /\ child[d].os = "alive"}
           M(j) == {d \in Used' : child'[d].id = j /\ child'[d].os = "alive"}
<1>4. ASSUME NEW j \in Ids, j # i PROVE M(j) = L(j)
  BY <1>1, <1>2, <1>4 DEF i
<1>5. M(i) = {} /\ c \in L(i)
  BY <1>1, <1>2, <1>3 DEF i
<1>6. Live = [j \in Ids |-> L(j)] /\ Live' = [j \in Ids |-> M(j)]
  BY DEF Live
<1> HIDE DEF L, M
<1>7. Live' = [Live EXCEPT ![i] = {}] /\ Live[i] # {}
  BY <1>1, <1>4, <1>5, <1>6
<1> QED
  BY <1>1, <1>7 DEF i

\* Every step is a step of the registry or leaves it alone.
LEMMA StepRefines ==
  IInv /\ [Next]_vars => [Registry!Next]_<<Live, Used, server = "up">>
<1> SUFFICES ASSUME IInv, [Next]_vars
             PROVE  [Registry!Next]_<<Live, Used, server = "up">>
  OBVIOUS
<1>1. ASSUME NEW i \in Ids, Run(i) PROVE Registry!Next
  <2>1. NewChild(i).id = i /\ NewChild(i).os = "alive" /\ Spawn(i, NewChild(i))
    BY <1>1 DEF Run, NewChild
  <2>2. /\ Live[i] = {} /\ server = "up" /\ server' = server
        /\ spawned + 1 \in Children \ Used /\ Used' = Used \cup {spawned + 1}
        /\ Live' = [Live EXCEPT ![i] = {spawned + 1}]
    BY <2>1, SpawnRefines
  <2>3. Registry!Start(i, spawned + 1)
    BY <2>2 DEF Registry!Start
  <2> QED
    BY <2>2, <2>3 DEF Registry!Next
<1>2. ASSUME NEW i \in Ids, RunFails(i) PROVE Registry!Next
  <2> DEFINE e == [NewChild(i) EXCEPT !.os = "failed", !.errored = TRUE,
                                      !.starting = FALSE]
  <2>1. e.id = i /\ e.os = "failed" /\ Spawn(i, e)
    BY <1>2 DEF RunFails, NewChild
  <2> HIDE DEF e
  <2>2. /\ Live[i] = {} /\ server = "up" /\ server' = server
        /\ spawned + 1 \in Children \ Used /\ Used' = Used \cup {spawned + 1}
        /\ Live' = [Live EXCEPT ![i] = {}]
    BY <2>1, SpawnRefines
  <2>3. Live' = Live
    BY <2>2 DEF Live
  <2>4. Registry!Fail(i, spawned + 1)
    BY <2>2, <2>3 DEF Registry!Fail
  <2> QED
    BY <2>2, <2>4 DEF Registry!Next
<1>3. ASSUME NEW c \in Used, ProcessEnds(c) PROVE Registry!Next
  <2>1. child[c].id \in Ids /\ Registry!End(child[c].id)
    BY <1>3, EndRefines DEF Registry!End
  <2> QED
    BY <2>1 DEF Registry!Next
<1>4. CASE UNCHANGED vars
  BY <1>4 DEF vars, Live, Used
<1> QED
  BY <1>1, <1>2, <1>3, <1>4, QuietSteps, QuietRefines

\* The tools implement the registry, for every set of ids and every number of
\* processes: one process per id, none that comes back, none after the end.
THEOREM SpecRefinesRegistry == Spec => RefinesRegistry
<1>1. Init => Registry!Init
  BY DEF Init, Live, Used, Registry!Init
<1> QED
  BY <1>1, StepRefines, SpecIInv, PTL DEF Spec, RefinesRegistry, Registry!Spec
-----------------------------------------------------------------------------
(* The shutdown *)

\* The signal whose shutdown begins with a step is the signal of that step.
LEMMA ShutdownBegins ==
  ASSUME IInv, Next, NEW s \in Signals, shutdown[s] = "no", shutdown'[s] = "stopping"
  PROVE  Shutdown(s)
<1>1. shutdown' # shutdown
  OBVIOUS
<1>2. shutdown \in [Signals -> {"no", "stopping", "closed"}]
  BY DEF IInv, TypeOK
<1>3. ASSUME NEW t \in Signals, Shutdown(t) PROVE t = s
  BY <1>2, <1>3 DEF Shutdown
<1>4. ASSUME NEW t \in Signals, ServerCloses(t) PROVE FALSE
  BY <1>2, <1>4 DEF ServerCloses
<1> QED
  BY <1>1, <1>3, <1>4
  DEF Next, Handle, Run, RunFails, Spawn, Stop, ProcessEnds, GraceEnds, ExitEvent,
      StopTimesOut, StopGivesUp, SignalAgain

\* A process that lives is registered and not known to have ended: stopAll()
\* finds it.
LEMMA ShutdownFinds ==
  ASSUME IInv, NEW s \in Signals, Shutdown(s), NEW c \in Used, child[c].os = "alive"
  PROVE  c \in snapshot'[s] /\ child'[c].stopping[s] = "term"
<1>1. child[c] \in ChildType /\ child[c].id \in Ids
  BY DEF IInv, TypeOK, Used, ChildType
<1>2. processes[child[c].id] = c /\ c # NoChild
  BY DEF IInv, LiveIsRegistered, Used, NoChild
<1>3. c \in Registered
  BY <1>1, <1>2 DEF Registered
<1>4. IsRunning(c)
  BY DEF IInv, ExitedIsDead, IsRunning
<1>5. c \in snapshot'[s]
  <2>1. snapshot \in [Signals -> SUBSET Used]
    BY DEF IInv, TypeOK
  <2>2. snapshot'[s] = {d \in Registered : IsRunning(d)}
    BY <2>1 DEF Shutdown
  <2> QED
    BY <1>3, <1>4, <2>2
<1>6. child'[c] = Signalled(child[c], s, "term")
  BY <1>5 DEF Shutdown
<1>7. Signalled(child[c], s, "term").stopping[s] = "term"
  BY <1>1 DEF Signalled, ChildType, Callers
<1> QED
  BY <1>5, <1>6, <1>7

\* stopAll() misses no live process, for every set of ids.
THEOREM SpecSnapshotComplete == Spec => SnapshotComplete
<1> DEFINE Complete ==
      \A s \in Signals : shutdown[s] = "no" /\ shutdown'[s] = "stopping" =>
        \A c \in Used : child[c].os = "alive" =>
          c \in snapshot'[s] /\ child'[c].stopping[s] = "term"
<1>1. IInv /\ [Next]_vars => [Complete]_vars
  BY ShutdownBegins, ShutdownFinds
<1> QED
  BY <1>1, SpecIInv, PTL DEF Spec, SnapshotComplete

\* What stop() awaits on behalf of a shutdown, before and after a step.
Fewer(s) ==
  \A c \in Used' : IF c \in Used
                   THEN StopRank[child'[c].stopping[s]] <= StopRank[child[c].stopping[s]]
                   ELSE child'[c].stopping[s] = "no"

\* A step keeps to it when each child awaits what it did, or less.
LEMMA FewerByChild ==
  ASSUME IInv, NEW s \in Signals, spawned' = spawned,
         \A c \in Used : \/ child'[c].stopping[s] = child[c].stopping[s]
                         \/ child'[c].stopping[s] = "no"
                         \/ child'[c].stopping[s] = "kill" /\ child[c].stopping[s] = "term"
  PROVE  Fewer(s)
<1>1. Used' = Used
  BY DEF Used
<1> SUFFICES ASSUME NEW c \in Used
             PROVE  StopRank[child'[c].stopping[s]] <= StopRank[child[c].stopping[s]]
  BY <1>1 DEF Fewer
<1>2. child[c].stopping[s] \in {"no", "term", "kill"}
  BY DEF IInv, TypeOK, Used, ChildType, Callers
<1> QED
  BY <1>2 DEF StopRank

\* Every step of the system keeps to it while the shutdown waits.
LEMMA StepFewer ==
  ASSUME IInv, Next, NEW s \in Signals, shutdown[s] = "stopping"
  PROVE  Fewer(s)
<1>1. /\ Used = 1..spawned /\ child \in [Used -> ChildType] /\ s \in Callers
      /\ \A c \in Used : child[c] \in ChildType
      /\ \A c \in Used : child[c].stopping \in [Callers -> {"no", "term", "kill"}]
  BY DEF IInv, TypeOK, Used, ChildType, Callers
<1>2. ASSUME NEW c \in Used, NEW e, child' = [child EXCEPT ![c] = e], spawned' = spawned,
             \/ e.stopping[s] = child[c].stopping[s]
             \/ e.stopping[s] = "no"
             \/ e.stopping[s] = "kill" /\ child[c].stopping[s] = "term"
      PROVE  Fewer(s)
  <2>1. \A d \in Used : child'[d] = IF d = c THEN e ELSE child[d]
    BY <1>1, <1>2
  <2> QED
    BY <1>2, <2>1, FewerByChild
<1>3. ASSUME NEW i \in Ids, NEW e, Spawn(i, e), e.stopping = [k \in Callers |-> "no"]
      PROVE  Fewer(s)
  <2>1. /\ Used' = Used \cup {spawned + 1} /\ spawned + 1 \notin Used
        /\ spawned' = spawned + 1
    BY <1>3, RepeaterToolsAssumption DEF Spawn, Used, IInv, TypeOK
  <2>2. \A c \in Used' : child'[c] = IF c \in Used THEN child[c] ELSE e
    BY <1>3, <2>1 DEF Spawn, Used
  <2>3. \A r \in {"no", "term", "kill"} : StopRank[r] <= StopRank[r]
    BY DEF StopRank
  <2>4. e.stopping[s] = "no"
    BY <1>1, <1>3
  <2> QED
    BY <1>1, <2>2, <2>3, <2>4 DEF Fewer
<1>4. ASSUME NEW i \in Ids, Run(i) \/ RunFails(i) PROVE Fewer(s)
  <2>1. PICK e : Spawn(i, e) /\ e.stopping = [k \in Callers |-> "no"]
    <3> DEFINE f == [NewChild(i) EXCEPT !.os = "failed", !.errored = TRUE,
                                        !.starting = FALSE]
               none == [k \in Callers |-> "no"]
    <3>1. NewChild(i).stopping = none /\ f.stopping = none
      BY DEF NewChild
    <3>2. Spawn(i, NewChild(i)) \/ Spawn(i, f)
      BY <1>4 DEF Run, RunFails
    <3> HIDE DEF f
    <3> QED
      BY <3>1, <3>2
  <2> QED
    BY <1>3, <2>1
<1>5. ASSUME NEW i \in Ids, Stop(i) PROVE Fewer(s)
  <2>1. PICK signal \in {"term", "kill"} :
          child' = [child EXCEPT ![processes[i]] = Signalled(@, "tool", signal)]
    BY <1>5 DEF Stop
  <2>2. processes[i] # NoChild /\ UNCHANGED spawned
    BY <1>5 DEF Stop
  <2>3. \A j \in Ids : processes[j] \in {NoChild} \cup Used
    <3>1. processes \in [Ids -> {NoChild} \cup Used]
      BY DEF IInv, TypeOK
    <3> QED
      BY <3>1
  <2>4. PICK c \in Used : c = processes[i]
    BY <2>2, <2>3
  <2> DEFINE e == Signalled(child[c], "tool", signal)
  <2>5. child' = [child EXCEPT ![c] = e]
    BY <2>1, <2>4
  <2>6. e.stopping[s] = child[c].stopping[s]
    BY <1>1 DEF Signalled, ChildType, Signals
  <2> HIDE DEF e
  <2> QED
    BY <1>2, <2>2, <2>5, <2>6
<1>6. ASSUME NEW c \in Used, ProcessEnds(c) \/ GraceEnds(c) \/ ExitEvent(c)
      PROVE  Fewer(s)
  <2> DEFINE d == [child[c] EXCEPT !.os = "dead"]
             e == [child[c] EXCEPT !.starting = FALSE]
             f == [child[c] EXCEPT !.exited = TRUE, !.starting = FALSE,
                                   !.stopping = [k \in Callers |-> "no"]]
  <2>1. \/ child' = [child EXCEPT ![c] = d] \/ child' = [child EXCEPT ![c] = e]
        \/ child' = [child EXCEPT ![c] = f]
    BY <1>1, <1>6 DEF ProcessEnds, GraceEnds, ExitEvent
  <2>2. /\ d.stopping[s] = child[c].stopping[s] /\ e.stopping[s] = child[c].stopping[s]
        /\ f.stopping[s] = "no"
    BY <1>1 DEF ChildType
  <2>3. UNCHANGED spawned
    BY <1>6 DEF ProcessEnds, GraceEnds, ExitEvent
  <2> HIDE DEF d, e, f
  <2> QED
    BY <1>2, <2>1, <2>2, <2>3
<1>7. ASSUME NEW c \in Used, NEW k \in Callers, StopTimesOut(c, k) \/ StopGivesUp(c, k)
      PROVE  Fewer(s)
  <2> DEFINE e == [child[c] EXCEPT !.sent = "kill", !.stopping[k] = "kill"]
             f == [child[c] EXCEPT !.stopping[k] = "no"]
  <2>1. \/ child' = [child EXCEPT ![c] = e] /\ child[c].stopping[k] = "term"
        \/ child' = [child EXCEPT ![c] = f]
    BY <1>1, <1>7 DEF StopTimesOut, StopGivesUp
  <2>2. /\ e.stopping[s] = IF s = k THEN "kill" ELSE child[c].stopping[s]
        /\ f.stopping[s] = IF s = k THEN "no" ELSE child[c].stopping[s]
    BY <1>1 DEF ChildType
  <2>3. UNCHANGED spawned
    BY <1>7 DEF StopTimesOut, StopGivesUp
  <2> HIDE DEF e, f
  <2> QED
    BY <1>2, <2>1, <2>2, <2>3
<1>8. ASSUME NEW t \in Signals, Shutdown(t) PROVE Fewer(s)
  <2>1. t # s
    BY <1>8 DEF Shutdown
  <2>2. \A c \in Used : Signalled(child[c], t, "term").stopping[s] = child[c].stopping[s]
    BY <1>1, <2>1 DEF Signalled, ChildType
  <2>3. /\ \A c \in Used : child'[c] \in {child[c], Signalled(child[c], t, "term")}
        /\ UNCHANGED spawned
    BY <1>8 DEF Shutdown
  <2> QED
    BY <2>2, <2>3, FewerByChild
<1>9. ASSUME NEW t \in Signals, SignalAgain(t) PROVE Fewer(s)
  <2>1. /\ \A c \in Used : child'[c].stopping[s] = "no"
        /\ UNCHANGED spawned
    BY <1>1, <1>9 DEF SignalAgain, ChildType
  <2> QED
    BY <2>1, FewerByChild
<1>10. ASSUME NEW t \in Signals, ServerCloses(t) PROVE Fewer(s)
  BY <1>10, FewerByChild DEF ServerCloses
<1> QED
  BY <1>4, <1>5, <1>6, <1>7, <1>8, <1>9, <1>10 DEF Next, Handle

\* What a shutdown waits for only gets less, for every set of ids and every
\* number of processes.  With the fairness of timers this is why it ends.
THEOREM SpecShutdownCountsDown == Spec => ShutdownCountsDown
<1> DEFINE Down == \A s \in Signals : shutdown[s] = "stopping" => Fewer(s)
<1>1. IInv /\ [Next]_vars => [Down]_vars
  BY StepFewer
<1>2. Spec => [][Down]_vars
  BY <1>1, SpecIInv, PTL DEF Spec
<1> QED
  BY <1>2 DEF ShutdownCountsDown, Fewer
=============================================================================
