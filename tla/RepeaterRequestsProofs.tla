----------------------- MODULE RepeaterRequestsProofs -----------------------
(***************************************************************************)
(* Proofs about RepeaterRequests, for any scripts, payloads, limits and    *)
(* number of requests.                                                     *)
(*                                                                         *)
(* What holds of one request, RequestOK, and what holds of the scripts,    *)
(* StoreInv, are preserved apart from each other: a step changes either a  *)
(* single request or none.                                                 *)
(***************************************************************************)
EXTENDS RepeaterRequests, FiniteSetTheorems, TLAPS

\* Before there is an answer its fields are those of a new request, and a
\* target that has been heard of has not been heard by consume().
Unanswered(q) ==
  /\ q.kind = "none" /\ q.size = 0 /\ q.length = -1 /\ q.limit = Infinity
  /\ q.peer \in {"silent", "answeredEarly", "closedEarly"}

WithinLimit(q) ==
  /\ q.limit = Infinity \/ q.size <= q.limit
  /\ q.length \in {-1, q.size}

RequestOK(q) ==
  /\ q \in Request
  /\ q.pc \notin {"answered", "dropped", "onResponse"} => Unanswered(q)
  /\ q.kind = "response" => WithinLimit(q)
  /\ q.kind = "timeout" => q.peer \in {"silent", "answeredEarly", "closedEarly"}

\* Local scripts are all there when the command runs, and count as update 0.
StoreInv ==
  /\ phase \in {"loading", "running", "failed", "crashed"}
  /\ given \in Locals
  /\ store \in [Ids -> Script]
  /\ updates \in 0..MaxUpdates
  /\ maxBodySize \in BodySizes \union {Infinity}
  /\ StoreIsOneUpdate
  /\ phase = "running" => \A i \in given : Loaded(i)
  /\ \A i \in Ids : store[i].type = "local" => store[i].update = 0

RequestsInv ==
  /\ StoreInv
  /\ req \in [Requests -> Request]
  /\ \A r \in Requests : RequestOK(req[r])

\* Before the scripts are loaded.
LEMMA InitInv == Init => RequestsInv
<1> SUFFICES ASSUME Init PROVE RequestsInv
  OBVIOUS
<1> USE RequestsAssumption DEF Init
<1>1. StoreInv
  BY DEF StoreInv, NoScript, Script, StoreIsOneUpdate, Loaded
<1> DEFINE q == [pc |-> "new", update |-> -1, kind |-> "none", size |-> 0,
                 length |-> -1, limit |-> Infinity, peer |-> "silent"]
<1>2. RequestOK(q)
  BY DEF RequestOK, Request, Unanswered, WithinLimit
<1>3. req = [r \in Requests |-> q]
  OBVIOUS
<1> HIDE DEF q
<1> QED
  BY <1>1, <1>2, <1>3 DEF RequestsInv, RequestOK

\* FSScriptLoader preserves StoreInv.
LEMMA LoadStore ==
  ASSUME StoreInv, NEW i \in Ids, NEW responds \in BOOLEAN, LoadScript(i, responds)
  PROVE  StoreInv'
<1> USE RequestsAssumption
<1> DEFINE n == Cardinality({j \in Ids : Loaded(j)}) + 1
           s == [type |-> "local", update |-> 0, responds |-> responds, at |-> n]
<1>1. n \in Nat
  <2>1. {j \in Ids : Loaded(j)} \in SUBSET Ids
    OBVIOUS
  <2>2. IsFiniteSet({j \in Ids : Loaded(j)})
    BY <2>1, FS_Subset, Zenon
  <2>3. Cardinality({j \in Ids : Loaded(j)}) \in Nat
    BY <2>2, FS_CardinalityType, Zenon
  <2> QED
    BY <2>3
<1>2. /\ store' = [store EXCEPT ![i] = s]
      /\ phase = "loading" /\ i \in given
      /\ UNCHANGED <<phase, given, updates, maxBodySize>>
  BY Zenon DEF LoadScript
<1> HIDE DEF n
<1>3. s \in Script /\ s.type = "local" /\ s.update = 0
  BY <1>1 DEF Script
<1> HIDE DEF s
<1>4. store' \in [Ids -> Script] /\ store'[i] = s
  BY <1>2, <1>3 DEF StoreInv
<1>5. \A j \in Ids : j # i => store'[j] = store[j]
  BY <1>2 DEF StoreInv
<1>6. StoreIsOneUpdate'
  BY <1>2, <1>3, <1>4, <1>5 DEF StoreInv, StoreIsOneUpdate, Loaded
<1> QED
  BY <1>2, <1>3, <1>4, <1>5, <1>6 DEF StoreInv

\* The indices and the elements of a payload.
LEMMA ElementsOfSeq ==
  ASSUME NEW T, NEW s \in Seq(T)
  PROVE  \A l \in 1..Len(s) : l \in Nat /\ s[l] \in T
  OBVIOUS

\* compileScripts() replaces the scripts of the cloud, all of them, and leaves
\* local ones alone.
LEMMA UpdateStore ==
  ASSUME StoreInv, NEW payload \in Payloads, ScriptsUpdated(payload)
  PROVE  StoreInv'
<1> USE RequestsAssumption
<1>1. /\ phase = "running" /\ updates < MaxUpdates /\ updates' = updates + 1
      /\ store' = CompileScripts(payload)
      /\ UNCHANGED <<phase, given, maxBodySize>>
  BY Zenon DEF ScriptsUpdated
<1>2. updates' \in 0..MaxUpdates
  BY <1>1 DEF StoreInv
<1>3. given \subseteq Ids
  BY DEF StoreInv
<1>4. CASE given # {}
  <2>1. \A i \in Ids : store[i].type # "remote"
    BY <1>4 DEF StoreInv, StoreIsOneUpdate, Loaded
  <2>2. Clear = store
    BY <2>1 DEF Clear, StoreInv
  <2>3. \E i \in Ids : store[i].type # "none"
    BY <1>1, <1>3, <1>4 DEF StoreInv, Loaded
  <2>4. store' = store
    BY <1>1, <2>2, <2>3, Zenon DEF CompileScripts
  <2> QED
    BY <1>1, <1>2, <1>4, <2>4 DEF StoreInv, StoreIsOneUpdate, Loaded
<1>5. CASE given = {}
  <2>1. \A i \in Ids : Clear[i].type = "none" /\ Clear[i] \in Script
    <3> SUFFICES ASSUME NEW i \in Ids
                 PROVE  Clear[i].type = "none" /\ Clear[i] \in Script
      OBVIOUS
    <3>1. store[i].type \in {"none", "remote"} /\ store[i] \in Script
      BY <1>5 DEF StoreInv, StoreIsOneUpdate, Loaded
    <3>2. NoScript \in Script /\ NoScript.type = "none"
      BY DEF NoScript, Script
    <3>3. Clear[i] = IF store[i].type = "remote" THEN NoScript ELSE store[i]
      BY DEF Clear
    <3> QED
      BY <3>1, <3>2, <3>3
  <2> DEFINE Sets(i, k) == payload[k].id = i /\ \A j \in 1..k : payload[j].compiles
             At1(i) == CHOOSE k \in 1..Len(payload) : payload[k].id = i
             New(i) == [type |-> "remote", update |-> updates + 1, at |-> At1(i),
                        responds |-> payload[At1(i)].responds]
  <2>2. store' = [i \in Ids |-> IF \E k \in 1..Len(payload) : Sets(i, k)
                                THEN New(i) ELSE Clear[i]]
    BY <1>1, <2>1, Zenon DEF CompileScripts
  <2>3. \A i \in Ids : (\E k \in 1..Len(payload) : Sets(i, k)) =>
          New(i) \in Script /\ New(i).type = "remote" /\ New(i).update = updates'
    <3> SUFFICES ASSUME NEW i \in Ids, NEW k \in 1..Len(payload), Sets(i, k)
                 PROVE  New(i) \in Script /\ New(i).type = "remote"
                          /\ New(i).update = updates'
      OBVIOUS
    <3>1. At1(i) \in 1..Len(payload)
      <4>1. \E l \in 1..Len(payload) : payload[l].id = i
        OBVIOUS
      <4> QED
        BY <4>1, Zenon
    <3>2. payload \in Seq([id: Ids, compiles: BOOLEAN, responds: BOOLEAN])
      BY Zenon
    <3>3. At1(i) \in Nat /\ payload[At1(i)] \in [id: Ids, compiles: BOOLEAN, responds: BOOLEAN]
      <4>1. \A l \in 1..Len(payload) :
              l \in Nat /\ payload[l] \in [id: Ids, compiles: BOOLEAN, responds: BOOLEAN]
        BY <3>2, ElementsOfSeq, Zenon
      <4> QED
        BY <3>1, <4>1, Zenon
    <3>4. payload[At1(i)].responds \in BOOLEAN
      <4> HIDE DEF At1
      <4> QED
        BY <3>3
    <3> HIDE DEF At1
    <3> QED
      BY <1>1, <1>2, <3>3, <3>4 DEF Script
  <2> HIDE DEF New, Sets
  <2>4. \A i \in Ids :
          /\ store'[i] \in Script
          /\ store'[i].type = "none" \/ (store'[i].type = "remote" /\ store'[i].update = updates')
    BY <2>1, <2>2, <2>3
  <2>5. store' \in [Ids -> Script]
    BY <2>2, <2>4
  <2>6. StoreIsOneUpdate'
    BY <1>1, <1>5, <2>4 DEF StoreIsOneUpdate, Loaded
  <2> QED
    BY <1>1, <1>2, <1>5, <2>4, <2>5, <2>6 DEF StoreInv
<1> QED
  BY <1>4, <1>5

\* The answer of executeRequest() is within the limit that it is cut to.
LEMMA TruncateBounds ==
  ASSUME NEW size \in Sizes, NEW max \in {Infinity, ContentSize} \union BodySizes,
         NEW whole \in BOOLEAN
  PROVE  /\ Truncate(size, max, whole) \in Sizes \union {0, ContentSize} \union BodySizes
         /\ max = Infinity \/ Truncate(size, max, whole) <= max
  BY RequestsAssumption DEF Truncate, Infinity

\* A step of a request changes nothing but the request.
LEMMA SetRequest ==
  ASSUME RequestsInv, NEW r \in Requests, NEW q, RequestOK(q), Set(r, q)
  PROVE  RequestsInv'
<1>1. req' \in [Requests -> Request]
  BY DEF RequestsInv, RequestOK, Set
<1>2. \A s \in Requests : RequestOK(req'[s])
  BY DEF RequestsInv, Set
<1>3. StoreInv'
  BY DEF RequestsInv, Set, StoreInv, StoreIsOneUpdate, Loaded
<1> QED
  BY <1>1, <1>2, <1>3 DEF RequestsInv

\* The records that the steps of a request write.
LEMMA MovesOK ==
  ASSUME NEW q, RequestOK(q)
  PROVE  /\ RequestOK([q EXCEPT !.pc = "dropped"])
         /\ RequestOK([q EXCEPT !.pc = "answered"])
         /\ RequestOK([q EXCEPT !.pc = "answered", !.kind = "error"])
         /\ Unanswered(q) =>
              /\ \A pc \in {"curl", "connecting", "sending", "consuming"} :
                   RequestOK([q EXCEPT !.pc = pc])
              /\ \A u \in 0..MaxUpdates :
                   RequestOK([q EXCEPT !.pc = "handle", !.update = u])
              /\ RequestOK([q EXCEPT !.pc = "answered", !.kind = "timeout"])
              /\ \A what \in {"answered", "closed"} :
                   RequestOK([q EXCEPT !.peer = what, !.pc = "answered", !.kind = "response"])
              /\ \A what \in {"answeredEarly", "closedEarly"} :
                   RequestOK([q EXCEPT !.peer = what])
         /\ \A n \in Sizes :
              RequestOK([q EXCEPT !.pc = "answered", !.kind = "scripted", !.size = n])
<1> DEFINE Pcs == Waiting \union {"new", "answered", "dropped"}
           Updates == -1..MaxUpdates
           Kinds == {"none", "response", "scripted", "error", "timeout"}
           Cuts == Sizes \union {0, ContentSize} \union BodySizes
           Lengths == {-1, 0, ContentSize} \union Sizes \union BodySizes
           Limits == {Infinity, ContentSize} \union BodySizes
           Peers == {"silent", "answeredEarly", "closedEarly", "answered", "closed"}
<1>1. Request = [pc: Pcs, update: Updates, kind: Kinds, size: Cuts, length: Lengths,
                  limit: Limits, peer: Peers]
  BY DEF Request
<1>2. {"handle", "curl", "connecting", "sending", "consuming", "answered", "dropped"}
         \subseteq Pcs
  BY DEF Waiting
<1>3. /\ {"error", "timeout", "response", "scripted"} \subseteq Kinds
       /\ {"answered", "closed", "answeredEarly", "closedEarly"} \subseteq Peers
       /\ Sizes \subseteq Cuts
  OBVIOUS
<1>4. 0..MaxUpdates \subseteq Updates
  BY RequestsAssumption
<1> HIDE DEF Pcs, Updates, Kinds, Cuts, Lengths, Limits, Peers
<1>5. /\ q \in Request
      /\ q.kind = "response" => WithinLimit(q)
      /\ q.kind = "timeout" => q.peer \in {"silent", "answeredEarly", "closedEarly"}
  BY DEF RequestOK
<1>6. ASSUME NEW pc \in {"answered", "dropped"}
      PROVE  RequestOK([q EXCEPT !.pc = pc])
  <2> DEFINE a == [q EXCEPT !.pc = pc]
  <2>1. a \in Request
    BY <1>6, <1>5, <1>1, <1>2, <1>3, Zenon
  <2>2. a.pc = pc /\ a.kind = q.kind /\ a.peer = q.peer
        /\ a.size = q.size /\ a.length = q.length /\ a.limit = q.limit
    BY <1>5, <1>1
  <2> HIDE DEF a
  <2>3. RequestOK(a)
    BY <1>6, <1>5, <2>1, <2>2 DEF RequestOK, Unanswered, WithinLimit
  <2> QED
    BY <2>3 DEF a
<1>7. RequestOK([q EXCEPT !.pc = "answered", !.kind = "error"])
  <2> DEFINE a == [q EXCEPT !.pc = "answered", !.kind = "error"]
  <2>1. a \in Request
    BY <1>5, <1>1, <1>2, <1>3, Zenon
  <2>2. a.pc = "answered" /\ a.kind = "error"
    BY <1>5, <1>1
  <2> HIDE DEF a
  <2>3. RequestOK(a)
    BY <1>5, <2>1, <2>2 DEF RequestOK, Unanswered, WithinLimit
  <2> QED
    BY <2>3 DEF a
<1>8. ASSUME Unanswered(q), NEW pc \in {"curl", "connecting", "sending", "consuming"}
      PROVE  RequestOK([q EXCEPT !.pc = pc])
  <2> DEFINE a == [q EXCEPT !.pc = pc]
  <2>1. a \in Request
    BY <1>8, <1>5, <1>1, <1>2, <1>3, Zenon
  <2>2. a.pc = pc /\ a.kind = q.kind /\ a.peer = q.peer
        /\ a.size = q.size /\ a.length = q.length /\ a.limit = q.limit
    BY <1>5, <1>1
  <2> HIDE DEF a
  <2>3. RequestOK(a)
    BY <1>8, <1>5, <2>1, <2>2 DEF RequestOK, Unanswered, WithinLimit
  <2> QED
    BY <2>3 DEF a
<1>9. ASSUME Unanswered(q), NEW u \in 0..MaxUpdates
      PROVE  RequestOK([q EXCEPT !.pc = "handle", !.update = u])
  <2> DEFINE a == [q EXCEPT !.pc = "handle", !.update = u]
  <2>1. a \in Request
    BY <1>9, <1>5, <1>1, <1>2, <1>4, Zenon
  <2>2. a.pc = "handle" /\ a.kind = q.kind /\ a.peer = q.peer
        /\ a.size = q.size /\ a.length = q.length /\ a.limit = q.limit
    BY <1>5, <1>1
  <2> HIDE DEF a
  <2>3. RequestOK(a)
    BY <1>9, <1>5, <2>1, <2>2 DEF RequestOK, Unanswered, WithinLimit
  <2> QED
    BY <2>3 DEF a
<1>10. ASSUME Unanswered(q)
      PROVE  RequestOK([q EXCEPT !.pc = "answered", !.kind = "timeout"])
  <2> DEFINE a == [q EXCEPT !.pc = "answered", !.kind = "timeout"]
  <2>1. a \in Request
    BY <1>10, <1>5, <1>1, <1>2, <1>3, Zenon
  <2>2. a.pc = "answered" /\ a.kind = "timeout" /\ a.peer = q.peer
    BY <1>5, <1>1
  <2> HIDE DEF a
  <2>3. RequestOK(a)
    BY <1>10, <1>5, <2>1, <2>2 DEF RequestOK, Unanswered, WithinLimit
  <2> QED
    BY <2>3 DEF a
<1>11. ASSUME Unanswered(q), NEW what \in {"answered", "closed"}
      PROVE  RequestOK([q EXCEPT !.peer = what, !.pc = "answered", !.kind = "response"])
  <2> DEFINE a == [q EXCEPT !.peer = what, !.pc = "answered", !.kind = "response"]
  <2>1. a \in Request
    BY <1>11, <1>5, <1>1, <1>2, <1>3, Zenon
  <2>2. a.pc = "answered" /\ a.kind = "response"
        /\ a.size = q.size /\ a.length = q.length /\ a.limit = q.limit
    BY <1>5, <1>1
  <2> HIDE DEF a
  <2>3. RequestOK(a)
    BY <1>11, <1>5, <2>1, <2>2 DEF RequestOK, Unanswered, WithinLimit
  <2> QED
    BY <2>3 DEF a
<1>12. ASSUME Unanswered(q), NEW what \in {"answeredEarly", "closedEarly"}
      PROVE  RequestOK([q EXCEPT !.peer = what])
  <2> DEFINE a == [q EXCEPT !.peer = what]
  <2>1. a \in Request
    BY <1>12, <1>5, <1>1, <1>2, <1>3, Zenon
  <2>2. a.pc = q.pc /\ a.kind = q.kind /\ a.peer = what
        /\ a.size = q.size /\ a.length = q.length /\ a.limit = q.limit
    BY <1>5, <1>1
  <2> HIDE DEF a
  <2>3. RequestOK(a)
    BY <1>12, <1>5, <2>1, <2>2 DEF RequestOK, Unanswered, WithinLimit
  <2> QED
    BY <2>3 DEF a
<1>13. ASSUME NEW n \in Sizes
      PROVE  RequestOK([q EXCEPT !.pc = "answered", !.kind = "scripted", !.size = n])
  <2> DEFINE a == [q EXCEPT !.pc = "answered", !.kind = "scripted", !.size = n]
  <2>1. a \in Request
    BY <1>13, <1>5, <1>1, <1>2, <1>3, Zenon
  <2>2. a.pc = "answered" /\ a.kind = "scripted"
    BY <1>5, <1>1
  <2> HIDE DEF a
  <2>3. RequestOK(a)
    BY <1>13, <1>5, <2>1, <2>2 DEF RequestOK, Unanswered, WithinLimit
  <2> QED
    BY <2>3 DEF a
<1> QED
  BY <1>6, <1>7, <1>8, <1>9, <1>10, <1>11, <1>12, <1>13, Zenon

\* The request q once curl has ended, at pc and with the script of the update u.
AfterCurl(q, hasBody, listed, whole, size, pc, u) ==
  LET max == IF listed THEN maxBodySize ELSE ContentSize
      cut == IF hasBody THEN Truncate(size, max, listed /\ whole) ELSE 0
  IN  [q EXCEPT !.pc = pc, !.kind = "response", !.size = cut,
         !.length = IF hasBody THEN cut ELSE -1, !.limit = max, !.update = u]

\* The response that truncateBody() leaves, answered at once or given to the
\* script as of now.
LEMMA CurlOK ==
  ASSUME StoreInv, NEW q, RequestOK(q),
         NEW hasBody \in BOOLEAN, NEW listed \in BOOLEAN, NEW whole \in BOOLEAN,
         NEW size \in Sizes, NEW pc \in {"answered", "onResponse"},
         NEW u \in -1..MaxUpdates
  PROVE  RequestOK(AfterCurl(q, hasBody, listed, whole, size, pc, u))
<1> USE RequestsAssumption
<1> DEFINE max == IF listed THEN maxBodySize ELSE ContentSize
           cut == IF hasBody THEN Truncate(size, max, listed /\ whole) ELSE 0
           len == IF hasBody THEN cut ELSE -1
           a == [q EXCEPT !.pc = pc, !.kind = "response", !.size = cut,
                          !.length = len, !.limit = max, !.update = u]
<1>1. max \in {Infinity, ContentSize} \union BodySizes
  BY DEF StoreInv
<1> HIDE DEF max
<1>2. /\ cut \in Sizes \union {0, ContentSize} \union BodySizes
      /\ max = Infinity \/ cut <= max
  <2>1. CASE hasBody
    <3>1. (listed /\ whole) \in BOOLEAN
      OBVIOUS
    <3>2. /\ Truncate(size, max, listed /\ whole) \in Sizes \union {0, ContentSize} \union BodySizes
          /\ max = Infinity \/ Truncate(size, max, listed /\ whole) <= max
      BY <1>1, <3>1, TruncateBounds
    <3> QED
      BY <2>1, <3>2
  <2>2. CASE ~hasBody
    <3>1. cut = 0
      BY <2>2, Zenon
    <3> HIDE DEF cut
    <3>2. max = Infinity \/ max \in Nat
      BY <1>1, Zenon
    <3> QED
      BY <3>1, <3>2
  <2> QED
    BY <2>1, <2>2
<1> HIDE DEF cut
<1>3. len \in {-1, 0, ContentSize} \union Sizes \union BodySizes /\ len \in {-1, cut}
  BY <1>2
<1> HIDE DEF len
<1>4. a \in Request
  <2>1. q \in Request
    BY DEF RequestOK
  <2>2. pc \in Waiting \union {"new", "answered", "dropped"}
    BY DEF Waiting
  <2>3. len \in {-1, 0, ContentSize} \union Sizes \union BodySizes
    BY <1>3
  <2> QED
    <3> DEFINE P == Waiting \union {"new", "answered", "dropped"}
               U == -1..MaxUpdates
               K == {"none", "response", "scripted", "error", "timeout"}
               S == Sizes \union {0, ContentSize} \union BodySizes
               N == {-1, 0, ContentSize} \union Sizes \union BodySizes
               M == {Infinity, ContentSize} \union BodySizes
               E == {"silent", "answeredEarly", "closedEarly", "answered", "closed"}
               R == [pc: P, update: U, kind: K, size: S, length: N, limit: M, peer: E]
    <3>1. Request = R
      BY Zenon DEF Request
    <3>2. pc \in P /\ "response" \in K /\ cut \in S /\ len \in N /\ max \in M /\ u \in U
      BY <1>1, <1>2, <2>2, <2>3
    <3> HIDE DEF P, U, K, S, N, M, E
    <3>3. a \in R
      BY <2>1, <3>1, <3>2, Zenon
    <3> QED
      BY <3>1, <3>3
<1>5. /\ a.pc = pc /\ a.kind = "response" /\ a.size = cut
      /\ a.length = len /\ a.limit = max
  BY DEF RequestOK, Request
<1> HIDE DEF a
<1>6. RequestOK(a)
  BY <1>2, <1>3, <1>4, <1>5 DEF RequestOK, WithinLimit
<1> QED
  BY <1>6, Zenon DEF AfterCurl, a, len, cut, max

\* The update of a script is one of those that there were.
LEMMA FoundUpdate ==
  ASSUME StoreInv, NEW i \in Ids, Find(i)
  PROVE  /\ store[i].update \in 0..MaxUpdates
         /\ store[i].update = IF given # {} THEN 0 ELSE updates
  BY DEF StoreInv, Find, StoreIsOneUpdate, Loaded, Script

\* The steps of a request over HTTP.
LEMMA HttpOK ==
  ASSUME RequestsInv, NEW r \in Requests, RequestDropped(r) \/ HttpNext(r)
  PROVE  RequestsInv'
<1> DEFINE q == req[r]
<1>1. RequestOK(q) /\ q \in Request /\ StoreInv
  BY DEF RequestsInv
<1>2. q.pc \in {"new", "handle", "curl"} => Unanswered(q)
  BY <1>1 DEF RequestOK
<1>3. CASE RequestDropped(r)
  BY <1>1, <1>3, MovesOK, SetRequest, Zenon DEF RequestDropped
<1>4. CASE HttpReceived(r)
  <2>1. Unanswered(q)
    BY <1>2, <1>4, Zenon DEF HttpReceived, At
  <2>2. CASE Set(r, [q EXCEPT !.pc = "curl"])
    BY <1>1, <2>1, <2>2, MovesOK, SetRequest, Zenon
  <2>3. ASSUME NEW i \in Ids, Find(i),
               Set(r, [q EXCEPT !.pc = "handle", !.update = store[i].update])
        PROVE  RequestsInv'
    <3>1. store[i].update \in 0..MaxUpdates
      BY <1>1, <2>3, FoundUpdate
    <3>2. RequestOK([q EXCEPT !.pc = "handle", !.update = store[i].update])
      BY <1>1, <2>1, <3>1, MovesOK, Zenon
    <3> QED
      BY <2>3, <3>2, SetRequest
  <2> QED
    BY <1>4, <2>2, <2>3, Zenon DEF HttpReceived
<1>5. CASE HandleReturns(r)
  BY <1>1, <1>2, <1>5, MovesOK, SetRequest, Zenon DEF HandleReturns, At
<1>6. CASE HandleFails(r) \/ CurlFails(r) \/ OnResponseFails(r)
  BY <1>1, <1>6, MovesOK, SetRequest, Zenon DEF HandleFails, CurlFails, OnResponseFails, Fail
<1>7. ASSUME NEW hasBody \in BOOLEAN, NEW listed \in BOOLEAN, NEW whole \in BOOLEAN,
             NEW size \in Sizes, CurlEnds(r, hasBody, listed, whole, size)
      PROVE  RequestsInv'
  <2> DEFINE max == IF listed THEN maxBodySize ELSE ContentSize
             cut == IF hasBody THEN Truncate(size, max, listed /\ whole) ELSE 0
             len == IF hasBody THEN cut ELSE -1
             answer == [q EXCEPT !.kind = "response", !.size = cut, !.length = len,
                                 !.limit = max]
             Full(pc, u) == [q EXCEPT !.pc = pc, !.kind = "response", !.size = cut,
                               !.length = len, !.limit = max, !.update = u]
  <2>1. \A pc \in {"answered", "onResponse"}, u \in -1..MaxUpdates : RequestOK(Full(pc, u))
    <3>1. \A pc \in {"answered", "onResponse"}, u \in -1..MaxUpdates :
            RequestOK(AfterCurl(q, hasBody, listed, whole, size, pc, u))
      BY <1>1, CurlOK
    <3> QED
      BY <3>1, Zenon DEF AfterCurl
  <2>2. \/ Set(r, [answer EXCEPT !.pc = "answered"])
        \/ \E i \in Ids : Find(i) /\ Set(r, [answer EXCEPT !.pc = "onResponse",
                                                          !.update = store[i].update])
    BY <1>7, Zenon DEF CurlEnds, ResponseScript, ResponseUpdate
  <2> HIDE DEF max, cut, len
  <2>3. CASE Set(r, [answer EXCEPT !.pc = "answered"])
    <3>1. [answer EXCEPT !.pc = "answered"] = Full("answered", q.update)
      BY <1>1, Zenon DEF Request
    <3>2. q.update \in -1..MaxUpdates
      BY <1>1 DEF Request
    <3> HIDE DEF Full, answer
    <3>3. RequestOK([answer EXCEPT !.pc = "answered"])
      BY <2>1, <3>1, <3>2
    <3> QED
      BY <2>3, <3>3, SetRequest
  <2>4. ASSUME NEW i \in Ids, Find(i),
               Set(r, [answer EXCEPT !.pc = "onResponse", !.update = store[i].update])
        PROVE  RequestsInv'
    <3>1. [answer EXCEPT !.pc = "onResponse", !.update = store[i].update]
            = Full("onResponse", store[i].update)
      BY <1>1, Zenon DEF Request
    <3>2. store[i].update \in 0..MaxUpdates
      BY <1>1, <2>4, FoundUpdate
    <3>3. store[i].update \in -1..MaxUpdates
      BY <3>2, RequestsAssumption
    <3> HIDE DEF Full, answer
    <3>4. RequestOK([answer EXCEPT !.pc = "onResponse", !.update = store[i].update])
      BY <2>1, <3>1, <3>3
    <3> QED
      BY <2>4, <3>4, SetRequest
  <2> QED
    BY <2>2, <2>3, <2>4, Zenon
<1>8. CASE OnResponseReturns(r)
  BY <1>1, <1>8, MovesOK, SetRequest, Zenon DEF OnResponseReturns
<1> QED
  BY <1>3, <1>4, <1>5, <1>6, <1>7, <1>8 DEF HttpNext

\* The steps of a request over WS.
LEMMA WsOK ==
  ASSUME RequestsInv, NEW r \in Requests, WsNext(r)
  PROVE  RequestsInv'
<1> DEFINE q == req[r]
<1>1. RequestOK(q) /\ q \in Request
  BY DEF RequestsInv
<1>2. q.pc \in {"new", "connecting", "sending", "consuming"} => Unanswered(q)
  BY <1>1 DEF RequestOK
<1>3. CASE WsReceived(r) \/ WsOpens(r) \/ WsSent(r)
  <2>1. Unanswered(q)
    BY <1>2, <1>3 DEF WsReceived, WsOpens, WsSent, At
  <2>2. \E pc \in {"connecting", "sending", "consuming"} : Set(r, [q EXCEPT !.pc = pc])
    BY <1>3 DEF WsReceived, WsOpens, WsSent
  <2> QED
    BY <1>1, <2>1, <2>2, MovesOK, SetRequest, Zenon
<1>4. CASE WsFails(r) \/ WsSendFails(r)
  BY <1>1, <1>4, MovesOK, SetRequest, Zenon DEF WsFails, WsSendFails, Fail
<1>5. ASSUME NEW what \in {"answeredEarly", "closedEarly"}, WsUnheard(r, what)
      PROVE  RequestsInv'
  BY <1>1, <1>2, <1>5, MovesOK, SetRequest, Zenon DEF WsUnheard, At
<1>6. ASSUME NEW what \in {"answered", "closed"}, WsConsumed(r, what)
      PROVE  RequestsInv'
  BY <1>1, <1>2, <1>6, MovesOK, SetRequest, Zenon DEF WsConsumed, At, Heard
<1>7. CASE WsTimesOut(r)
  BY <1>1, <1>2, <1>7, MovesOK, SetRequest, Zenon DEF WsTimesOut, At
<1> QED
  BY <1>3, <1>4, <1>5, <1>6, <1>7 DEF WsNext

\* Every step preserves the invariant.
LEMMA NextInv == RequestsInv /\ [Next]_vars => RequestsInv'
<1> SUFFICES ASSUME RequestsInv, [Next]_vars PROVE RequestsInv'
  OBVIOUS
<1>1. ASSUME req' = req, StoreInv' PROVE RequestsInv'
  BY <1>1 DEF RequestsInv
<1>2. StoreInv
  BY DEF RequestsInv
<1>3. ASSUME NEW i \in Ids, NEW responds \in BOOLEAN, LoadScript(i, responds)
      PROVE  RequestsInv'
  BY <1>1, <1>2, <1>3, LoadStore DEF LoadScript
<1>4. CASE LoadFails
  BY <1>1, <1>2, <1>4 DEF LoadFails, StoreInv, StoreIsOneUpdate, Loaded
<1>5. CASE Run
  BY <1>1, <1>2, <1>5 DEF Run, StoreInv, StoreIsOneUpdate, Loaded
<1>6. ASSUME NEW payload \in Payloads, ScriptsUpdated(payload) PROVE RequestsInv'
  BY <1>1, <1>2, <1>6, UpdateStore DEF ScriptsUpdated
<1>7. ASSUME NEW n \in BodySizes, LimitsReceived(n) PROVE RequestsInv'
  BY <1>1, <1>2, <1>7 DEF LimitsReceived, StoreInv, StoreIsOneUpdate, Loaded
<1>8. CASE UNCHANGED vars
  BY <1>1, <1>2, <1>8 DEF vars, StoreInv, StoreIsOneUpdate, Loaded
<1>9. ASSUME NEW r \in Requests, WsErrors(r) PROVE RequestsInv'
  BY <1>1, <1>2, <1>9 DEF WsErrors, StoreInv, StoreIsOneUpdate, Loaded
<1> QED
  BY <1>3, <1>4, <1>5, <1>6, <1>7, <1>8, <1>9, HttpOK, WsOK DEF Next

-----------------------------------------------------------------------------
(* Theorems *)

\* The inductive invariant.
THEOREM SpecInvariant == Spec => []RequestsInv
<1> QED
  BY InitInv, NextInv, PTL DEF Spec

\* Every variable keeps its type.
THEOREM SpecTypeOK == Spec => []TypeOK
<1>1. RequestsInv => TypeOK
  BY DEF RequestsInv, StoreInv, TypeOK
<1> QED
  BY <1>1, SpecInvariant, PTL

\* compileScripts() never mixes scripts of the command line and of the cloud,
\* nor of two updates.
THEOREM SpecStoreIsOneUpdate == Spec => []StoreIsOneUpdate
<1>1. RequestsInv => StoreIsOneUpdate
  BY DEF RequestsInv, StoreInv
<1> QED
  BY <1>1, SpecInvariant, PTL

\* executeRequest() answers within the limit that held when the response came.
THEOREM SpecBodyWithinLimit == Spec => []BodyWithinLimit
<1>1. RequestsInv => BodyWithinLimit
  BY DEF RequestsInv, RequestOK, WithinLimit, BodyWithinLimit
<1> QED
  BY <1>1, SpecInvariant, PTL

\* consume() times out only if nothing came that it listens for.
THEOREM SpecTimeoutJustified == Spec => []TimeoutJustified
<1>1. RequestsInv => TimeoutJustified
  BY DEF RequestsInv, RequestOK, TimeoutJustified
<1> QED
  BY <1>1, SpecInvariant, PTL

\* A response is handled by a script of the latest update.
THEOREM SpecLatestScript == Spec => LatestScript
<1> DEFINE Latest(r) == req[r].pc = "curl" /\ req'[r].pc = "onResponse" =>
                          req'[r].update = IF given # {} THEN 0 ELSE updates
<1>1. RequestsInv /\ [Next]_vars => [\A r \in Requests : Latest(r)]_vars
  <2> SUFFICES ASSUME RequestsInv, Next, NEW r \in Requests,
                      req[r].pc = "curl", req'[r].pc = "onResponse"
               PROVE  req'[r].update = IF given # {} THEN 0 ELSE updates
    OBVIOUS
  <2>1. req \in [Requests -> Request] /\ StoreInv
    BY DEF RequestsInv
  <2>2. PICK s \in Requests : RequestDropped(s) \/ HttpNext(s) \/ WsNext(s)
    BY Zenon DEF Next, LoadScript, LoadFails, Run, ScriptsUpdated, LimitsReceived, WsErrors
  <2>3. ASSUME NEW q, Set(s, q) PROVE s = r /\ q.pc = "onResponse"
    BY <2>1, <2>3 DEF Set
  <2>4. req[s].pc = "curl"
    <3>1. \E q : Set(s, q)
      <4>1. RequestDropped(s) => \E q : Set(s, q)
        BY Zenon DEF RequestDropped
      <4>2. WsNext(s) => \E q : Set(s, q)
        BY Zenon DEF WsNext, WsReceived, WsOpens, WsFails, WsSendFails, WsSent,
             WsUnheard, WsConsumed, WsTimesOut, Fail
      <4>3. HttpNext(s) => \E q : Set(s, q)
        <5>1. ASSUME NEW hasBody, NEW listed, NEW whole, NEW size,
                     CurlEnds(s, hasBody, listed, whole, size)
              PROVE  \E q : Set(s, q)
          BY <5>1, Zenon DEF CurlEnds
        <5>2. HttpReceived(s) \/ OnResponseReturns(s) => \E q : Set(s, q)
          BY Zenon DEF HttpReceived, OnResponseReturns
        <5>3. HandleReturns(s) \/ HandleFails(s) \/ CurlFails(s) \/ OnResponseFails(s)
                => \E q : Set(s, q)
          BY Zenon DEF HandleReturns, HandleFails, CurlFails, OnResponseFails, Fail
        <5> QED
          BY <5>1, <5>2, <5>3, Zenon DEF HttpNext
      <4> QED
        BY <2>2, <4>1, <4>2, <4>3
    <3> QED
      BY <2>3, <3>1
  <2>5. PICK hasBody \in BOOLEAN, listed \in BOOLEAN, whole \in BOOLEAN, size \in Sizes :
          CurlEnds(s, hasBody, listed, whole, size)
    <3>1. req[s] \in Request
      BY <2>1
    <3>2. ~RequestDropped(s) /\ ~WsNext(s)
      BY <2>4 DEF RequestDropped, WsNext, WsReceived, WsOpens, WsFails, WsSendFails,
           WsSent, WsUnheard, WsConsumed, WsTimesOut, At
    <3>3. /\ ~HttpReceived(s) /\ ~HandleReturns(s) /\ ~HandleFails(s)
          /\ ~OnResponseReturns(s) /\ ~OnResponseFails(s)
      BY <2>4 DEF HttpReceived, HandleReturns, HandleFails, OnResponseReturns,
           OnResponseFails, At
    <3>4. ~CurlFails(s)
      <4> DEFINE q == [req[s] EXCEPT !.pc = "answered", !.kind = "error"]
      <4>1. q.pc = "answered"
        BY <3>1 DEF Request
      <4>2. CurlFails(s) => Set(s, q)
        BY Zenon DEF CurlFails, Fail
      <4> HIDE DEF q
      <4> QED
        BY <2>3, <4>1, <4>2
    <3> QED
      BY <2>2, <3>2, <3>3, <3>4, Zenon DEF HttpNext
  <2> DEFINE max == IF listed THEN maxBodySize ELSE ContentSize
             cut == IF hasBody THEN Truncate(size, max, listed /\ whole) ELSE 0
             len == IF hasBody THEN cut ELSE -1
             answer == [req[s] EXCEPT !.kind = "response", !.size = cut, !.length = len,
                                      !.limit = max]
  <2>6. \/ Set(s, [answer EXCEPT !.pc = "answered"])
        \/ \E i \in Ids : Find(i) /\ Set(s, [answer EXCEPT !.pc = "onResponse",
                                                          !.update = store[i].update])
    BY <2>5, Zenon DEF CurlEnds, ResponseScript, ResponseUpdate
  <2> HIDE DEF max, cut, len
  <2>7. PICK i \in Ids : Find(i) /\ Set(s, [answer EXCEPT !.pc = "onResponse",
                                                       !.update = store[i].update])
    <3>1. ~Set(s, [answer EXCEPT !.pc = "answered"])
      <4>1. [answer EXCEPT !.pc = "answered"].pc = "answered"
        BY <2>1 DEF Request
      <4> HIDE DEF answer
      <4> QED
        BY <2>3, <4>1, Zenon
    <3> QED
      BY <2>6, <3>1, Zenon
  <2>8. [answer EXCEPT !.pc = "onResponse", !.update = store[i].update].update
          = store[i].update
    BY <2>1 DEF Request
  <2> HIDE DEF answer
  <2>9. req'[r] = [answer EXCEPT !.pc = "onResponse", !.update = store[i].update]
    BY <2>1, <2>3, <2>7 DEF Set
  <2> QED
    BY <2>1, <2>7, <2>8, <2>9, FoundUpdate
<1> QED
  BY <1>1, SpecInvariant, PTL DEF Spec, LatestScript

-----------------------------------------------------------------------------
(* The progress of a request *)

\* What a step of the request q makes of it: v has come further.
Further(q, v) ==
  /\ q.pc \notin {"answered", "dropped"}
  /\ \/ v.pc \in DOMAIN Stage /\ Stage[v.pc] > Stage[q.pc] /\ v.peer \in DOMAIN PeerStage
     \/ v.pc = q.pc /\ v.peer \in DOMAIN PeerStage /\ PeerStage[v.peer] > PeerStage[q.peer]

\* The stages, and then what has been heard of the target, order the steps.
LEMMA FurtherIsMore ==
  ASSUME NEW q \in Request, NEW v, Further(q, v)
  PROVE  Progress(v) > Progress(q)
<1>1. q.pc \in DOMAIN Stage /\ q.peer \in DOMAIN PeerStage
  BY DEF Request, Waiting, Stage, PeerStage
<1>2. \A x \in DOMAIN Stage : Stage[x] \in 0..4
  BY DEF Stage
<1>3. \A x \in DOMAIN PeerStage : PeerStage[x] \in 0..2
  BY DEF PeerStage
<1> HIDE DEF Stage, PeerStage
<1>4. CASE v.pc \in DOMAIN Stage /\ Stage[v.pc] > Stage[q.pc] /\ v.peer \in DOMAIN PeerStage
  <2>1. /\ Stage[v.pc] \in 0..4 /\ Stage[q.pc] \in 0..4
        /\ PeerStage[v.peer] \in 0..2 /\ PeerStage[q.peer] \in 0..2
    BY <1>1, <1>2, <1>3, <1>4
  <2> QED
    BY <1>4, <2>1 DEF Progress
<1>5. CASE /\ v.pc = q.pc /\ v.peer \in DOMAIN PeerStage
           /\ PeerStage[v.peer] > PeerStage[q.peer]
  <2>1. /\ Stage[v.pc] = Stage[q.pc] /\ Stage[q.pc] \in 0..4
        /\ PeerStage[v.peer] \in 0..2 /\ PeerStage[q.peer] \in 0..2
    BY <1>1, <1>2, <1>3, <1>5
  <2> QED
    BY <1>5, <2>1 DEF Progress
<1> QED
  BY <1>4, <1>5 DEF Further

\* A step of the request r leaves it as it was or takes it further.
Goes(r) == \E v : Set(r, v) /\ (v = req[r] \/ Further(req[r], v))

\* The steps over HTTP.
LEMMA HttpGoes ==
  ASSUME NEW r, req[r] \in Request, RequestDropped(r) \/ HttpNext(r)
  PROVE  Goes(r)
<1> DEFINE q == req[r]
<1>1. q.peer \in DOMAIN PeerStage
  BY DEF Request, PeerStage
<1>2. ASSUME NEW v, Set(r, v), v.pc \in DOMAIN Stage, q.pc \in DOMAIN Stage,
             Stage[v.pc] > Stage[q.pc], v.peer = q.peer,
             q.pc \notin {"answered", "dropped"}
      PROVE  Goes(r)
  BY <1>1, <1>2 DEF Goes, Further
<1>3. CASE RequestDropped(r)
  <2> DEFINE v == [q EXCEPT !.pc = "dropped"]
  <2>1. Set(r, v) /\ q.pc = "new"
    BY <1>3 DEF RequestDropped, At
  <2>2. v.pc = "dropped" /\ v.peer = q.peer
    BY DEF Request
  <2> HIDE DEF v
  <2> QED
    BY <1>2, <2>1, <2>2 DEF Stage
<1>4. CASE HttpReceived(r)
  <2>1. PICK v : Set(r, v) /\ v.pc \in {"curl", "handle"} /\ v.peer = q.peer
    <3> DEFINE c == [q EXCEPT !.pc = "curl"]
               h(u) == [q EXCEPT !.pc = "handle", !.update = u]
    <3>1. /\ c.pc = "curl" /\ c.peer = q.peer
          /\ \A u : h(u).pc = "handle" /\ h(u).peer = q.peer
      BY DEF Request
    <3>2. Set(r, c) \/ \E u : Set(r, h(u))
      BY <1>4, Zenon DEF HttpReceived
    <3> HIDE DEF c, h
    <3> QED
      BY <3>1, <3>2
  <2>2. q.pc = "new"
    BY <1>4, Zenon DEF HttpReceived, At
  <2> QED
    BY <1>2, <2>1, <2>2 DEF Stage
<1>5. CASE HandleReturns(r)
  <2> DEFINE v == [q EXCEPT !.pc = "curl"]
  <2>1. Set(r, v) /\ q.pc = "handle"
    BY <1>5 DEF HandleReturns, At
  <2>2. v.pc = "curl" /\ v.peer = q.peer
    BY DEF Request
  <2> HIDE DEF v
  <2> QED
    BY <1>2, <2>1, <2>2 DEF Stage
<1>6. CASE HandleFails(r) \/ CurlFails(r) \/ OnResponseFails(r)
  <2> DEFINE v == [q EXCEPT !.pc = "answered", !.kind = "error"]
  <2>1. Set(r, v) /\ q.pc \in {"handle", "curl", "onResponse"}
    BY <1>6 DEF HandleFails, CurlFails, OnResponseFails, Fail, At
  <2>2. v.pc = "answered" /\ v.peer = q.peer
    BY DEF Request
  <2> HIDE DEF v
  <2> QED
    BY <1>2, <2>1, <2>2 DEF Stage
<1>7. ASSUME NEW hasBody \in BOOLEAN, NEW listed \in BOOLEAN, NEW whole \in BOOLEAN,
             NEW size \in Sizes, CurlEnds(r, hasBody, listed, whole, size)
      PROVE  Goes(r)
  <2> DEFINE max == IF listed THEN maxBodySize ELSE ContentSize
             cut == IF hasBody THEN Truncate(size, max, listed /\ whole) ELSE 0
             len == IF hasBody THEN cut ELSE -1
             answer == [q EXCEPT !.kind = "response", !.size = cut, !.length = len,
                                 !.limit = max]
             a == [answer EXCEPT !.pc = "answered"]
             o(u) == [answer EXCEPT !.pc = "onResponse", !.update = u]
  <2>1. Set(r, a) \/ \E i \in Ids : Set(r, o(ResponseUpdate(r, i)))
    BY <1>7, Zenon DEF CurlEnds
  <2> HIDE DEF max, cut, len
  <2>2. /\ a.pc = "answered" /\ a.peer = q.peer
        /\ \A u : o(u).pc = "onResponse" /\ o(u).peer = q.peer
    BY DEF Request
  <2> HIDE DEF a, o
  <2>3. PICK v : Set(r, v) /\ v.pc \in {"answered", "onResponse"} /\ v.peer = q.peer
    BY <2>1, <2>2
  <2>4. q.pc = "curl"
    BY <1>7, Zenon DEF CurlEnds, At
  <2> QED
    BY <1>2, <2>3, <2>4 DEF Stage
<1>8. CASE OnResponseReturns(r)
  <2> DEFINE a == [q EXCEPT !.pc = "answered"]
             n(size) == [q EXCEPT !.pc = "answered", !.kind = "scripted", !.size = size]
  <2>1. q.pc = "onResponse" /\ (Set(r, a) \/ \E size : Set(r, n(size)))
    BY <1>8, Zenon DEF OnResponseReturns, At
  <2>2. /\ a.pc = "answered" /\ a.peer = q.peer
        /\ \A size : n(size).pc = "answered" /\ n(size).peer = q.peer
    BY DEF Request
  <2> HIDE DEF a, n
  <2>3. PICK v : Set(r, v) /\ v.pc = "answered" /\ v.peer = q.peer
    BY <2>1, <2>2
  <2> QED
    BY <1>2, <2>1, <2>3 DEF Stage
<1> QED
  BY <1>3, <1>4, <1>5, <1>6, <1>7, <1>8 DEF HttpNext

\* The steps over WS.
LEMMA WsGoes ==
  ASSUME NEW r, RequestOK(req[r]), WsNext(r)
  PROVE  Goes(r)
<1> DEFINE q == req[r]
<1>1. q \in Request /\ q.peer \in DOMAIN PeerStage
  BY DEF RequestOK, Request, PeerStage
<1>2. ASSUME NEW v, Set(r, v), v.pc \in DOMAIN Stage, q.pc \in DOMAIN Stage,
             Stage[v.pc] > Stage[q.pc], v.peer \in DOMAIN PeerStage,
             q.pc \notin {"answered", "dropped"}
      PROVE  Goes(r)
  BY <1>1, <1>2 DEF Goes, Further
<1>3. CASE WsReceived(r) \/ WsOpens(r) \/ WsSent(r)
  <2> DEFINE v(pc) == [q EXCEPT !.pc = pc]
  <2>1. \/ q.pc = "new" /\ Set(r, v("connecting"))
        \/ q.pc = "connecting" /\ Set(r, v("sending"))
        \/ q.pc = "sending" /\ Set(r, v("consuming"))
    BY <1>3 DEF WsReceived, WsOpens, WsSent, At
  <2>2. \A pc : v(pc).pc = pc /\ v(pc).peer = q.peer
    BY <1>1 DEF Request
  <2> HIDE DEF v
  <2> QED
    BY <1>1, <1>2, <2>1, <2>2 DEF Stage
<1>4. CASE WsFails(r) \/ WsSendFails(r) \/ WsTimesOut(r)
  <2> DEFINE v(kind) == [q EXCEPT !.pc = "answered", !.kind = kind]
  <2>1. /\ q.pc \in {"connecting", "sending", "consuming"}
        /\ Set(r, v("error")) \/ Set(r, v("timeout"))
    BY <1>4 DEF WsFails, WsSendFails, WsTimesOut, Fail, At
  <2>2. \A kind : v(kind).pc = "answered" /\ v(kind).peer = q.peer
    BY <1>1 DEF Request
  <2> HIDE DEF v
  <2> QED
    BY <1>1, <1>2, <2>1, <2>2 DEF Stage
<1>5. ASSUME NEW what \in {"answeredEarly", "closedEarly"}, WsUnheard(r, what)
      PROVE  Goes(r)
  <2> DEFINE v == [q EXCEPT !.peer = what]
  <2>1. Set(r, v) /\ q.pc = "sending" /\ q.peer # "closedEarly"
    BY <1>5 DEF WsUnheard, At
  <2>2. v.pc = q.pc /\ v.peer = what /\ (what = q.peer => v = q)
    BY <1>1 DEF Request
  <2>3. q.peer \in {"silent", "answeredEarly"}
    BY <2>1 DEF RequestOK, Unanswered
  <2> HIDE DEF v
  <2> QED
    BY <1>5, <2>1, <2>2, <2>3 DEF Goes, Further, PeerStage
<1>6. ASSUME NEW what \in {"answered", "closed"}, WsConsumed(r, what)
      PROVE  Goes(r)
  <2> DEFINE v == [q EXCEPT !.peer = what, !.pc = "answered", !.kind = "response"]
  <2>1. Set(r, v) /\ q.pc = "consuming"
    BY <1>6 DEF WsConsumed, At, Heard
  <2>2. v.pc = "answered" /\ v.peer = what
    BY <1>1 DEF Request
  <2> HIDE DEF v
  <2> QED
    BY <1>2, <1>6, <2>1, <2>2 DEF Stage, PeerStage
<1> QED
  BY <1>3, <1>4, <1>5, <1>6 DEF WsNext

\* Requests only go on, and each is answered once, for any number of them.
THEOREM SpecRequestAdvances == Spec => RequestAdvances
<1> DEFINE Advances == \A r \in Requests : req'[r] # req[r] =>
                         /\ req[r].pc \notin {"answered", "dropped"}
                         /\ Progress(req'[r]) > Progress(req[r])
<1>1. RequestsInv /\ [Next]_vars => [Advances]_vars
  <2> SUFFICES ASSUME RequestsInv, Next, NEW r \in Requests, req'[r] # req[r]
               PROVE  /\ req[r].pc \notin {"answered", "dropped"}
                      /\ Progress(req'[r]) > Progress(req[r])
    OBVIOUS
  <2>1. req \in [Requests -> Request] /\ \A s \in Requests : RequestOK(req[s])
    BY DEF RequestsInv
  <2>2. PICK s \in Requests : RequestDropped(s) \/ HttpNext(s) \/ WsNext(s)
    BY Zenon DEF Next, LoadScript, LoadFails, Run, ScriptsUpdated, LimitsReceived, WsErrors
  <2>3. Goes(s)
    BY <2>1, <2>2, HttpGoes, WsGoes
  <2>4. PICK v : Set(s, v) /\ (v = req[s] \/ Further(req[s], v))
    BY <2>3 DEF Goes
  <2>5. s = r /\ req'[r] = v
    BY <2>1, <2>4 DEF Set
  <2>6. Further(req[r], v)
    BY <2>4, <2>5
  <2> QED
    BY <2>1, <2>5, <2>6, FurtherIsMore DEF Further
<1> QED
  BY <1>1, SpecInvariant, PTL DEF Spec, RequestAdvances
=============================================================================
