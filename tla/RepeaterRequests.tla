-------------------------- MODULE RepeaterRequests --------------------------
(***************************************************************************)
(* What a Repeater does with the events of the cloud while it is           *)
(* connected: requests, which it sends to their targets and acknowledges   *)
(* with the response, and updates of the scripts and of the limits, which  *)
(* come in between.                                                        *)
(*                                                                         *)
(* A request for HTTP passes through the `handle` function of the script   *)
(* of its host, curl, the truncation of the body and the `onResponse`      *)
(* function of the script; one for WS through a handshake, a frame out and *)
(* a frame in.  Everything between two awaits is one step, so that events  *)
(* come in at the awaits only: while a script, curl or a socket is at work.*)
(* Certificates are the subject of the module Certificates: here no        *)
(* certificate matches.  There is one target host.                         *)
(***************************************************************************)
EXTENDS Integers, Sequences, FiniteSets

CONSTANTS
  Requests,   \* names of the events REQUEST
  Ids,        \* wildcards of scripts
  Matching,   \* those that match the host of the requests
  Locals,     \* what --scripts may be given: sets of wildcards
  Payloads,   \* scripts of the cloud: sequences of [id, compiles, responds]
  Sizes,      \* sizes of a body
  BodySizes,  \* values of maxBodySize
  ContentSize,\* the limit for the types that are not in whitelistMimes
  MaxUpdates  \* bound: the number of updates of the scripts

ASSUME RequestsAssumption ==
  /\ IsFiniteSet(Ids) /\ Matching \subseteq Ids /\ Locals \subseteq SUBSET Ids
  /\ \A p \in Payloads : p \in Seq([id: Ids, compiles: BOOLEAN, responds: BOOLEAN])
  /\ Sizes \subseteq Nat /\ BodySizes \subseteq Nat /\ ContentSize \in Nat
  /\ MaxUpdates \in Nat

VARIABLES
  phase,    \* of the command: "loading" the local scripts, "running", "failed",
            \* or "crashed" by an error that nobody catches
  given,    \* the wildcards of the scripts given to --scripts
  store,    \* of DefaultVirtualScripts: a script or NoScript for each wildcard
  updates,  \* the number of SCRIPTS_UPDATED so far
  maxBodySize,
  req       \* the requests: see Request

vars == <<phase, given, store, updates, maxBodySize, req>>

Infinity == -1

NoScript == [type |-> "none", update |-> 0, at |-> 0, responds |-> FALSE]
Script == [type: {"none", "local", "remote"}, update: 0..MaxUpdates, at: Nat,
           responds: BOOLEAN]

Waiting == {"handle", "curl", "onResponse", "connecting", "sending", "consuming"}

(* pc: where the request is; update: that of the script which handled it,  *)
(* -1 for none; kind, size and length: the answer, the size of its body    *)
(* and its content-length (-1: as the target sent it); limit: that which   *)
(* held for the body (Infinity: none); peer: what the target of a WS       *)
(* request has done, early if before the executor listened.                *)
Request == [pc: Waiting \union {"new", "answered", "dropped"},
            update: -1..MaxUpdates,
            kind: {"none", "response", "scripted", "error", "timeout"},
            size: Sizes \union {0, ContentSize} \union BodySizes,
            length: {-1, 0, ContentSize} \union Sizes \union BodySizes,
            limit: {Infinity, ContentSize} \union BodySizes,
            peer: {"silent", "answeredEarly", "closedEarly", "answered", "closed"}]

TypeOK ==
  /\ phase \in {"loading", "running", "failed", "crashed"}
  /\ given \in Locals
  /\ store \in [Ids -> Script]
  /\ updates \in 0..MaxUpdates
  /\ maxBodySize \in BodySizes \union {Infinity}
  /\ req \in [Requests -> Request]

Init ==
  /\ phase = "loading"
  /\ given \in Locals
  /\ store = [i \in Ids |-> NoScript]
  /\ updates = 0
  /\ maxBodySize = Infinity
  /\ req = [r \in Requests |->
       [pc |-> "new", update |-> -1, kind |-> "none", size |-> 0,
        length |-> -1, limit |-> Infinity, peer |-> "silent"]]

-----------------------------------------------------------------------------
(* Scripts *)

Loaded(i) == store[i].type # "none"

\* find(): the first script, in the order of their insertion, that matches.
Find(i) ==
  /\ i \in Matching /\ Loaded(i)
  /\ \A j \in Matching : Loaded(j) => store[i].at <= store[j].at

\* FSScriptLoader reads the files at the same time: any may be the first.
LoadScript(i, responds) ==
  /\ phase = "loading" /\ i \in given /\ ~Loaded(i)
  /\ store' = [store EXCEPT ![i] =
       [type |-> "local", update |-> 0, responds |-> responds,
        at |-> Cardinality({j \in Ids : Loaded(j)}) + 1]]
  /\ UNCHANGED <<phase, given, updates, maxBodySize, req>>

\* A file that cannot be read, or does not compile, fails the command.
LoadFails ==
  /\ phase = "loading" /\ \E i \in given : ~Loaded(i)
  /\ phase' = "failed"
  /\ UNCHANGED <<given, store, updates, maxBodySize, req>>

Run ==
  /\ phase = "loading" /\ \A i \in given : Loaded(i)
  /\ phase' = "running"
  /\ UNCHANGED <<given, store, updates, maxBodySize, req>>

\* Fault: the scripts of the last update are kept.
ClearNothing == store

\* clear(REMOTE)
Clear == [i \in Ids |-> IF store[i].type = "remote" THEN NoScript ELSE store[i]]

\* compileScripts(): set() throws at the first script that does not compile,
\* after those before it are in.
CompileScripts(payload) ==
  LET cleared == Clear
      Compiled(k) == \A j \in 1..k : payload[j].compiles
  IN IF \E i \in Ids : cleared[i].type # "none"
     THEN cleared
     ELSE [i \in Ids |->
            IF \E k \in 1..Len(payload) : payload[k].id = i /\ Compiled(k)
            THEN LET k == CHOOSE k \in 1..Len(payload) : payload[k].id = i
                 IN [type |-> "remote", update |-> updates + 1, at |-> k,
                     responds |-> payload[k].responds]
            ELSE cleared[i]]

\* SCRIPTS_UPDATED
ScriptsUpdated(payload) ==
  /\ phase = "running" /\ updates < MaxUpdates
  /\ store' = CompileScripts(payload)
  /\ updates' = updates + 1
  /\ UNCHANGED <<phase, given, maxBodySize, req>>

\* LIMITS: the options are shared with the requests under way.
LimitsReceived(n) ==
  /\ phase = "running"
  /\ maxBodySize' = n
  /\ UNCHANGED <<phase, given, store, updates, req>>

-----------------------------------------------------------------------------
(* Requests over HTTP *)

Set(r, value) ==
  /\ req' = [req EXCEPT ![r] = value]
  /\ UNCHANGED <<phase, given, store, updates, maxBodySize>>

At(r, pc) == phase = "running" /\ req[r].pc = pc

\* The constructor of Request throws, or no executor has the protocol:
\* wrapEventListener logs the error and does not call back.
RequestDropped(r) ==
  /\ At(r, "new")
  /\ Set(r, [req[r] EXCEPT !.pc = "dropped"])

\* requestReceived(), execute() and transformScript() up to the first await.
HttpReceived(r) ==
  /\ At(r, "new")
  /\ \/ /\ ~\E i \in Ids : Find(i)
        /\ Set(r, [req[r] EXCEPT !.pc = "curl"])
     \/ \E i \in Ids :
          /\ Find(i)
          /\ Set(r, [req[r] EXCEPT !.pc = "handle", !.update = store[i].update])

\* Fault: execute() lets the error through.
FailUncaught(r) == Set(r, [req[r] EXCEPT !.pc = "dropped"])

\* The catch of execute(): the error is the answer.
Fail(r) == Set(r, [req[r] EXCEPT !.pc = "answered", !.kind = "error"])

\* The script returns a request, or something else, or throws.
HandleReturns(r) ==
  /\ At(r, "handle")
  /\ Set(r, [req[r] EXCEPT !.pc = "curl"])

HandleFails(r) == At(r, "handle") /\ Fail(r)

CurlFails(r) == At(r, "curl") /\ Fail(r)

\* Fault: a body that is one byte above the limit is let through.
TruncateOffByOne(size, max, whole) ==
  IF max = Infinity \/ size <= max + 1 THEN size ELSE IF whole THEN 0 ELSE max

\* truncateBody(): cut, or omitted where a part of it is of no use.
Truncate(size, max, whole) ==
  IF max = Infinity \/ size <= max THEN size ELSE IF whole THEN 0 ELSE max

\* handleResponseScript(): the script of the host as of now.
ResponseScript(i) == Find(i) /\ store[i].responds

\* Fault: the script that handled the request is kept for the response.
ResponseUpdateKept(r, i) ==
  IF req[r].update = -1 THEN store[i].update ELSE req[r].update

\* The update that the code of the response's script comes from.
ResponseUpdate(r, i) == store[i].update

\* executeRequest() after curl: the body is cut to the limit as of now, and
\* the script looked up again. HEAD, 204 and the like have no body.
CurlEnds(r, hasBody, listed, whole, size) ==
  /\ At(r, "curl")
  /\ LET max == IF listed THEN maxBodySize ELSE ContentSize
         cut == IF hasBody THEN Truncate(size, max, listed /\ whole) ELSE 0
         answer == [req[r] EXCEPT !.kind = "response", !.size = cut,
                      !.length = IF hasBody THEN cut ELSE -1,
                      !.limit = max]
     IN \/ /\ ~\E i \in Ids : ResponseScript(i)
           /\ Set(r, [answer EXCEPT !.pc = "answered"])
        \/ \E i \in Ids :
             /\ ResponseScript(i)
             /\ Set(r, [answer EXCEPT !.pc = "onResponse",
                      !.update = ResponseUpdate(r, i)])

\* onResponse returns nothing, or what replaces the body.
OnResponseReturns(r) ==
  /\ At(r, "onResponse")
  /\ \/ Set(r, [req[r] EXCEPT !.pc = "answered"])
     \/ \E size \in Sizes :
          Set(r, [req[r] EXCEPT !.pc = "answered", !.kind = "scripted", !.size = size])

OnResponseFails(r) == At(r, "onResponse") /\ Fail(r)

-----------------------------------------------------------------------------
(* Requests over WS *)

WsReceived(r) ==
  /\ At(r, "new")
  /\ Set(r, [req[r] EXCEPT !.pc = "connecting"])

\* `open` and `upgrade`.
WsOpens(r) == At(r, "connecting") /\ Set(r, [req[r] EXCEPT !.pc = "sending"])

\* `error` while connect() or consume() listens to it, of a handshake that
\* takes too long for one.
WsFails(r) ==
  /\ At(r, "connecting") \/ At(r, "consuming")
  /\ Fail(r)

\* `error` in between, of a frame that the receiver cannot read for one: connect()
\* has taken its listeners off, so that it is thrown and ends the process.
WsErrors(r) ==
  /\ At(r, "sending")
  /\ phase' = "crashed"
  /\ UNCHANGED <<given, store, updates, maxBodySize, req>>

\* send() calls back with an error.
WsSendFails(r) == At(r, "sending") /\ Fail(r)

\* The frame is out; the timer starts and consume() listens.
WsSent(r) == At(r, "sending") /\ Set(r, [req[r] EXCEPT !.pc = "consuming"])

\* A frame or the end of the connection before consume() listens is lost.
WsUnheard(r, what) ==
  /\ At(r, "sending") /\ req[r].peer # "closedEarly"
  /\ Set(r, [req[r] EXCEPT !.peer = what])

\* Fault: consume() does not wait for `close`.
HeardMessages == {"answered"}

\* What consume() races for.
Heard == {"answered", "closed"}

\* A frame that matches, or the end of the connection.
WsConsumed(r, what) ==
  /\ At(r, "consuming") /\ req[r].peer \in {"silent", "answeredEarly"}
  /\ Set(r, IF what \in Heard
            THEN [req[r] EXCEPT !.peer = what, !.pc = "answered", !.kind = "response"]
            ELSE [req[r] EXCEPT !.peer = what])

\* The timer emits `error` with ETIMEDOUT.
WsTimesOut(r) ==
  /\ At(r, "consuming")
  /\ Set(r, [req[r] EXCEPT !.pc = "answered", !.kind = "timeout"])

-----------------------------------------------------------------------------
HttpNext(r) ==
  \/ HttpReceived(r)
  \/ HandleReturns(r) \/ HandleFails(r)
  \/ CurlFails(r)
  \/ \E hasBody, listed, whole \in BOOLEAN, size \in Sizes :
       CurlEnds(r, hasBody, listed, whole, size)
  \/ OnResponseReturns(r) \/ OnResponseFails(r)

WsNext(r) ==
  \/ WsReceived(r) \/ WsOpens(r) \/ WsFails(r)
  \/ WsSent(r) \/ WsSendFails(r)
  \/ \E what \in {"answeredEarly", "closedEarly"} : WsUnheard(r, what)
  \/ \E what \in {"answered", "closed"} : WsConsumed(r, what)
  \/ WsTimesOut(r)

Next ==
  \/ \E i \in Ids, responds \in BOOLEAN : LoadScript(i, responds)
  \/ LoadFails \/ Run
  \/ \E payload \in Payloads : ScriptsUpdated(payload)
  \/ \E n \in BodySizes : LimitsReceived(n)
  \/ \E r \in Requests : RequestDropped(r) \/ HttpNext(r) \/ WsNext(r) \/ WsErrors(r)

Spec == Init /\ [][Next]_vars

(* curl, the handshake of a WebSocket and the wait for its frame have      *)
(* timeouts, and end. The functions of a script have none, nor has send(): *)
(* the timer of the frame is set after it, and a target that does not read *)
(* may keep it waiting for ever.                                           *)
Fairness ==
  \A r \in Requests :
    /\ WF_vars(CurlFails(r) \/ \E hasBody, listed, whole \in BOOLEAN, size \in Sizes :
                                CurlEnds(r, hasBody, listed, whole, size))
    /\ WF_vars(WsOpens(r) \/ WsFails(r))
    /\ WF_vars(WsTimesOut(r))

-----------------------------------------------------------------------------
(* Properties *)

\* The scripts are the local ones, or those of the latest update of the cloud:
\* never of both, nor of two updates, also when one of them does not compile
\* and the rest of its update is left out (compileScripts).
StoreIsOneUpdate ==
  \A i \in Ids : Loaded(i) =>
    IF given # {} THEN i \in given /\ store[i].type = "local"
                  ELSE store[i].type = "remote" /\ store[i].update = updates

\* A response is handled by a script of the update that is the latest when it
\* comes in, whichever one handled its request (handleResponseScript).
LatestScript ==
  [][\A r \in Requests :
       req[r].pc = "curl" /\ req'[r].pc = "onResponse" =>
         req'[r].update = IF given # {} THEN 0 ELSE updates]_vars

\* An answer over HTTP that no script changed is within the limit that held
\* when its response came in, and its content-length is the size of its body,
\* unless the response cannot have one (truncateResponse).
BodyWithinLimit ==
  \A r \in Requests : req[r].kind = "response" =>
    /\ req[r].limit = Infinity \/ req[r].size <= req[r].limit
    /\ req[r].length \in {-1, req[r].size}

\* A WS request times out only if its target, since the executor listened,
\* neither sent a frame that matches nor closed the connection (consume).
TimeoutJustified ==
  \A r \in Requests :
    req[r].kind = "timeout" =>
      req[r].peer \in {"silent", "answeredEarly", "closedEarly"}

Stage == [new |-> 0, handle |-> 1, curl |-> 2, onResponse |-> 3,
          connecting |-> 1, sending |-> 2, consuming |-> 3, answered |-> 4, dropped |-> 4]

PeerStage == [silent |-> 0, answeredEarly |-> 1, closedEarly |-> 2, answered |-> 2,
              closed |-> 2]

\* How far a request has come.
Progress(q) == 3 * Stage[q.pc] + PeerStage[q.peer]

\* Whatever events come in between, a request only ever goes on, for at most
\* as many steps as there are stages, and its answer is the only one: what is
\* late (a frame, the timer, the return of a script) changes nothing.
RequestAdvances ==
  [][\A r \in Requests : req'[r] # req[r] =>
       /\ req[r].pc \notin {"answered", "dropped"}
       /\ Progress(req'[r]) > Progress(req[r])]_vars

\* A request that an executor has taken is acknowledged, with an error if need
\* be, as long as the Repeater lives. Otherwise it stays for ever where nothing
\* bounds its time: in one of the functions of a script, or in send().
Acknowledged ==
  \A r \in Requests :
    req[r].pc \in Waiting ~>
      \/ req[r].pc = "answered"
      \/ phase = "crashed"
      \/ \E pc \in {"handle", "onResponse", "sending"} : [](req[r].pc = pc)
=============================================================================
