----------------------------- MODULE NetworkTest -----------------------------
(***************************************************************************)
(* Network tests: the command hub of a Repeater starts a second CLI        *)
(* process, `configure --ping` or `configure --traceroute`, and talks to   *)
(* its wizard through pipes as a person would: it looks for the questions  *)
(* in what the wizard prints, types the answers, and ends stdin when it    *)
(* sees the last message.  Without those flags a person answers the same   *)
(* wizard, which then also asks for and verifies the tokens.               *)
(*                                                                         *)
(* A message of the wizard is printed in two fragments, because a pipe may *)
(* hand over any prefix of what is in it, and the hub looks at one chunk   *)
(* at a time.  Prompts, wording and the text of the report are left out.   *)
(***************************************************************************)
EXTENDS Traceroute, Sequences

CONSTANTS
  Urls,       \* the number of URLs in the answer to the first question
  PoolLimit   \* the 250 of processPing

ASSUME NetworkTestAssumption == Urls \in Nat /\ PoolLimit \in Nat \ {0}

VARIABLES
  mode,      \* "ping", "traceroute", or "full": no flag
  isUrl,     \* is the target the cloud sent for a traceroute a URL?
  test,      \* of testingNetwork: see Tests
  heard,     \* is there a line in `stdout` of the hub?
  missed,    \* has a message been cut in two by the chunks?
  stdout,    \* the pipe from the wizard: fragments [of, last]
  stdin,     \* the pipe to the wizard: "line" and "end"
  wizard,    \* where the wizard is: see Places
  code,      \* exit code of its process
  next,      \* pool(): the item that comes next
  running,   \* pool(): the items under way
  verdict,   \* what process() printed for each URL
  reachedCount,
  reported,  \* the number of URLs that "could not be reached", -1 before
  saved,     \* whose tokens are in the file of FSTokens
  typed,     \* what the person answered: [id, token]
  verified   \* whose tokens the AUTH test succeeded with

hubVars == <<test, heard, missed>>
poolVars == <<next, running, verdict, reachedCount, reported>>
tokenVars == <<saved, typed, verified>>
setupVars == <<mode, isUrl>>
vars == <<setupVars, hubVars, stdout, stdin, wizard, code, poolVars,
          tokenVars, traceVars>>

Tests == {"idle", "running", "output", "error", "crashed"}
Places == {"off", "starting", "id", "token", "http", "auth", "urls", "pool",
           "host", "tracing", "done", "exited"}
Questions == {"id", "token", "urls", "host"}
Answers == {"empty", "invalid", "valid"}

TypeOK ==
  /\ TraceTypeOK
  /\ mode \in {"ping", "traceroute", "full"} /\ isUrl \in BOOLEAN
  /\ test \in Tests /\ heard \in BOOLEAN /\ missed \in BOOLEAN
  /\ stdout \in Seq([of: Questions \union {"done"}, last: BOOLEAN])
  /\ stdin \in Seq({"line", "end"})
  /\ wizard \in Places /\ code \in {0, 1}
  /\ next \in 1..(Urls + 1) /\ running \in SUBSET (1..Urls)
  /\ verdict \in [1..Urls -> {"none", "Success", "Failed"}]
  /\ reachedCount \in 0..Urls /\ reported \in -1..Urls
  /\ saved \in {"nobody", "earlier", "typed"}
  /\ typed \in [id: Answers, token: Answers]
  /\ verified \in {"nobody", "earlier", "typed"}

Init ==
  /\ TraceInit
  /\ mode \in {"ping", "traceroute", "full"} /\ isUrl \in BOOLEAN
  /\ test = "idle" /\ heard = FALSE /\ missed = FALSE
  /\ stdout = <<>> /\ stdin = <<>>
  /\ wizard = IF mode = "full" THEN "starting" ELSE "off"
  /\ code = 0
  /\ next = 1 /\ running = {}
  /\ verdict = [u \in 1..Urls |-> "none"]
  /\ reachedCount = 0 /\ reported = -1
  /\ saved \in {"nobody", "earlier"}
  /\ mode # "full" => saved = "nobody"
  /\ mode # "traceroute" => isUrl
  /\ typed = [id |-> "empty", token |-> "empty"]
  /\ verified = "nobody"

-----------------------------------------------------------------------------
(* The hub *)

Fragments(m) == <<[of |-> m, last |-> FALSE], [of |-> m, last |-> TRUE]>>

\* testNetwork() spawns the wizard.
Spawn ==
  /\ mode # "full" /\ test = "idle"
  /\ test' = "running"
  /\ wizard' = "starting"
  /\ UNCHANGED <<setupVars, heard, missed, stdout, stdin, code, poolVars,
                 tokenVars, traceVars>>

\* The child emits `error`.
SpawnFails ==
  /\ mode # "full" /\ test = "idle"
  /\ test' = "error"
  /\ UNCHANGED <<setupVars, heard, missed, stdout, stdin, wizard, code,
                 poolVars, tokenVars, traceVars>>

Contains(chunk, m) ==
  \E i \in 1..(Len(chunk) - 1) : SubSeq(chunk, i, i + 1) = Fragments(m)

\* Fault: the last message is not recognised.
TypedForQuestions(chunk) ==
  (IF Contains(chunk, "urls") THEN <<"line">> ELSE <<>>)
    \o (IF Contains(chunk, "host") THEN <<"line">> ELSE <<>>)

\* What the hub types after a chunk.
TypedFor(chunk) ==
  (IF Contains(chunk, "urls") THEN <<"line">> ELSE <<>>)
    \o (IF Contains(chunk, "host") THEN <<"line">> ELSE <<>>)
    \o (IF Contains(chunk, "done") THEN <<"end">> ELSE <<>>)

\* `data`: any prefix of what the pipe holds. `new URL(first)` throws out of
\* the listener, where neither the promise nor testingNetwork catches it.
Data(n) ==
  /\ test = "running"
  /\ LET chunk == SubSeq(stdout, 1, n)
     IN /\ IF Contains(chunk, "host") /\ ~isUrl
           THEN test' = "crashed" /\ UNCHANGED stdin
           ELSE stdin' = stdin \o TypedFor(chunk) /\ UNCHANGED test
        /\ missed' = (missed \/ ~chunk[n].last)
  /\ heard' = TRUE
  /\ stdout' = SubSeq(stdout, n + 1, Len(stdout))
  /\ UNCHANGED <<setupVars, wizard, code, poolVars, tokenVars, traceVars>>

\* `close`, after the pipes are drained: the output or an error.
Close ==
  /\ test = "running" /\ wizard = "exited" /\ stdout = <<>>
  /\ test' = IF code # 0 \/ ~heard THEN "error" ELSE "output"
  /\ UNCHANGED <<setupVars, heard, missed, stdout, stdin, wizard, code,
                 poolVars, tokenVars, traceVars>>

\* A person answers a question at the terminal, or closes it.
PersonTypes(a) ==
  /\ mode = "full" /\ wizard \in Questions /\ stdin = <<>>
  /\ stdin' = <<"line">>
  /\ typed' = IF wizard \in {"id", "token"}
              THEN [typed EXCEPT ![wizard] = a] ELSE typed
  /\ UNCHANGED <<setupVars, hubVars, stdout, wizard, code, poolVars, saved,
                 verified, traceVars>>

PersonLeaves ==
  /\ mode = "full" /\ wizard \in Questions \union {"done"} /\ stdin = <<>>
  /\ stdin' = <<"end">>
  /\ UNCHANGED <<setupVars, hubVars, stdout, wizard, code, poolVars,
                 tokenVars, traceVars>>

\* SIGINT, SIGTERM or SIGHUP: the wizard stops and exits with 0.
PersonInterrupts ==
  /\ mode = "full" /\ wizard # "exited"
  /\ wizard' = "exited" /\ code' = 0
  /\ UNCHANGED <<setupVars, hubVars, stdout, stdin, poolVars, tokenVars,
                 traceVars>>

-----------------------------------------------------------------------------
(* The wizard *)

\* What the wizard prints reaches the pipe of the hub.
Say(m) == stdout' = IF mode = "full" THEN stdout ELSE stdout \o Fragments(m)

\* start(): the first question of the mode.
Start ==
  /\ wizard = "starting"
  /\ wizard' = CASE mode = "traceroute" -> "host"
                 [] mode = "ping" -> "urls"
                 [] mode = "full" -> "id"
  /\ Say(wizard')
  /\ UNCHANGED <<setupVars, hubVars, stdin, code, poolVars, tokenVars,
                 traceVars>>

\* requestTokens(): tokens that look wrong are refused and the file stays.
WriteTokens(answers) ==
  IF answers.token = "valid" /\ answers.id # "empty" THEN "typed" ELSE saved

\* The answers to "Repeater ID" and "Repeater API Token".
IdTyped ==
  /\ wizard = "id" /\ stdin = <<"line">>
  /\ stdin' = <<>>
  /\ wizard' = "token" /\ Say("token")
  /\ UNCHANGED <<setupVars, hubVars, code, poolVars, tokenVars, traceVars>>

TokenTyped ==
  /\ wizard = "token" /\ stdin = <<"line">>
  /\ stdin' = <<>>
  /\ saved' = WriteTokens(typed)
  /\ wizard' = "http"
  /\ UNCHANGED <<setupVars, hubVars, stdout, code, poolVars, typed, verified,
                 traceVars>>

\* processExternalCommunication(): the base URL is reached or not.
HttpVerified ==
  /\ wizard = "http"
  /\ wizard' = "auth"
  /\ UNCHANGED <<setupVars, hubVars, stdout, stdin, code, poolVars, tokenVars,
                 traceVars>>

\* AuthConnectivity.test() with the tokens of the file. Without a file it
\* throws, which process() takes for a failure.
AuthVerified(ok) ==
  /\ wizard = "auth"
  /\ ok => saved # "nobody"
  /\ verified' = IF ok THEN saved ELSE "nobody"
  /\ wizard' = "urls" /\ Say("urls")
  /\ UNCHANGED <<setupVars, hubVars, stdin, code, poolVars, saved, typed,
                 traceVars>>

\* Fault: the pool waits only when it is above its limit.
FreeAboveLimit(members) == PoolLimit + 1 - Cardinality(members)

\* The members the pool may start before it waits for one of them.
Free(members) == PoolLimit - Cardinality(members)

\* pool(): from item n on, with these members still running.
Fill(n, members) ==
  LET until == IF Urls < n + Free(members) - 1 THEN Urls ELSE n + Free(members) - 1
  IN /\ running' = members \union (n..until)
     /\ next' = until + 1

\* Fault: the pool does not wait for the members that it started last.
PoolEndsEarly(members, n) == n > Urls

\* Promise.all: every item has been started and none is running.
PoolEnds(members, n) == n > Urls /\ members = {}

\* The rest of processPing and of start(), once the pool has returned.
Report ==
  IF PoolEnds(running', next')
  THEN /\ reported' = Urls - reachedCount'
       /\ wizard' = "done" /\ Say("done")
  ELSE UNCHANGED <<reported, wizard, stdout>>

\* The answer to URLS_QUESTION.
UrlsTyped ==
  /\ wizard = "urls" /\ stdin = <<"line">>
  /\ stdin' = <<>>
  /\ Fill(1, {})
  /\ reachedCount' = reachedCount
  /\ IF Urls = 0
     THEN Report
     ELSE wizard' = "pool" /\ UNCHANGED <<reported, stdout>>
  /\ UNCHANGED <<setupVars, hubVars, code, verdict, tokenVars, traceVars>>

\* A URL answers, or fails or times out, or is none: process() prints its
\* verdict and the pool starts the next.
UrlTested(u, ok) ==
  /\ wizard = "pool" /\ u \in running
  /\ verdict' = [verdict EXCEPT ![u] = IF ok THEN "Success" ELSE "Failed"]
  /\ reachedCount' = reachedCount + (IF ok THEN 1 ELSE 0)
  /\ Fill(next, running \ {u})
  /\ Report
  /\ UNCHANGED <<setupVars, hubVars, stdin, code, tokenVars, traceVars>>

\* The answer to HOST_OR_IP_QUESTION starts the trace.
HostTyped ==
  /\ wizard = "host" /\ stdin = <<"line">>
  /\ stdin' = <<>>
  /\ wizard' = "tracing"
  /\ Execute
  /\ UNCHANGED <<setupVars, hubVars, stdout, code, poolVars, tokenVars>>

\* The raw socket cannot be created: the handler of the command exits with 1.
SocketRefused ==
  /\ wizard = "host" /\ stdin = <<"line">>
  /\ stdin' = <<>>
  /\ wizard' = "exited" /\ code' = 1
  /\ UNCHANGED <<setupVars, hubVars, stdout, poolVars, tokenVars, traceVars>>

\* A callback of the trace; an error that nobody listens to ends the process.
Trace ==
  /\ wizard \in {"tracing", "done"}
  /\ TraceStep
  /\ IF status' = "crashed" THEN wizard' = "exited" /\ code' = 1
                            ELSE UNCHANGED <<wizard, code>>
  /\ UNCHANGED <<setupVars, hubVars, stdout, stdin, poolVars, tokenVars>>

\* No callback of the trace is pending; without its socket `queued` is lost.
Idle == scheduled = 0 /\ timers = {} /\ \A a \in Addresses : lookups[a] = 0

\* TracerouteConnectivity.test() returns, true or false.
TraceEnds ==
  /\ wizard = "tracing" /\ status \in {"stopped", "failed"}
  /\ wizard' = "done" /\ Say("done")
  /\ UNCHANGED <<setupVars, hubVars, stdin, code, poolVars, tokenVars,
                 traceVars>>

\* stdin ends and readline closes. The process ends when nothing else is
\* left to do: the socket of a trace that failed stays open, and a second chain
\* of callbacks outlives one that stopped.
WizardEnds ==
  /\ wizard \in Questions \union {"done"} /\ stdin = <<"end">>
  /\ socket = "closed" /\ Idle
  /\ wizard' = "exited"
  /\ UNCHANGED <<setupVars, hubVars, stdout, stdin, code, poolVars, tokenVars,
                 traceVars>>

-----------------------------------------------------------------------------
Next ==
  \/ Spawn \/ SpawnFails \/ Close
  \/ \E n \in 1..Len(stdout) : Data(n)
  \/ \E a \in Answers : PersonTypes(a)
  \/ PersonLeaves \/ PersonInterrupts
  \/ Start \/ IdTyped \/ TokenTyped \/ HttpVerified
  \/ \E ok \in BOOLEAN : AuthVerified(ok)
  \/ UrlsTyped
  \/ \E u \in running, ok \in BOOLEAN : UrlTested(u, ok)
  \/ HostTyped \/ SocketRefused \/ Trace \/ TraceEnds \/ WizardEnds

Spec == Init /\ [][Next]_vars

(* The wizard, the pipes and the tests, which have timeouts of their own,  *)
(* go on by themselves; a person does as they like.                        *)
Fairness ==
  /\ WF_vars(Close)
  /\ WF_vars(\E n \in 1..Len(stdout) : Data(n))
  /\ WF_vars(Start)
  /\ WF_vars(UrlsTyped)
  /\ WF_vars(\E u \in running, ok \in BOOLEAN : UrlTested(u, ok))
  /\ WF_vars(HostTyped \/ SocketRefused)
  /\ WF_vars(Trace)
  /\ WF_vars(TraceEnds)
  /\ WF_vars(WizardEnds)

-----------------------------------------------------------------------------
(* Properties *)

\* The cloud gets an answer to a network test: the hub and the wizard never
\* wait for each other, and a trace comes to an end with however many chains.
\* Two things do prevent it, and nothing times out: a message of the wizard
\* that two chunks share, which the hub does not recognise, and a trace that
\* failed, whose socket keeps the process alive.
TestEnds ==
  (test = "running") ~> (test # "running" \/ missed \/ status = "failed")

\* The hub and the wizard never both wait: a test that is running has something in
\* a pipe that its reader waits for, or the wizard is at work by itself. The
\* exceptions are those of TestEnds.
NobodyWaits ==
  test = "running" /\ ~missed =>
    \/ stdout # <<>>
    \/ wizard \in {"starting", "exited"}
    \/ wizard \in {"urls", "host"} /\ stdin = <<"line">>
    \/ wizard = "pool" /\ running # {}
    \/ wizard = "tracing" /\ (status \in {"resolving", "stopped", "failed"}
                               \/ scheduled > 0 \/ queued # {} \/ timers # {})
    \/ wizard = "done" /\ stdin = <<"end">> /\ (socket = "closed" \/ status = "failed")

\* The number of URLs that the report says could not be reached is the number
\* of those for which "Failed" was printed, and none is still under test.
CountTruthful ==
  reported # -1 =>
    /\ running = {}
    /\ \A u \in 1..Urls : verdict[u] # "none"
    /\ reported = Cardinality({u \in 1..Urls : verdict[u] = "Failed"})

\* pool(): no more than PoolLimit URLs are under test, and fewer only when no
\* URL is left.
PoolBounded ==
  /\ Cardinality(running) <= PoolLimit
  /\ wizard = "pool" /\ next <= Urls => Cardinality(running) = PoolLimit
=============================================================================
