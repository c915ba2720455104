----------------------------- MODULE CliProcess -----------------------------
(***************************************************************************)
(* Processes of the CLI that run one command each: a process reads the     *)
(* system configuration (module SystemConfig), starts the handler of the   *)
(* command beside the rotation in the background, asks the cloud to do     *)
(* something or to list something, prints the answer or logs the error,    *)
(* and ends.                                                               *)
(*                                                                         *)
(* Most handlers call process.exit(), which ends the rotation and drops    *)
(* what the log has not written yet; those of entry points set             *)
(* process.exitCode and let the process run empty.  The commands that run  *)
(* until they are stopped have modules of their own: here they only keep   *)
(* the rotation going.                                                     *)
(***************************************************************************)
EXTENDS SystemConfig, Sequences

CONSTANTS
  Invocations, \* the arguments the processes may be started with
  Documents,   \* contents of the file given to archive:upload: see Document
  Batch,       \* entrypointsPaginationBatchSize
  Total        \* the number of entry points of the project

VARIABLES
  args, \* the arguments of each process: see Arguments
  run,  \* what its handler does: see Run
  disk, \* the file given to archive:upload
  done  \* what the cloud has done for each process: a sequence of bodies

cliVars == <<args, run, disk, done>>
vars == <<configVars, cliVars>>

(* The handlers: does a success print something, and do they end with      *)
(* process.exit() or set process.exitCode?                                 *)
RunScan == [prints |-> TRUE, exits |-> TRUE]
RetestScan == [prints |-> TRUE, exits |-> TRUE]
StopScan == [prints |-> FALSE, exits |-> TRUE]
RunDiscovery == [prints |-> TRUE, exits |-> TRUE]
RerunDiscovery == [prints |-> TRUE, exits |-> TRUE]
StopDiscovery == [prints |-> FALSE, exits |-> TRUE]
UploadArchive == [prints |-> TRUE, exits |-> TRUE]
UpdateHost == [prints |-> TRUE, exits |-> FALSE]
GetEntryPoints == [prints |-> TRUE, exits |-> FALSE]

HandlerOf(cmd) ==
  CASE cmd = "scan:run" -> RunScan
    [] cmd = "scan:retest" -> RetestScan
    [] cmd = "scan:stop" -> StopScan
    [] cmd = "discovery:run" -> RunDiscovery
    [] cmd = "discovery:rerun" -> RerunDiscovery
    [] cmd = "discovery:stop" -> StopDiscovery
    [] cmd = "archive:upload" -> UploadArchive
    [] cmd = "entrypoints:update-host" -> UpdateHost
    [] cmd = "entrypoints:list" -> GetEntryPoints

Creates == {"scan:run", "discovery:run"}
Effects == Creates \union {"scan:stop", "scan:retest", "discovery:stop",
                           "discovery:rerun", "archive:upload",
                           "entrypoints:update-host"}
Specs == {"HAR", "OpenAPI", "Postman"}

\* Values of --param; the first two are deprecated.
Locations == {"artifical-fragment", "artifical-query", "artificial-fragment",
              "artificial-query", "body", "fragment", "query"}

\* A list of locations: how often each of them is in it.
Undefined == [l \in Locations |-> 0]

(* sources: which of --crawler, --archive and --entrypoint are there;      *)
(* fileType: that of --archive in the cloud; locations and template:       *)
(* --param and --template; spec: --type; log: --log-file and --log-level.  *)
Arguments ==
  [cmd: Effects \union {"entrypoints:list", "repeater", "none"},
   sources: SUBSET {"crawler", "archive", "entrypoint"},
   fileType: {"archive", "oas"}, locations: [Locations -> Nat], template: BOOLEAN,
   limit: Int, spec: Specs, log: {"stderr", "file", "silent"}]

ASSUME CliAssumption ==
  /\ Batch \in Nat \ {0} /\ Total \in Nat
  /\ Invocations \subseteq [Processes -> Arguments]

(* What a file is, as far as the parsers and validators tell: version is   *)
(* that of the specification or of the schema of a collection, entries are *)
(* the URLs of a HAR, schema says if the JSON schema is met.               *)
Document == [there: BOOLEAN, large: BOOLEAN, parses: BOOLEAN,
             version: {"none", "old", "current"}, schema: BOOLEAN,
             entries: SUBSET {"http", "extension", "malformed"}]
NoDocument == [there |-> FALSE, large |-> FALSE, parses |-> FALSE,
               version |-> "none", schema |-> FALSE, entries |-> {}]

NoBody == [types |-> <<>>, locations |-> Undefined, content |-> NoDocument]

(* pc: the await the handler is at; content: the file it has read; list:   *)
(* the entry points it has, remaining: of the loop that gets them; full:   *)
(* the cloud fills every page; printed: the answer is on stdout; reason:   *)
(* where the error message is, or "crash" if the log itself broke; code:   *)
(* process.exitCode; exit: the code the process ended with, -1 while it    *)
(* lives, -2 after a signal.                                               *)
RunPc == {"new", "config", "lookup", "access", "stat", "readFile", "call",
          "served", "page", "serving", "returned", "ended"}
Run == [pc: RunPc, content: Documents \union {NoDocument}, list: Seq(1..Total),
        remaining: Int, full: BOOLEAN, printed: BOOLEAN, code: {0, 1},
        exit: {-2, -1, 0, 1},
        reason: {"none", "stderr", "silent", "queued", "written", "lost", "crash"}]

TypeOK ==
  /\ ConfigTypeOK
  /\ disk \in Documents \union {NoDocument}
  /\ \A p \in Processes :
       /\ args[p] \in Arguments /\ run[p] \in Run
       /\ run[p].exit = -1 <=> run[p].pc # "ended"
       /\ run[p].pc = "ended" <=> rot[p].pc = "gone"

Runs(cmd) == \E p \in Processes : args[p].cmd = cmd

Init ==
  /\ ConfigInit
  /\ args \in Invocations
  /\ \E full \in IF Runs("entrypoints:list") THEN BOOLEAN ELSE {TRUE} :
       run = [p \in Processes |->
         [pc |-> "new", content |-> NoDocument, list |-> <<>>, remaining |-> 0,
          full |-> full, printed |-> FALSE, code |-> 0, exit |-> -1,
          reason |-> "none"]]
  /\ disk \in IF Runs("archive:upload") THEN Documents ELSE {NoDocument}
  /\ done = [p \in Processes |-> <<>>]

-----------------------------------------------------------------------------
(* The ends of a handler *)

\* logger.error(): to stderr, or to the stream of --log-file, which writes
\* later.
Logged(p) == CASE args[p].log = "silent" -> "silent"
               [] args[p].log = "file" -> "queued"
               [] OTHER -> "stderr"

\* The process ends at once: what the log has queued is lost.
Exit(p, r, code) ==
  /\ run' = [run EXCEPT ![p] =
       [r EXCEPT !.pc = "ended", !.exit = code,
                 !.reason = IF @ = "queued" THEN "lost" ELSE @]]
  /\ Vanish(p)

Return(p, r, code) ==
  IF HandlerOf(args[p].cmd).exits
    THEN Exit(p, r, code)
    ELSE /\ run' = [run EXCEPT ![p] = [r EXCEPT !.pc = "returned", !.code = code]]
         /\ UNCHANGED configVars

Fail(p) == Return(p, [run[p] EXCEPT !.reason = Logged(p)], 1)

Succeed(p) ==
  Return(p, [run[p] EXCEPT !.printed = HandlerOf(args[p].cmd).prints], 0)

-----------------------------------------------------------------------------
(* Start *)

\* demandCommand(), conflicts() and check() of scan:run and discovery:run.
Accepts(a) ==
  /\ a.cmd # "none"
  /\ a.cmd = "scan:run" => \/ a.sources = {"entrypoint"}
                           \/ a.sources # {} /\ "entrypoint" \notin a.sources
  /\ a.cmd = "discovery:run" => a.sources \in {{"crawler"}, {"archive"}}

UsageFails(p) ==
  /\ run[p].pc = "new" /\ ~Accepts(args[p])
  /\ Exit(p, [run[p] EXCEPT !.reason = "stderr"], 1)
  /\ UNCHANGED <<args, disk, done>>

\* The directory of --log-file cannot be made.
LogFileFails(p) ==
  /\ run[p].pc = "new" /\ Accepts(args[p]) /\ args[p].log = "file"
  /\ Exit(p, [run[p] EXCEPT !.reason = "stderr"], 1)
  /\ UNCHANGED <<args, disk, done>>

Start(p) ==
  /\ run[p].pc = "new" /\ Accepts(args[p])
  /\ run' = [run EXCEPT ![p].pc = "config"]
  /\ Read(p)
  /\ UNCHANGED <<args, disk, done>>

\* The next turn of the loop of entrypoints(), or what its handler prints.
NextPage(r) == IF r.remaining > 0 THEN [r EXCEPT !.pc = "page"]
               ELSE [r EXCEPT !.pc = "returned", !.printed = TRUE]

Handler(p) ==
  LET a == args[p] IN
  CASE a.cmd = "entrypoints:list" -> NextPage([run[p] EXCEPT !.remaining = a.limit])
    [] a.cmd = "archive:upload" -> [run[p] EXCEPT !.pc = "access"]
    [] a.cmd = "repeater" -> [run[p] EXCEPT !.pc = "serving"]
    [] a.cmd \in Creates /\ "archive" \in a.sources -> [run[p] EXCEPT !.pc = "lookup"]
    [] OTHER -> [run[p] EXCEPT !.pc = "call"]

\* wrapWithSentry(): the handler starts when read() is done, and with it the
\* rotation in the background.
ConfigRead(p) ==
  /\ Reload(p)
  /\ run' = IF rot[p].background THEN run ELSE [run EXCEPT ![p] = Handler(p)]
  /\ UNCHANGED <<args, disk, done>>

-----------------------------------------------------------------------------
(* What is sent *)

\* The deprecated name is filtered out, and the current one added if it is not
\* there.
Replace(s, deprecated, current) ==
  IF s[deprecated] = 0 THEN s
  ELSE [s EXCEPT ![deprecated] = 0, ![current] = IF @ = 0 THEN 1 ELSE @]

ReplaceDeprecated(s) ==
  Replace(Replace(s, "artifical-fragment", "artificial-fragment"),
          "artifical-query", "artificial-query")

AttackParamLocations(a) ==
  IF a.locations # Undefined THEN ReplaceDeprecated(a.locations)
  ELSE IF a.template THEN Undefined
  ELSE [l \in Locations |-> IF l \in {"body", "fragment", "query"} THEN 1 ELSE 0]

DiscoveryTypes(a) ==
  (IF "crawler" \in a.sources THEN <<"crawler">> ELSE <<>>)
    \o (IF "archive" \in a.sources THEN <<a.fileType>> ELSE <<>>)

\* What the cloud acts on: prepareScanConfig(), prepareConfig() and the form
\* of upload(). The other commands send the ids they are given.
ScanBody(a) == [NoBody EXCEPT !.types = DiscoveryTypes(a),
                              !.locations = AttackParamLocations(a)]
DiscoveryBody(a) == [NoBody EXCEPT !.types = DiscoveryTypes(a)]
ArchiveBody(content) == [NoBody EXCEPT !.content = content]

Body(p) ==
  CASE args[p].cmd = "scan:run" -> ScanBody(args[p])
    [] args[p].cmd = "discovery:run" -> DiscoveryBody(args[p])
    [] args[p].cmd = "archive:upload" -> ArchiveBody(run[p].content)
    [] OTHER -> NoBody

\* exploreDiscovery(): the type of the file given by --archive.
LookupEnds(p, found) ==
  /\ run[p].pc = "lookup"
  /\ IF found
       THEN run' = [run EXCEPT ![p].pc = "call"] /\ UNCHANGED configVars
       ELSE Fail(p)
  /\ UNCHANGED <<args, disk, done>>

-----------------------------------------------------------------------------
(* The parsers of archives *)

HarValid(d) == d.schema /\ "malformed" \notin d.entries /\ "http" \in d.entries
OasValid(d) == d.version = "current" /\ d.schema
PostmanValid(d) == d.version = "current" /\ d.schema

Valid(spec, d) ==
  CASE spec = "HAR" -> HarValid(d)
    [] spec = "OpenAPI" -> OasValid(d)
    [] spec = "Postman" -> PostmanValid(d)

Access(p) ==
  /\ run[p].pc = "access"
  /\ IF disk.there
       THEN run' = [run EXCEPT ![p].pc = "stat"] /\ UNCHANGED configVars
       ELSE Fail(p)
  /\ UNCHANGED <<args, disk, done>>

Stat(p) ==
  /\ run[p].pc = "stat"
  /\ IF disk.there /\ ~disk.large
       THEN run' = [run EXCEPT ![p].pc = "readFile"] /\ UNCHANGED configVars
       ELSE Fail(p)
  /\ UNCHANGED <<args, disk, done>>

\* readFile(), deserialize() and validate(), which awaits nothing outside.
ReadFile(p) ==
  /\ run[p].pc = "readFile"
  /\ IF disk.there /\ disk.parses /\ Valid(args[p].spec, disk)
       THEN /\ run' = [run EXCEPT ![p].pc = "call", ![p].content = disk]
            /\ UNCHANGED configVars
       ELSE Fail(p)
  /\ UNCHANGED <<args, disk, done>>

\* Someone else replaces the file.
DiskChanges ==
  /\ \E p \in Processes : run[p].pc \in {"access", "stat", "readFile"}
                          /\ args[p].cmd = "archive:upload"
  /\ disk' \in Documents
  /\ UNCHANGED <<configVars, args, run, done>>

-----------------------------------------------------------------------------
(* Calls of the cloud *)

Serve(p) ==
  /\ run[p].pc = "call"
  /\ done' = [done EXCEPT ![p] = Append(@, Body(p))]
  /\ run' = [run EXCEPT ![p].pc = "served"]
  /\ UNCHANGED <<configVars, args, disk>>

\* Fault: the promise of the client is not awaited.
AnsweredAtOnce(p) ==
  /\ run[p].pc \in {"call", "served"}
  /\ Succeed(p)
  /\ UNCHANGED <<args, disk, done>>

Answered(p) ==
  /\ run[p].pc = "served"
  /\ Succeed(p)
  /\ UNCHANGED <<args, disk, done>>

\* A refusal, a network error or the timeout of --timeout: the cloud may have
\* done what it was asked.
CallFails(p) ==
  /\ run[p].pc \in {"call", "served", "page"}
  /\ Fail(p)
  /\ UNCHANGED <<args, disk, done>>

\* Fault: every page is asked for in full.
AskedInFull(remaining) == Batch

Asked(remaining) == IF remaining < Batch THEN remaining ELSE Batch

\* The pages the cloud may send: entry points after the last one it sent.
Pages(r) ==
  LET last == IF r.list = <<>> THEN 0 ELSE r.list[Len(r.list)]
      most == IF Total - last < Asked(r.remaining) THEN Total - last
              ELSE Asked(r.remaining)
  IN {[i \in 1..n |-> last + i] : n \in IF r.full THEN {most} ELSE 0..most}

\* One turn of the loop of entrypoints(): remaining goes down by a batch,
\* whatever came.
Page(p) ==
  /\ run[p].pc = "page"
  /\ \E items \in Pages(run[p]) :
       LET left == IF items = <<>> THEN 0 ELSE run[p].remaining - Batch
       IN run' = [run EXCEPT ![p] =
            NextPage([run[p] EXCEPT !.list = run[p].list \o items, !.remaining = left])]
  /\ UNCHANGED <<configVars, args, disk, done>>

-----------------------------------------------------------------------------
(* Ends of the process *)

\* The commands that run until they are stopped.
ServingEnds(p, code) ==
  /\ run[p].pc = "serving"
  /\ Exit(p, run[p], code)
  /\ UNCHANGED <<args, disk, done>>

LogWritten(p) ==
  /\ run[p].reason = "queued"
  /\ run' = [run EXCEPT ![p].reason = "written"]
  /\ UNCHANGED <<configVars, args, disk, done>>

\* The stream of --log-file cannot be opened or written: nothing listens for its
\* error, which ends the process wherever the handler is.
LogFails(p) ==
  /\ args[p].log = "file" /\ run[p].pc \notin {"new", "ended"}
  /\ Exit(p, [run[p] EXCEPT !.reason = "crash"], 1)
  /\ UNCHANGED <<args, disk, done>>

\* Fault: the sleep of the rotation keeps the process.
RunsEmptyOnceStopped(p) ==
  /\ run[p].pc = "returned" /\ rot[p].pc = "off" /\ run[p].reason # "queued"
  /\ Exit(p, run[p], run[p].code)
  /\ UNCHANGED <<args, disk, done>>

\* Nothing is left to wait for: the sleep of the rotation holds no process.
RunsEmpty(p) ==
  /\ run[p].pc = "returned" /\ rot[p].pc = "asleep" /\ run[p].reason # "queued"
  /\ Exit(p, run[p], run[p].code)
  /\ UNCHANGED <<args, disk, done>>

Interrupted(p) ==
  /\ run[p].pc \notin {"new", "ended"}
  /\ Exit(p, run[p], -2)
  /\ UNCHANGED <<args, disk, done>>

RotationStep(p) ==
  /\ Rotate(p) \/ (Wake(p) /\ run[p].pc # "returned")
  /\ UNCHANGED cliVars

HandlerStep(p) ==
  \/ \E found \in BOOLEAN : LookupEnds(p, found)
  \/ Access(p) \/ Stat(p) \/ ReadFile(p)
  \/ Serve(p) \/ Answered(p) \/ CallFails(p) \/ Page(p)
  \/ LogWritten(p) \/ RunsEmpty(p)

Next ==
  \/ (Publish \/ HourPasses) /\ UNCHANGED cliVars
  \/ DiskChanges
  \/ \E p \in Processes :
       \/ UsageFails(p) \/ LogFileFails(p) \/ Start(p) \/ ConfigRead(p) \/ RotationStep(p)
       \/ HandlerStep(p) \/ LogFails(p) \/ Interrupted(p)
       \/ \E code \in {0, 1} : ServingEnds(p, code)

Spec == Init /\ [][Next]_vars

\* Everything a process waits for comes to an end: files by the system, the
\* configuration after 1.5 s, the cloud after --timeout.
Fairness ==
  \A p \in Processes :
    /\ WF_vars(Start(p) \/ UsageFails(p) \/ LogFileFails(p))
    /\ WF_vars(ConfigRead(p) \/ (Rotate(p) /\ UNCHANGED cliVars))
    /\ WF_vars(HandlerStep(p))

-----------------------------------------------------------------------------
(* Properties *)

Current(l) == CASE l = "artifical-fragment" -> "artificial-fragment"
                [] l = "artifical-query" -> "artificial-query"
                [] OTHER -> l

Elements(s) == {s[i] : i \in 1..Len(s)}
Given(s) == {l \in Locations : s[l] > 0}

\* The locations that are asked for, under their current names.
WantedLocations(a) ==
  IF a.locations # Undefined THEN {Current(l) : l \in Given(a.locations)}
  ELSE IF a.template THEN {} ELSE {"body", "fragment", "query"}

Wanted(a, b) ==
  /\ a.cmd \in Creates => Elements(b.types) =
       ({"crawler"} \intersect a.sources)
         \union (IF "archive" \in a.sources THEN {a.fileType} ELSE {})
  /\ a.cmd = "scan:run" =>
       /\ Given(b.locations) = WantedLocations(a)
       /\ (\A l \in Locations : a.locations[l] <= 1)
            => \A l \in Locations : b.locations[l] <= 1
  /\ a.cmd = "archive:upload" => b.content.parses /\ Valid(a.spec, b.content)

(* The exit code tells the truth: after 0 the cloud has done what the      *)
(* arguments ask, once and with the locations under their current names    *)
(* and not repeated.  After 1 no answer was printed and the error message  *)
(* went to stderr or to --log-file, unless --log-level silences it: the    *)
(* commands that set process.exitCode live until it is written, the others *)
(* may lose it in process.exit().  The exception is a log file that fails, *)
(* which gives 1 to any command, also to one that has done its work and    *)
(* printed the answer.  No command asks twice.                             *)
ExitTruthful ==
  \A p \in Processes :
    /\ Len(done[p]) <= 1
    /\ (run[p].exit = 0 /\ args[p].cmd \in Effects)
         => Len(done[p]) = 1 /\ Wanted(args[p], done[p][1])
    /\ (run[p].exit = 1 /\ args[p].cmd # "repeater")
         => \/ run[p].reason = "crash" /\ args[p].log = "file"
            \/ /\ ~run[p].printed /\ run[p].reason # "none"
               /\ run[p].reason = "lost" => HandlerOf(args[p].cmd).exits

(* entrypoints() gives the first entry points of the project, each once    *)
(* and never more than --limit, and all of them up to --limit when the     *)
(* cloud fills its pages: remaining counts batches and not entry points.   *)
ListExact ==
  \A p \in Processes :
    (args[p].cmd = "entrypoints:list" /\ run[p].printed) =>
      LET list == run[p].list
          most == IF args[p].limit < 0 THEN 0 ELSE args[p].limit
      IN /\ list = [i \in 1..Len(list) |-> i]
         /\ Len(list) <= most
         /\ run[p].full => Len(list) = IF Total < most THEN Total ELSE most

\* How far a handler is, and how far the rotation beside it.
Stage == [new |-> 0, config |-> 1, lookup |-> 2, access |-> 2, stat |-> 3, readFile |-> 4,
          call |-> 5, page |-> 5, served |-> 6, serving |-> 6, returned |-> 7, ended |-> 8]
RotationStage == [off |-> 0, load |-> 1, fetch |-> 2, open |-> 3, writing |-> 4,
                  reload |-> 5, asleep |-> 6, gone |-> 7]

(* Why CommandEnds needs no luck: a process never goes back.  Every step    *)
(* of its own brings the handler further, takes a batch off what           *)
(* entrypoints() has still to ask for, or writes the message that holds    *)
(* the process.  The rotation it waits for, in read() or after the         *)
(* handler, goes forward to its end as well: it does not sleep in read(),  *)
(* and does not wake for a process that has nothing else to do.            *)
CommandAdvances ==
  [][\A p \in Processes :
       /\ run'[p] # run[p] =>
            \/ Stage[run[p].pc] < Stage[run'[p].pc]
            \/ /\ run[p].pc = "page" /\ run'[p].pc = "page"
               /\ run'[p].remaining = run[p].remaining - Batch /\ run'[p].remaining > 0
            \/ /\ run[p].reason = "queued"
               /\ run'[p] = [run[p] EXCEPT !.reason = "written"]
       /\ (rot'[p] # rot[p] /\ run'[p].pc = run[p].pc /\ run[p].pc \in {"config", "returned"})
            => RotationStage[rot[p].pc] < RotationStage[rot'[p].pc]]_vars

(* Every command but those that serve comes to its end, whatever becomes   *)
(* of the system configuration meanwhile.                                  *)
CommandEnds ==
  \A p \in Processes : args[p].cmd # "repeater" ~> run[p].pc = "ended"
=============================================================================
