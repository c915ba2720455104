---------------------------- MODULE MCCliProcess ----------------------------
(* Every command by itself, and one of them beside a process that serves   *)
(* for long, so that both rotate the file.                                 *)
EXTENDS CliProcess, TLC

CONSTANTS p1, p2

Stop == [cmd |-> "scan:stop", sources |-> {}, fileType |-> "archive",
         locations |-> Undefined, template |-> FALSE, limit |-> 0,
         spec |-> "HAR", log |-> "stderr"]

Scan(sources, named, template) ==
  [Stop EXCEPT !.cmd = "scan:run", !.sources = sources, !.template = template,
               !.locations = [l \in Locations |-> IF l \in named THEN 1 ELSE 0]]

List(limit) == [Stop EXCEPT !.cmd = "entrypoints:list", !.limit = limit]

Alone ==
  {[Stop EXCEPT !.cmd = "scan:retest", !.log = "silent"],
   [Stop EXCEPT !.cmd = "discovery:stop", !.log = "file"],
   [Stop EXCEPT !.cmd = "discovery:rerun"],
   [Stop EXCEPT !.cmd = "entrypoints:update-host", !.log = "file"]}
    \union {[Stop EXCEPT !.cmd = "archive:upload", !.spec = s] : s \in Specs}
    \union {[Stop EXCEPT !.cmd = "discovery:run", !.sources = {"archive"},
                         !.fileType = "oas", !.log = "file"]}
    \union {Scan({"entrypoint", "crawler"}, {}, FALSE),
            Scan({"entrypoint"}, {}, TRUE),
            Scan({"crawler"}, {}, FALSE),
            Scan({"crawler", "archive"},
                 {"artifical-query", "artificial-query", "body"}, FALSE),
            Scan({"archive"}, {"artifical-fragment", "artifical-query"}, TRUE)}
    \union {List(n) : n \in {-1, 1, 2, 3, 5}}

MCInvocations ==
  {p1 :> a @@ p2 :> [Stop EXCEPT !.cmd = "none"] : a \in Alone}
    \union {p1 :> Stop @@ p2 :> [Stop EXCEPT !.cmd = "repeater"]}

Good == [there |-> TRUE, large |-> FALSE, parses |-> TRUE, version |-> "current",
         schema |-> TRUE, entries |-> {"http", "extension"}]

MCDocuments ==
  {Good, NoDocument, [Good EXCEPT !.large = TRUE],
   [Good EXCEPT !.version = "old", !.entries = {"extension"}]}

\* The second configuration is the shorter one.
MCLength == [d \in Data |-> MaxPublished - d]

Done ==
  /\ \A p \in Processes : run[p].pc = "ended"
  /\ UNCHANGED vars

MCSpec == Init /\ [][Next \/ Done]_vars /\ Fairness
=============================================================================
