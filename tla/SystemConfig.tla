---------------------------- MODULE SystemConfig ----------------------------
(***************************************************************************)
(* SystemConfigManager: every process of the CLI reads ~/.brightclirc      *)
(* before its command starts and renews it once an hour, before the        *)
(* command and, in the background, beside it.  The file is shared by the   *)
(* processes of a user and nothing locks it.                               *)
(*                                                                         *)
(* Reading the file, asking the cloud and writing are awaited, so steps of *)
(* other processes come between them.  writeFile() empties the file when   *)
(* it opens it and fills it later: in between it does not parse.  The      *)
(* build is the one of production: elsewhere no file is ever renewed.      *)
(***************************************************************************)
EXTENDS Integers

CONSTANTS
  Processes,    \* processes of the CLI of one user
  MaxPublished, \* bound: how often the cloud changes the configuration
  Length        \* the length of the text of each configuration

Data == 0..MaxPublished

ASSUME SystemConfigAssumption ==
  /\ MaxPublished \in Nat
  /\ Length \in [Data -> Nat]

VARIABLES
  file,      \* what ~/.brightclirc holds: see File
  published, \* the configuration the cloud has now; they are numbered
  latest,    \* history: the newest configuration ever written to the file
  overlap,   \* history: two processes have renewed the file at a time
  cut,       \* history: a write has stopped between emptying and filling
  rot,       \* what each process does about the file: see Rotation
  sentry     \* the configuration Sentry has in each process, -1: none

configVars == <<file, published, latest, overlap, cut, rot, sentry>>

\* old: an hour has passed since updatedAt.
File == [state: {"absent", "broken", "ok"}, data: Data, old: BOOLEAN]

Absent == [state |-> "absent", data |-> 0, old |-> FALSE]
Broken == [state |-> "broken", data |-> 0, old |-> FALSE]
Whole(d) == [state |-> "ok", data |-> d, old |-> FALSE]

(* pc: the await it is at; background: of enableBackgroundRotation();      *)
(* seen: the configuration it has read; next: the one it is to write;      *)
(* rotated: what rotateIfNecessary() returns.                              *)
Rotation == [pc: {"off", "load", "fetch", "open", "writing", "reload", "asleep", "gone"},
             background: BOOLEAN, seen: Data, next: Data, rotated: BOOLEAN]

Idle == [pc |-> "off", background |-> FALSE, seen |-> 0, next |-> 0,
         rotated |-> FALSE]

Rotating(p) == rot[p].pc \in {"fetch", "open", "writing"}

ConfigTypeOK ==
  /\ file \in File
  /\ published \in Data /\ latest \in Data
  /\ overlap \in BOOLEAN /\ cut \in BOOLEAN
  /\ rot \in [Processes -> Rotation]
  /\ sentry \in [Processes -> Data \union {-1}]

\* The file may be there from earlier, in any state.
ConfigInit ==
  /\ file \in {Absent, Broken, Whole(0), [Whole(0) EXCEPT !.old = TRUE]}
  /\ published = 0 /\ latest = 0
  /\ overlap = FALSE
  /\ cut = (file = Broken)
  /\ rot = [p \in Processes |-> Idle]
  /\ sentry = [p \in Processes |-> -1]

-----------------------------------------------------------------------------
(* The world *)

Publish ==
  /\ published < MaxPublished
  /\ published' = published + 1
  /\ UNCHANGED <<file, latest, overlap, cut, rot, sentry>>

HourPasses ==
  /\ file.state = "ok" /\ ~file.old
  /\ file' = [file EXCEPT !.old = TRUE]
  /\ UNCHANGED <<published, latest, overlap, cut, rot, sentry>>

-----------------------------------------------------------------------------
(* rotateIfNecessary() *)

\* read() begins.
Read(p) ==
  /\ rot[p].pc = "off"
  /\ rot' = [rot EXCEPT ![p].pc = "load"]
  /\ UNCHANGED <<file, published, latest, overlap, cut, sentry>>

\* What follows rotateIfNecessary(): read() loads the file again in any
\* case, the loop in the background only if it is renewed.
After(p, rotated) ==
  [Idle EXCEPT !.background = rot[p].background,
               !.pc = IF rot[p].background /\ ~rotated THEN "asleep" ELSE "reload"]

\* What getConfigFile() makes of the file.  One that is missing or does not
\* parse is replaced by a default without data whose updatedAt is now.
GetConfigFile(f) == IF f.state = "ok" THEN [data |-> f.data, old |-> f.old]
                                      ELSE [data |-> -1, old |-> FALSE]

\* In production: updatedAt is an hour ago or more. (Elsewhere it returns nothing.)
NeedsRotation(configFile) == configFile.old

Load(p) ==
  /\ rot[p].pc = "load"
  /\ LET configFile == GetConfigFile(file) IN
     IF NeedsRotation(configFile)
       THEN /\ rot' = [rot EXCEPT ![p].pc = "fetch", ![p].seen = configFile.data]
            /\ overlap' = (overlap \/ \E q \in Processes : Rotating(q))
       ELSE /\ rot' = [rot EXCEPT ![p] = After(p, FALSE)]
            /\ UNCHANGED overlap
  /\ UNCHANGED <<file, published, latest, cut, sentry>>

\* Fault: the configuration is forgotten when the cloud does not answer.
RenewedDropsSeen(seen, answered) == IF answered THEN published ELSE 0

\* Without an answer the configuration that was read gets a new updatedAt.
Renewed(seen, answered) == IF answered THEN published ELSE seen

FetchNewConfig(p, answered) ==
  /\ rot[p].pc = "fetch"
  /\ rot' = [rot EXCEPT ![p].pc = "open", ![p].rotated = answered,
                        ![p].next = Renewed(rot[p].seen, answered)]
  /\ UNCHANGED <<file, published, latest, overlap, cut, sentry>>

\* updateConfigFile() keeps its errors to itself.
OpenFails(p) ==
  /\ rot[p].pc = "open"
  /\ rot' = [rot EXCEPT ![p] = After(p, rot[p].rotated)]
  /\ UNCHANGED <<file, published, latest, overlap, cut, sentry>>

Open(p) ==
  /\ rot[p].pc = "open"
  /\ file' = Broken
  /\ rot' = [rot EXCEPT ![p].pc = "writing"]
  /\ UNCHANGED <<published, latest, overlap, cut, sentry>>

\* Another process may have filled the file since it was emptied: a longer
\* text then shows behind the end of the new one.
Overwritten(f, next) ==
  IF f.state = "ok" /\ Length[f.data] > Length[next] THEN Broken ELSE Whole(next)

Write(p) ==
  /\ rot[p].pc = "writing"
  /\ file' = Overwritten(file, rot[p].next)
  /\ latest' = IF rot[p].next > latest THEN rot[p].next ELSE latest
  /\ rot' = [rot EXCEPT ![p] = After(p, rot[p].rotated)]
  /\ UNCHANGED <<published, overlap, cut, sentry>>

WriteFails(p) ==
  /\ rot[p].pc = "writing"
  /\ cut' = TRUE
  /\ rot' = [rot EXCEPT ![p] = After(p, rot[p].rotated)]
  /\ UNCHANGED <<file, published, latest, overlap, sentry>>

-----------------------------------------------------------------------------
(* read() and runBackgroundRotation() *)

\* initSentry() gets what getConfigFile() finds now.  After the first time the
\* loop in the background starts at once.
Reload(p) ==
  /\ rot[p].pc = "reload"
  /\ sentry' = [sentry EXCEPT ![p] = GetConfigFile(file).data]
  /\ rot' = [rot EXCEPT ![p].pc = IF rot[p].background THEN "asleep" ELSE "load",
                        ![p].background = TRUE]
  /\ UNCHANGED <<file, published, latest, overlap, cut>>

Wake(p) ==
  /\ rot[p].pc = "asleep"
  /\ rot' = [rot EXCEPT ![p].pc = "load"]
  /\ UNCHANGED <<file, published, latest, overlap, cut, sentry>>

\* The process is gone, wherever the rotation is.
Vanish(p) ==
  /\ rot[p].pc # "gone"
  /\ cut' = (cut \/ rot[p].pc = "writing")
  /\ rot' = [rot EXCEPT ![p] = [Idle EXCEPT !.pc = "gone"]]
  /\ sentry' = [sentry EXCEPT ![p] = -1]
  /\ UNCHANGED <<file, published, latest, overlap>>

Rotate(p) ==
  \/ Load(p)
  \/ \E answered \in BOOLEAN : FetchNewConfig(p, answered)
  \/ OpenFails(p) \/ Open(p) \/ Write(p) \/ WriteFails(p)

ConfigNext ==
  \/ Publish \/ HourPasses
  \/ \E p \in Processes : Read(p) \/ Rotate(p) \/ Reload(p) \/ Wake(p) \/ Vanish(p)

ConfigSpec == ConfigInit /\ [][ConfigNext]_configVars

-----------------------------------------------------------------------------
(* Properties *)

(* As long as no two processes renew the file at a time and no write is    *)
(* cut short, rotateIfNecessary() leaves a file that parses and holds the  *)
(* newest configuration any process has written: a cloud that does not     *)
(* answer takes nothing back.                                              *)
FileKeepsNewest ==
  (~overlap /\ ~cut /\ \A p \in Processes : rot[p].pc # "writing")
    => /\ file.state # "broken"
       /\ file.state = "ok" => file.data = latest

(* What a process has given to Sentry is not replaced by an older          *)
(* configuration or by none, though it reloads a file that others renew    *)
(* between its own write and that: unless two renewals overlap, a write is *)
(* cut short, or it reads the file while another process is writing it.    *)
SentryKeepsUp ==
  [][(~overlap /\ ~cut /\ file.state # "broken")
       => \A p \in Processes : rot'[p].pc = "gone" \/ sentry'[p] >= sentry[p]]_configVars
=============================================================================
