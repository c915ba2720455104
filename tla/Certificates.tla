---------------------------- MODULE Certificates ----------------------------
(***************************************************************************)
(* Client certificates of the Repeater: how execute() of the HTTP and WS   *)
(* executors finds the certificate that a target wants.                    *)
(*                                                                         *)
(* A request tries every matching certificate at the same time, and all    *)
(* the attempts share one Request object.  An attempt awaits the file,     *)
(* stores it in the Request (Load), and, when loadCert() has returned,     *)
(* sends what the Request then holds (Send).  The first response is the    *)
(* answer, and its certificate is cached for the target.                   *)
(*                                                                         *)
(* The event loop runs one callback at a time, with all the continuations  *)
(* that it makes ready, which TurnIsOver says: what is between Load and    *)
(* Send awaits no I/O.                                                     *)
(*                                                                         *)
(* Only a .pfx file is shown to the target.  A .pem, .crt or .ca file goes *)
(* to the field `ca', which plays no part in what the target accepts.      *)
(* The module is about one target: the cache has an entry for each, and    *)
(* requests to two targets share nothing else.  The scripts that may       *)
(* change a request before all this, or its response after, are left out,  *)
(* but for their errors: one of a response script is an attempt that fails.*)
(***************************************************************************)
CONSTANTS
  Requests,   \* the requests of the cloud to one target, a hostname and a port
  Certs,      \* the certificates that the option --cert lists
  Pfx,        \* those of them in a .pfx file
  Matchings,  \* bound: the sets of certificates that may match the target
  Policies,   \* bound: the sets of credentials that the target may accept
  NoCert      \* no certificate

ASSUME CertificatesAssumption ==
  /\ Pfx \subseteq Certs
  /\ NoCert \notin Certs
  /\ Matchings \subseteq SUBSET Certs
  /\ Policies \subseteq SUBSET (Pfx \cup {NoCert})

\* What an attempt is about: a certificate, or a request without one.
Attempts == Certs \cup {NoCert}

\* What a TLS client can show.
Credentials == Pfx \cup {NoCert}

VARIABLES
  cache,     \* the target's entry in DefaultCertificatesCache
  request,   \* the requests and their attempts, see RequestType
  matching,  \* the certificates whose hostname and port match the target
  readable,  \* those of them whose files can be read
  accepts,   \* the credentials that the target accepts
  rotated    \* history: the target has changed them

vars == <<cache, request, matching, readable, accepts, rotated>>

RequestType ==
  [pfx     : Credentials,                 \* the field _pfx
   attempt : [Attempts -> {"none", "reading", "loaded", "sent",
                           "ok", "failed", "lost"}],
   shown   : [Attempts -> Credentials],   \* what the attempt was sent with
   answer  : {"none", "response", "error"}]

Tried(r) == {c \in Attempts : request[r].attempt[c] # "none"}

\* Fault: more I/O is awaited between loadCert() and the request.
TurnIsOverEarly == TRUE

\* No attempt is between the end of loadCert() and its request: the event loop
\* may take up the next callback.
TurnIsOver ==
  \A r \in Requests, c \in Certs : request[r].attempt[c] # "loaded"
-----------------------------------------------------------------------------
Init ==
  /\ cache = NoCert
  /\ request = [r \in Requests |->
       [pfx |-> NoCert, attempt |-> [c \in Attempts |-> "none"],
        shown |-> [c \in Attempts |-> NoCert],
        answer |-> "none"]]
  /\ matching \in Matchings
  /\ readable \in SUBSET matching
  /\ accepts \in Policies
  /\ rotated = FALSE

Resolve == IF cache # NoCert THEN {cache} ELSE matching

\* execute(): every attempt starts to read its file.  Without certificates the
\* request is sent as it is.
Execute(r) ==
  /\ TurnIsOver
  /\ Tried(r) = {}
  /\ request' = [request EXCEPT ![r].attempt =
       [c \in Attempts |-> CASE c \in Resolve -> "reading"
                             [] c = NoCert /\ Resolve = {} -> "sent"
                             [] OTHER -> "none"]]
  /\ UNCHANGED <<cache, matching, readable, accepts, rotated>>

\* Fault: a .pfx that another attempt has loaded is kept.
LoadCertOnce(r, c) ==
  IF c \in Pfx /\ request[r].pfx = NoCert
  THEN IF c \in readable THEN c ELSE NoCert
  ELSE request[r].pfx

\* The field _pfx after loadCert(); a file that cannot be read is undefined.
LoadCert(r, c) ==
  IF c \in Pfx
  THEN IF c \in readable THEN c ELSE NoCert
  ELSE request[r].pfx

\* The file has been read, and loadCert() stores it.
Load(r, c) ==
  /\ TurnIsOver
  /\ request[r].attempt[c] = "reading"
  /\ request' = [request EXCEPT ![r].pfx = LoadCert(r, c),
                                ![r].attempt[c] = "loaded"]
  /\ UNCHANGED <<cache, matching, readable, accepts, rotated>>

\* The attempt goes on, and the request is sent with what it holds now.
Send(r, c) ==
  /\ request[r].attempt[c] = "loaded"
  /\ request' = [request EXCEPT ![r].shown[c] = request[r].pfx,
                                ![r].attempt[c] = "sent"]
  /\ UNCHANGED <<cache, matching, readable, accepts, rotated>>

\* The cache after add().
Add(c) == IF cache # NoCert THEN cache ELSE c

\* Fault: Promise.race, the first attempt to end decides.
AnswerFirst(attempt) ==
  IF \E c \in Attempts : attempt[c] \in {"failed", "lost"} THEN "error"
  ELSE IF \E c \in Attempts : attempt[c] = "ok" THEN "response" ELSE "none"


\* Promise.any: the first success answers, and so does the last failure.
Answer(attempt) ==
  IF \E c \in Attempts : attempt[c] = "ok" THEN "response"
  ELSE IF \E c \in Attempts : attempt[c] \in {"reading", "loaded", "sent"} THEN "none"
  ELSE "error"

\* Fault: add() in a finally block, whatever the attempt came to.
EndsCached(r, c, result) ==
  LET attempt == [request[r].attempt EXCEPT ![c] = result] IN
  /\ TurnIsOver
  /\ request[r].attempt[c] = "sent"
  /\ request' = [request EXCEPT ![r].attempt = attempt,
                                ![r].answer = Answer(attempt)]
  /\ cache' = Add(c)
  /\ UNCHANGED <<matching, readable, accepts, rotated>>

\* The attempt c of the request r ends in a result.
Ends(r, c, result) ==
  LET attempt == [request[r].attempt EXCEPT ![c] = result] IN
  /\ TurnIsOver
  /\ request[r].attempt[c] = "sent"
  /\ request' = [request EXCEPT ![r].attempt = attempt,
                                ![r].answer = Answer(attempt)]
  /\ cache' = IF result = "ok" THEN Add(c) ELSE cache
  /\ UNCHANGED <<matching, readable, accepts, rotated>>

Succeeds(r, c) == request[r].shown[c] \in accepts /\ Ends(r, c, "ok")

\* The target wants another certificate, which is a TLS error.
Refused(r, c) == request[r].shown[c] \notin accepts /\ Ends(r, c, "failed")

\* The network fails, the target is late or a script throws.
Fails(r, c) == Ends(r, c, "lost")

\* The target changes its mind.
Rotate ==
  /\ ~rotated
  /\ rotated' = TRUE
  /\ accepts' \in Policies \ {accepts}
  /\ UNCHANGED <<cache, request, matching, readable>>

Next ==
  \/ \E r \in Requests :
       \/ Execute(r)
       \/ \E c \in Certs : Load(r, c) \/ Send(r, c)
       \/ \E c \in Attempts : Succeeds(r, c) \/ Refused(r, c) \/ Fails(r, c)
  \/ Rotate

Spec == Init /\ [][Next]_vars

\* Files are read, and a target answers or the time runs out.
Fairness ==
  \A r \in Requests, c \in Attempts :
    /\ WF_vars(c \in Certs /\ (Load(r, c) \/ Send(r, c)))
    /\ WF_vars(Succeeds(r, c) \/ Refused(r, c) \/ Fails(r, c))
-----------------------------------------------------------------------------
(* Properties *)

\* Every variable has its type.
TypeOK ==
  /\ cache \in Attempts
  /\ request \in [Requests -> RequestType]
  /\ matching \in Matchings
  /\ readable \subseteq matching
  /\ accepts \in Policies
  /\ rotated \in BOOLEAN

\* Though all attempts write to one Request object, and read it again after
\* loadCert() has returned, an attempt with a .pfx shows its own file, or nothing
\* if that cannot be read: no other file that was read meanwhile takes its place.
OwnCredentials ==
  \A r \in Requests, c \in Pfx :
    request[r].attempt[c] \notin {"none", "reading", "loaded"}
      => request[r].shown[c] = IF c \in readable THEN c ELSE NoCert

\* The certificate that is cached is one that the target accepts by itself,
\* whichever attempts of whichever requests raced to cache it.  It is so for a
\* .pfx only: a .pem may be cached for the response to the .pfx of another
\* attempt.
CachedPfxSuffices ==
  cache \in Pfx \cap readable /\ ~rotated => cache \in accepts

\* The Repeater reports an error only if the network failed, the target changed
\* its mind, or no .pfx file listed for the target is accepted.  A request that
\* was left with a cached .pem is the exception.
ErrorJustified ==
  \A r \in Requests :
    /\ request[r].answer = "error"
    /\ \A c \in Attempts : request[r].attempt[c] # "lost"
    /\ ~rotated
    /\ Tried(r) \cap Pfx # {}
    => Pfx \cap readable \cap accepts = {}

\* What is cached has earned it: a request got its response by an attempt with
\* that certificate, and what that attempt showed, which the target accepted,
\* was the file of an attempt of the same request.  For a .pem it may be the
\* file of another attempt, but never a leftover of another request.
CacheEarned ==
  cache # NoCert => \E r \in Requests :
    LET shown == request[r].shown[cache] IN
    /\ request[r].attempt[cache] = "ok"
    /\ request[r].answer = "response"
    /\ ~rotated => shown \in accepts
    /\ shown # NoCert => request[r].attempt[shown] \notin {"none", "reading"}

\* Promise.any settles once: attempts that end after the first response, whatever
\* becomes of them, change nothing of the answer, and none ends after an error.
AnswerIsFinal ==
  [][\A r \in Requests : request[r].answer # "none"
       => request'[r].answer = request[r].answer]_vars

\* execute() never waits for nothing: a request without an answer has an attempt
\* whose file is being read or whose response is still to come.
WaitsForAnAttempt ==
  \A r \in Requests : Tried(r) # {} /\ request[r].answer = "none"
    => \E c \in Attempts : \/ c \in Certs /\ request[r].attempt[c] = "reading"
                           \/ c \in Certs /\ request[r].attempt[c] = "loaded"
                           \/ request[r].attempt[c] = "sent"


\* "It will be excluded from list of known certificates": a certificate that
\* the target refused, which is what that warning is about, is not tried by a
\* later request.
ExcludedIsNotTried ==
  [][\A r, s \in Requests, c \in Certs :
       Execute(r) /\ request[s].attempt[c] = "failed"
         => request'[r].attempt[c] = "none"]_vars
=============================================================================
