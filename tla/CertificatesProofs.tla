------------------------- MODULE CertificatesProofs -------------------------
(***************************************************************************)
(* Proofs about Certificates, for any number of requests and certificates  *)
(* and any policy of the target.                                           *)
(*                                                                         *)
(* The properties depend on each other: what is cached suffices because an *)
(* attempt shows its own file, and an error is justified because what was  *)
(* cached suffices.  CertificatesInv joins them with what the field of a   *)
(* Request, an attempt that ended, an answer, and the choice of attempts   *)
(* stand for.                                                              *)
(***************************************************************************)
EXTENDS Certificates, TLAPS

\* What an attempt with a .pfx shows.
Own(c) == IF c \in readable THEN c ELSE NoCert

\* What an attempt may be at.
States == {"none", "reading", "loaded", "sent", "ok", "failed", "lost"}

\* An attempt whose file has not been read.
Unread == {"none", "reading"}

\* Between the end of loadCert() and the request, the Request holds the file of
\* the attempt that goes on.
LoadedHolds ==
  \A r \in Requests, c \in Pfx :
    request[r].attempt[c] = "loaded" => request[r].pfx = Own(c)

\* Whatever a Request holds or has shown, one of its own attempts has read.
ReadByItself ==
  \A r \in Requests :
    /\ request[r].pfx # NoCert => request[r].attempt[request[r].pfx] \notin Unread
    /\ \A c \in Attempts : request[r].shown[c] # NoCert =>
         request[r].attempt[request[r].shown[c]] \notin Unread

\* An attempt that was refused showed what the target does not accept.
FailedRefused ==
  ~rotated => \A r \in Requests, c \in Attempts :
    request[r].attempt[c] = "failed" => request[r].shown[c] \notin accepts

\* A cached .pfx was accepted, its file or, if that cannot be read, nothing.
CachedAccepted == ~rotated /\ cache \in Pfx => Own(cache) \in accepts

\* A request tries the cached .pfx or all that match.
CachedOrAll ==
  \A r \in Requests, c \in Pfx : request[r].attempt[c] # "none" =>
    c = cache \/ \A d \in matching : request[r].attempt[d] # "none"

\* An error is the answer only when no attempt is left or has succeeded.
ErrorIsLast ==
  \A r \in Requests :
    /\ request[r].answer = "error" => \A c \in Attempts :
         request[r].attempt[c] \notin {"ok", "reading", "loaded", "sent"}
    /\ (\A c \in Attempts : request[r].attempt[c] = "none")
         => request[r].answer = "none"

CertificatesInv ==
  /\ TypeOK
  /\ LoadedHolds
  /\ OwnCredentials
  /\ ReadByItself
  /\ CacheEarned
  /\ FailedRefused
  /\ CachedAccepted
  /\ CachedOrAll
  /\ ErrorIsLast

\* Before the first request nothing has been tried.
LEMMA InitInv == Init => CertificatesInv
<1> SUFFICES ASSUME Init PROVE CertificatesInv
  OBVIOUS
<1> USE CertificatesAssumption DEF Init
<1>1. TypeOK
  BY DEF TypeOK, RequestType, Attempts, Credentials
<1>2. OwnCredentials /\ FailedRefused /\ CachedOrAll /\ ErrorIsLast
  BY DEF OwnCredentials, FailedRefused, CachedOrAll, ErrorIsLast, Attempts
<1>3. CachedAccepted /\ CacheEarned
  BY DEF CachedAccepted, CacheEarned
<1>4. LoadedHolds /\ ReadByItself
  BY DEF LoadedHolds, ReadByItself, Attempts
<1> QED
  BY <1>1, <1>2, <1>3, <1>4 DEF CertificatesInv

\* The parts of a request when execute() starts.
LEMMA ExecuteEffect ==
  ASSUME TypeOK, NEW r \in Requests, Execute(r)
  PROVE  /\ request' \in [Requests -> RequestType]
         /\ \A s \in Requests : s # r => request'[s] = request[s]
         /\ \A c \in Attempts : request[r].attempt[c] = "none"
         /\ \A c \in Attempts : request'[r].attempt[c] =
              CASE c \in Resolve -> "reading"
                [] c = NoCert /\ Resolve = {} -> "sent"
                [] OTHER -> "none"
         /\ request'[r].answer = request[r].answer
         /\ request'[r].pfx = request[r].pfx /\ request'[r].shown = request[r].shown
         /\ UNCHANGED <<cache, matching, readable, accepts, rotated>>
<1> DEFINE a == [c \in Attempts |-> CASE c \in Resolve -> "reading"
                                     [] c = NoCert /\ Resolve = {} -> "sent"
                                     [] OTHER -> "none"]
<1>1. a \in [Attempts -> States]
  BY DEF States
<1>2. request' = [request EXCEPT ![r].attempt = a]
  BY Zenon DEF Execute
<1>3. \A c \in Attempts : a[c] = CASE c \in Resolve -> "reading"
                                   [] c = NoCert /\ Resolve = {} -> "sent"
                                   [] OTHER -> "none"
  BY Zenon
<1> HIDE DEF a
<1>4. request'[r] = [request[r] EXCEPT !.attempt = a]
  BY <1>2 DEF TypeOK
<1>5. request'[r] \in RequestType
  BY <1>1, <1>4 DEF TypeOK, RequestType, States
<1>6. request' \in [Requests -> RequestType]
  BY <1>2, <1>4, <1>5 DEF TypeOK
<1>7. /\ request'[r].attempt = a /\ request'[r].answer = request[r].answer
      /\ request'[r].pfx = request[r].pfx /\ request'[r].shown = request[r].shown
  BY <1>4 DEF TypeOK, RequestType
<1>8. \A c \in Attempts : request[r].attempt[c] = "none"
  BY DEF Execute, Tried
<1> QED
  BY <1>2, <1>3, <1>6, <1>7, <1>8 DEF TypeOK, Execute

\* The parts of a request when the file of an attempt has been read.
LEMMA LoadEffect ==
  ASSUME TypeOK, NEW r \in Requests, NEW c \in Certs, Load(r, c)
  PROVE  /\ request' \in [Requests -> RequestType]
         /\ \A s \in Requests : s # r => request'[s] = request[s]
         /\ request[r].attempt[c] = "reading" /\ request'[r].attempt[c] = "loaded"
         /\ \A d \in Attempts : d # c =>
              request'[r].attempt[d] = request[r].attempt[d]
         /\ request'[r].shown = request[r].shown
         /\ request'[r].answer = request[r].answer
         /\ request'[r].pfx = LoadCert(r, c)
         /\ \A s \in Requests, d \in Certs : request[s].attempt[d] # "loaded"
         /\ UNCHANGED <<cache, matching, readable, accepts, rotated>>
<1> DEFINE new == LoadCert(r, c)
           attempt == [request[r].attempt EXCEPT ![c] = "loaded"]
<1>1. new \in Credentials
  BY CertificatesAssumption DEF LoadCert, TypeOK, RequestType, Credentials
<1>2. request[r] \in RequestType /\ c \in Attempts
  BY DEF TypeOK, Attempts
<1>3. /\ attempt \in [Attempts -> States] /\ attempt[c] = "loaded"
      /\ \A d \in Attempts : d # c => attempt[d] = request[r].attempt[d]
  BY <1>2 DEF RequestType, States
<1>4. request' = [request EXCEPT ![r].pfx = new, ![r].attempt = attempt]
  BY DEF Load
<1> HIDE DEF new, attempt
<1>5. request'[r] = [request[r] EXCEPT !.pfx = new, !.attempt = attempt]
  BY <1>4 DEF TypeOK
<1>6. /\ request'[r].pfx = new /\ request'[r].attempt = attempt
      /\ request'[r].shown = request[r].shown
      /\ request'[r].answer = request[r].answer
  BY <1>2, <1>5 DEF RequestType
<1>7. request'[r] \in RequestType
  BY <1>1, <1>2, <1>3, <1>5 DEF RequestType, States
<1>8. request' \in [Requests -> RequestType]
  BY <1>4, <1>5, <1>7 DEF TypeOK
<1>9. \A s \in Requests : s # r => request'[s] = request[s]
  BY <1>4 DEF TypeOK
<1> QED
  BY <1>3, <1>6, <1>8, <1>9 DEF Load, TurnIsOver, new

\* The parts of a request when it is sent.
LEMMA SendEffect ==
  ASSUME TypeOK, NEW r \in Requests, NEW c \in Certs, Send(r, c)
  PROVE  /\ request' \in [Requests -> RequestType]
         /\ \A s \in Requests : s # r => request'[s] = request[s]
         /\ request[r].attempt[c] = "loaded" /\ request'[r].attempt[c] = "sent"
         /\ request'[r].shown[c] = request[r].pfx
         /\ \A d \in Attempts : d # c =>
              /\ request'[r].attempt[d] = request[r].attempt[d]
              /\ request'[r].shown[d] = request[r].shown[d]
         /\ request'[r].answer = request[r].answer
         /\ request'[r].pfx = request[r].pfx
         /\ UNCHANGED <<cache, matching, readable, accepts, rotated>>
<1> DEFINE shown == [request[r].shown EXCEPT ![c] = request[r].pfx]
           attempt == [request[r].attempt EXCEPT ![c] = "sent"]
<1>1. request[r] \in RequestType /\ c \in Attempts
  BY DEF TypeOK, Attempts
<1>2. /\ attempt \in [Attempts -> States] /\ attempt[c] = "sent"
      /\ \A d \in Attempts : d # c => attempt[d] = request[r].attempt[d]
  BY <1>1 DEF RequestType, States
<1>3. /\ shown \in [Attempts -> Credentials] /\ shown[c] = request[r].pfx
      /\ \A d \in Attempts : d # c => shown[d] = request[r].shown[d]
  BY <1>1 DEF RequestType
<1>4. request' = [request EXCEPT ![r].shown = shown, ![r].attempt = attempt]
  BY DEF Send
<1> HIDE DEF shown, attempt
<1>5. request'[r] = [request[r] EXCEPT !.shown = shown, !.attempt = attempt]
  BY <1>4 DEF TypeOK
<1>6. /\ request'[r].shown = shown /\ request'[r].attempt = attempt
      /\ request'[r].pfx = request[r].pfx
      /\ request'[r].answer = request[r].answer
  BY <1>1, <1>5 DEF RequestType
<1>7. request'[r] \in RequestType
  BY <1>1, <1>2, <1>3, <1>5 DEF RequestType, States
<1>8. request' \in [Requests -> RequestType]
  BY <1>4, <1>5, <1>7 DEF TypeOK
<1>9. \A s \in Requests : s # r => request'[s] = request[s]
  BY <1>4 DEF TypeOK
<1> QED
  BY <1>2, <1>3, <1>6, <1>8, <1>9 DEF Send

\* The parts of a request when an attempt ends.
LEMMA EndsEffect ==
  ASSUME TypeOK, NEW r \in Requests, NEW c \in Attempts,
         NEW result \in {"ok", "failed", "lost"}, Ends(r, c, result)
  PROVE  /\ request' \in [Requests -> RequestType]
         /\ \A s \in Requests : s # r => request'[s] = request[s]
         /\ request[r].attempt[c] = "sent" /\ request'[r].attempt[c] = result
         /\ \A d \in Attempts : d # c =>
              request'[r].attempt[d] = request[r].attempt[d]
         /\ request'[r].shown = request[r].shown
         /\ request'[r].pfx = request[r].pfx
         /\ request'[r].answer = Answer(request'[r].attempt)
         /\ cache' = IF result = "ok" THEN Add(c) ELSE cache
         /\ UNCHANGED <<matching, readable, accepts, rotated>>
<1> DEFINE a == [request[r].attempt EXCEPT ![c] = result]
<1>1. request[r] \in RequestType
  BY DEF TypeOK
<1>2. /\ a \in [Attempts -> States]
      /\ a[c] = result
      /\ \A d \in Attempts : d # c => a[d] = request[r].attempt[d]
  BY <1>1 DEF RequestType, States
<1>3. /\ request' = [request EXCEPT ![r].attempt = a, ![r].answer = Answer(a)]
      /\ request[r].attempt[c] = "sent"
  BY Zenon DEF Ends
<1> HIDE DEF a
<1>4. Answer(a) \in {"none", "response", "error"}
  BY DEF Answer
<1>5. request'[r] = [request[r] EXCEPT !.attempt = a, !.answer = Answer(a)]
  BY <1>3 DEF TypeOK
<1>6. /\ request'[r].attempt = a /\ request'[r].answer = Answer(a)
      /\ request'[r].shown = request[r].shown
      /\ request'[r].pfx = request[r].pfx
  BY <1>1, <1>5 DEF RequestType
<1>7. request'[r] \in RequestType
  BY <1>1, <1>2, <1>4, <1>5 DEF RequestType, States
<1>8. request' \in [Requests -> RequestType]
  BY <1>3, <1>5, <1>7 DEF TypeOK
<1> QED
  BY <1>2, <1>3, <1>6, <1>8 DEF TypeOK, Ends

\* A step that changes one request, keeps the cache and only takes attempts
\* further keeps what is cached earned.
LEMMA KeepEarned ==
  ASSUME CacheEarned, NEW r \in Requests,
         TypeOK, UNCHANGED <<cache, accepts, rotated>>,
         \A s \in Requests : s # r => request'[s] = request[s],
         request'[r].answer = request[r].answer \/ request'[r].answer = "response",
         \A d \in Attempts :
           request[r].attempt[d] = "ok" =>
             /\ request'[r].attempt[d] = "ok"
             /\ request'[r].shown[d] = request[r].shown[d],
         \A d \in Attempts : request[r].attempt[d] \notin Unread =>
           request'[r].attempt[d] \notin Unread
  PROVE  CacheEarned'
<1> SUFFICES ASSUME cache # NoCert PROVE CacheEarned'
  BY DEF CacheEarned
<1>1. PICK s \in Requests :
        /\ request[s].attempt[cache] = "ok"
        /\ request[s].answer = "response"
        /\ ~rotated => request[s].shown[cache] \in accepts
        /\ request[s].shown[cache] # NoCert =>
             request[s].attempt[request[s].shown[cache]] \notin Unread
  BY DEF CacheEarned, Unread
<1>2. cache \in Attempts /\ request[s].shown[cache] \in Attempts
  BY CertificatesAssumption DEF TypeOK, RequestType, Credentials, Attempts
<1>3. /\ request'[s].attempt[cache] = "ok"
      /\ request'[s].answer = "response"
      /\ request'[s].shown[cache] = request[s].shown[cache]
      /\ request[s].shown[cache] # NoCert =>
             request'[s].attempt[request[s].shown[cache]] \notin Unread
  BY <1>1, <1>2
<1> QED
  BY <1>1, <1>3 DEF CacheEarned, Unread

\* execute() preserves the invariant.
LEMMA ExecuteInv ==
  ASSUME CertificatesInv, NEW r \in Requests, Execute(r)
  PROVE  CertificatesInv'
<1> USE CertificatesAssumption
<1>1. TypeOK
  BY DEF CertificatesInv
<1> DEFINE E ==
      /\ request' \in [Requests -> RequestType]
      /\ \A s \in Requests : s # r => request'[s] = request[s]
      /\ \A c \in Attempts : request[r].attempt[c] = "none"
      /\ \A c \in Attempts : request'[r].attempt[c] =
           CASE c \in Resolve -> "reading"
             [] c = NoCert /\ Resolve = {} -> "sent"
             [] OTHER -> "none"
      /\ request'[r].answer = request[r].answer
      /\ request'[r].pfx = request[r].pfx /\ request'[r].shown = request[r].shown
      /\ UNCHANGED <<cache, matching, readable, accepts, rotated>>
<1>2. E
  BY <1>1, ExecuteEffect
<1>3. TypeOK'
  BY <1>1, <1>2 DEF TypeOK
<1>4. \A c \in Attempts : /\ request'[r].attempt[c] \in {"reading", "sent", "none"}
                          /\ c # NoCert => request'[r].attempt[c] # "sent"
  BY <1>2
<1>5. OwnCredentials'
  BY <1>2, <1>4 DEF OwnCredentials, CertificatesInv, Attempts
<1>6. FailedRefused'
  BY <1>2, <1>4 DEF FailedRefused, CertificatesInv
<1>7. CachedAccepted'
  BY <1>2 DEF CachedAccepted, CertificatesInv, Own
<1>8. CachedOrAll'
  <2> SUFFICES ASSUME NEW s \in Requests, NEW c \in Pfx,
                      request'[s].attempt[c] # "none"
               PROVE  c = cache \/ \A d \in matching : request'[s].attempt[d] # "none"
    BY <1>2 DEF CachedOrAll
  <2>1. CASE s # r
    BY <1>2, <2>1 DEF CertificatesInv, CachedOrAll
  <2>2. CASE s = r
    <3>1. c \in Attempts /\ c # NoCert /\ matching \subseteq Attempts
      BY <1>1 DEF Attempts, TypeOK
    <3>2. c \in Resolve
      BY <1>2, <2>2, <3>1
    <3>3. CASE cache # NoCert
      BY <3>2, <3>3 DEF Resolve
    <3>4. CASE cache = NoCert
      <4>1. \A d \in matching : d \in Resolve
        BY <3>4 DEF Resolve
      <4> QED
        BY <1>2, <2>2, <3>1, <4>1
    <3> QED
      BY <3>3, <3>4
  <2> QED
    BY <2>1, <2>2
<1>9. ErrorIsLast'
  BY <1>2, <1>4 DEF CertificatesInv, ErrorIsLast
<1>10. LoadedHolds'
  BY <1>2, <1>4 DEF CertificatesInv, LoadedHolds, Own, Attempts
<1>11. ReadByItself'
  <2>1. /\ request[r].pfx = NoCert
        /\ \A c \in Attempts : request[r].shown[c] = NoCert
    <3>1. request[r].pfx \in Attempts /\ \A c \in Attempts : request[r].shown[c] \in Attempts
      BY <1>1 DEF TypeOK, RequestType, Credentials, Attempts
    <3> QED
      BY <1>2, <3>1 DEF CertificatesInv, ReadByItself, Unread
  <2> QED
    BY <1>2, <2>1 DEF CertificatesInv, ReadByItself
<1>12. CacheEarned'
  BY <1>1, <1>2, KeepEarned DEF CertificatesInv, Unread
<1> QED
  BY <1>3, <1>5, <1>6, <1>7, <1>8, <1>9, <1>10, <1>11, <1>12 DEF CertificatesInv

\* So does the end of loadCert(): nobody else is between it and the request.
LEMMA LoadInv ==
  ASSUME CertificatesInv, NEW r \in Requests, NEW c \in Certs, Load(r, c)
  PROVE  CertificatesInv'
<1> USE CertificatesAssumption
<1>1. TypeOK /\ c \in Attempts
  BY DEF CertificatesInv, Attempts
<1>2. /\ request' \in [Requests -> RequestType]
      /\ \A s \in Requests : s # r => request'[s] = request[s]
      /\ request[r].attempt[c] = "reading" /\ request'[r].attempt[c] = "loaded"
      /\ \A d \in Attempts : d # c =>
           request'[r].attempt[d] = request[r].attempt[d]
      /\ request'[r].shown = request[r].shown
      /\ request'[r].answer = request[r].answer
      /\ request'[r].pfx = LoadCert(r, c)
      /\ \A s \in Requests, d \in Certs : request[s].attempt[d] # "loaded"
      /\ UNCHANGED <<cache, matching, readable, accepts, rotated>>
  BY <1>1, LoadEffect
<1>3. TypeOK'
  BY <1>1, <1>2 DEF TypeOK
<1>4. OwnCredentials'
  BY <1>2 DEF OwnCredentials, CertificatesInv, Attempts
<1>5. FailedRefused'
  BY <1>1, <1>2 DEF FailedRefused, CertificatesInv
<1>6. CachedAccepted'
  BY <1>2 DEF CachedAccepted, CertificatesInv, Own
<1>7. CachedOrAll'
  <2>1. \A s \in Requests, d \in Attempts :
          request'[s].attempt[d] = "none" <=> request[s].attempt[d] = "none"
    BY <1>1, <1>2
  <2>2. matching \subseteq Attempts /\ Pfx \subseteq Attempts
    BY <1>1 DEF TypeOK, Attempts
  <2> QED
    BY <1>2, <2>1, <2>2 DEF CachedOrAll, CertificatesInv
<1>8. ErrorIsLast'
  BY <1>1, <1>2 DEF ErrorIsLast, CertificatesInv
<1>9. LoadedHolds'
  <2> SUFFICES ASSUME NEW s \in Requests, NEW d \in Pfx,
                      request'[s].attempt[d] = "loaded"
               PROVE  request'[s].pfx = Own(d)
    BY <1>2 DEF LoadedHolds, Own
  <2>1. s = r /\ d = c
    BY <1>2 DEF Attempts
  <2> QED
    BY <1>2, <2>1 DEF LoadCert, Own
<1>10. ReadByItself'
  <2>1. \A d \in Attempts : request[r].attempt[d] \notin Unread =>
          request'[r].attempt[d] \notin Unread
    BY <1>1, <1>2 DEF Unread
  <2>2. /\ request[r].pfx \in Attempts
        /\ \A d \in Attempts : request[r].shown[d] \in Attempts
    BY <1>1 DEF TypeOK, RequestType, Credentials, Attempts
  <2>3. LoadCert(r, c) \in {c, NoCert, request[r].pfx}
    BY DEF LoadCert
  <2>4. request'[r].pfx # NoCert => request'[r].attempt[request'[r].pfx] \notin Unread
    <3>1. request'[r].attempt[c] \notin Unread
      BY <1>2 DEF Unread
    <3>2. request[r].pfx # NoCert => request'[r].attempt[request[r].pfx] \notin Unread
      BY <2>1, <2>2 DEF CertificatesInv, ReadByItself
    <3> QED
      BY <1>2, <2>3, <3>1, <3>2
  <2>5. \A d \in Attempts : request'[r].shown[d] # NoCert =>
          request'[r].attempt[request'[r].shown[d]] \notin Unread
    BY <1>2, <2>1, <2>2 DEF CertificatesInv, ReadByItself
  <2> QED
    BY <1>2, <2>4, <2>5 DEF CertificatesInv, ReadByItself
<1>11. CacheEarned'
  <2>1. \A d \in Attempts :
          /\ request[r].attempt[d] = "ok" => request'[r].attempt[d] = "ok"
          /\ request[r].attempt[d] \notin Unread => request'[r].attempt[d] \notin Unread
    BY <1>1, <1>2 DEF Unread
  <2> QED
    BY <1>1, <1>2, <2>1, KeepEarned DEF CertificatesInv
<1> QED
  BY <1>3, <1>4, <1>5, <1>6, <1>7, <1>8, <1>9, <1>10, <1>11 DEF CertificatesInv

\* So does the request that follows, which is sent with the file of its attempt.
LEMMA SendInv ==
  ASSUME CertificatesInv, NEW r \in Requests, NEW c \in Certs, Send(r, c)
  PROVE  CertificatesInv'
<1> USE CertificatesAssumption
<1>1. TypeOK /\ c \in Attempts
  BY DEF CertificatesInv, Attempts
<1>2. /\ request' \in [Requests -> RequestType]
      /\ \A s \in Requests : s # r => request'[s] = request[s]
      /\ request[r].attempt[c] = "loaded" /\ request'[r].attempt[c] = "sent"
      /\ request'[r].shown[c] = request[r].pfx
      /\ \A d \in Attempts : d # c =>
           /\ request'[r].attempt[d] = request[r].attempt[d]
           /\ request'[r].shown[d] = request[r].shown[d]
      /\ request'[r].answer = request[r].answer
      /\ request'[r].pfx = request[r].pfx
      /\ UNCHANGED <<cache, matching, readable, accepts, rotated>>
  BY <1>1, SendEffect
<1>3. TypeOK'
  BY <1>1, <1>2 DEF TypeOK
<1>4. OwnCredentials'
  <2>1. c \in Pfx => request[r].pfx = Own(c)
    BY <1>2 DEF CertificatesInv, LoadedHolds
  <2> QED
    BY <1>2, <2>1 DEF OwnCredentials, CertificatesInv, Attempts, Own
<1>5. FailedRefused'
  BY <1>1, <1>2 DEF FailedRefused, CertificatesInv
<1>6. CachedAccepted'
  BY <1>2 DEF CachedAccepted, CertificatesInv, Own
<1>7. CachedOrAll'
  <2>1. \A s \in Requests, d \in Attempts :
          request'[s].attempt[d] = "none" <=> request[s].attempt[d] = "none"
    BY <1>1, <1>2
  <2>2. matching \subseteq Attempts /\ Pfx \subseteq Attempts
    BY <1>1 DEF TypeOK, Attempts
  <2> QED
    BY <1>2, <2>1, <2>2 DEF CachedOrAll, CertificatesInv
<1>8. ErrorIsLast'
  BY <1>1, <1>2 DEF ErrorIsLast, CertificatesInv
<1>9. LoadedHolds'
  BY <1>2 DEF LoadedHolds, CertificatesInv, Attempts, Own
<1>10. \A d \in Attempts :
         /\ request[r].attempt[d] \notin Unread => request'[r].attempt[d] \notin Unread
         /\ request[r].attempt[d] = "ok" => /\ request'[r].attempt[d] = "ok"
                                            /\ request'[r].shown[d] = request[r].shown[d]
  BY <1>1, <1>2 DEF Unread
<1>11. ReadByItself'
  <2>1. /\ request[r].pfx \in Attempts
        /\ \A d \in Attempts : request[r].shown[d] \in Attempts
    BY <1>1 DEF TypeOK, RequestType, Credentials, Attempts
  <2>2. request[r].pfx # NoCert => request'[r].attempt[request[r].pfx] \notin Unread
    BY <1>10, <2>1 DEF CertificatesInv, ReadByItself
  <2>3. \A d \in Attempts : request'[r].shown[d] # NoCert =>
          request'[r].attempt[request'[r].shown[d]] \notin Unread
    BY <1>2, <1>10, <2>1, <2>2 DEF CertificatesInv, ReadByItself
  <2> QED
    BY <1>2, <2>2, <2>3 DEF CertificatesInv, ReadByItself
<1>12. CacheEarned'
  BY <1>1, <1>2, <1>10, KeepEarned DEF CertificatesInv
<1> QED
  BY <1>3, <1>4, <1>5, <1>6, <1>7, <1>8, <1>9, <1>11, <1>12 DEF CertificatesInv

\* So does the end of an attempt, whose result is due to what it showed.
LEMMA EndsInv ==
  ASSUME CertificatesInv, NEW r \in Requests, NEW c \in Attempts,
         NEW result \in {"ok", "failed", "lost"}, Ends(r, c, result),
         result = "failed" => request[r].shown[c] \notin accepts,
         result = "ok" => request[r].shown[c] \in accepts
  PROVE  CertificatesInv'
<1> USE CertificatesAssumption
<1>1. TypeOK
  BY DEF CertificatesInv
<1>2. /\ request' \in [Requests -> RequestType]
      /\ \A s \in Requests : s # r => request'[s] = request[s]
      /\ request[r].attempt[c] = "sent" /\ request'[r].attempt[c] = result
      /\ \A d \in Attempts : d # c =>
           request'[r].attempt[d] = request[r].attempt[d]
      /\ request'[r].shown = request[r].shown
      /\ request'[r].pfx = request[r].pfx
      /\ request'[r].answer = Answer(request'[r].attempt)
      /\ cache' = IF result = "ok" THEN Add(c) ELSE cache
      /\ UNCHANGED <<matching, readable, accepts, rotated>>
  BY <1>1, EndsEffect
<1>3. TypeOK'
  BY <1>1, <1>2 DEF TypeOK, Add
<1>4. OwnCredentials'
  BY <1>2 DEF OwnCredentials, CertificatesInv, Attempts
<1>5. FailedRefused'
  BY <1>2 DEF FailedRefused, CertificatesInv
<1>6. CachedAccepted'
  <2> SUFFICES ASSUME ~rotated, cache' \in Pfx PROVE Own(cache') \in accepts
    BY <1>2 DEF CachedAccepted, Own
  <2>1. CASE cache' = cache
    BY <2>1 DEF CertificatesInv, CachedAccepted
  <2>2. CASE cache' # cache
    <3>1. cache' = c /\ request[r].shown[c] \in accepts
      BY <1>2, <2>2 DEF Add
    <3>2. request[r].shown[c] = Own(c)
      BY <1>2, <3>1 DEF CertificatesInv, OwnCredentials, Own
    <3> QED
      BY <3>1, <3>2
  <2> QED
    BY <2>1, <2>2
<1>7. CachedOrAll'
  <2>1. \A s \in Requests, d \in Attempts :
          request'[s].attempt[d] = "none" <=> request[s].attempt[d] = "none"
    BY <1>2
  <2>2. matching \subseteq Attempts /\ Pfx \subseteq Attempts
    BY <1>1 DEF TypeOK, Attempts
  <2>3. cache \in Pfx => cache' = cache
    BY <1>2 DEF Add
  <2> QED
    BY <1>2, <2>1, <2>2, <2>3 DEF CachedOrAll, CertificatesInv
<1>8. ErrorIsLast'
  <2>1. /\ request'[r].answer = "error" => \A d \in Attempts :
             request'[r].attempt[d] \notin {"ok", "reading", "loaded", "sent"}
        /\ ~\A d \in Attempts : request'[r].attempt[d] = "none"
    BY <1>2 DEF Answer
  <2>2. \A s \in Requests : s # r => request'[s] = request[s]
    BY <1>2
  <2> QED
    BY <2>1, <2>2 DEF ErrorIsLast, CertificatesInv
<1>9. LoadedHolds'
  BY <1>2 DEF LoadedHolds, CertificatesInv, Attempts, Own
<1>10. \A d \in Attempts :
         /\ request[r].attempt[d] \notin Unread => request'[r].attempt[d] \notin Unread
         /\ request[r].attempt[d] = "ok" => request'[r].attempt[d] = "ok"
  BY <1>2 DEF Unread
<1>11. /\ request[r].pfx \in Attempts
       /\ \A d \in Attempts : request[r].shown[d] \in Attempts
  BY <1>1 DEF TypeOK, RequestType, Credentials, Attempts
<1>12. ReadByItself'
  <2>1. request[r].pfx # NoCert => request'[r].attempt[request[r].pfx] \notin Unread
    BY <1>10, <1>11 DEF CertificatesInv, ReadByItself
  <2>2. \A d \in Attempts : request[r].shown[d] # NoCert =>
          request'[r].attempt[request[r].shown[d]] \notin Unread
    BY <1>10, <1>11 DEF CertificatesInv, ReadByItself
  <2> QED
    BY <1>2, <2>1, <2>2 DEF CertificatesInv, ReadByItself
<1>13. CacheEarned'
  <2>1. CASE cache' = cache
    <3>1. request'[r].answer \in {request[r].answer, "response"}
          \/ \A d \in Attempts : request[r].attempt[d] # "ok"
      BY <1>2, <1>10 DEF Answer
    <3>2. CASE request'[r].answer \in {request[r].answer, "response"}
      BY <1>1, <1>2, <1>10, <2>1, <3>2, KeepEarned DEF CertificatesInv
    <3>3. CASE \A d \in Attempts : request[r].attempt[d] # "ok"
      <4> SUFFICES ASSUME cache # NoCert PROVE CacheEarned'
        BY <2>1 DEF CacheEarned
      <4>1. PICK s \in Requests :
              /\ request[s].attempt[cache] = "ok"
              /\ request[s].answer = "response"
              /\ ~rotated => request[s].shown[cache] \in accepts
              /\ request[s].shown[cache] # NoCert =>
                   request[s].attempt[request[s].shown[cache]] \notin Unread
        BY DEF CertificatesInv, CacheEarned, Unread
      <4>2. request'[s] = request[s]
        BY <1>1, <1>2, <3>3, <4>1 DEF TypeOK
      <4> QED
        BY <1>2, <2>1, <4>1, <4>2 DEF CacheEarned, Unread
    <3> QED
      BY <3>1, <3>2, <3>3
  <2>2. CASE cache' # cache
    <3>1. cache' = c /\ result = "ok" /\ request[r].shown[c] \in accepts
      BY <1>2, <2>2 DEF Add
    <3>2. request'[r].attempt[c] = "ok" /\ request'[r].shown[c] = request[r].shown[c]
      BY <1>2, <3>1
    <3>3. request'[r].answer = "response"
      BY <1>2, <3>2 DEF Answer
    <3>4. request'[r].shown[c] # NoCert =>
            request'[r].attempt[request'[r].shown[c]] \notin Unread
      BY <1>12 DEF ReadByItself
    <3> QED
      BY <1>2, <3>1, <3>2, <3>3, <3>4 DEF CacheEarned, Unread
  <2> QED
    BY <2>1, <2>2
<1> QED
  BY <1>3, <1>4, <1>5, <1>6, <1>7, <1>8, <1>9, <1>12, <1>13 DEF CertificatesInv

\* CertificatesInv is an invariant.
THEOREM SpecInvariant == Spec => []CertificatesInv
<1>1. CertificatesInv /\ [Next]_vars => CertificatesInv'
  <2> SUFFICES ASSUME CertificatesInv, [Next]_vars PROVE CertificatesInv'
    OBVIOUS
  <2>1. ASSUME NEW r \in Requests, Execute(r) PROVE CertificatesInv'
    BY <2>1, ExecuteInv
  <2>2. ASSUME NEW r \in Requests, NEW c \in Certs, Load(r, c)
        PROVE  CertificatesInv'
    BY <2>2, LoadInv
  <2>3. ASSUME NEW r \in Requests, NEW c \in Certs, Send(r, c)
        PROVE  CertificatesInv'
    BY <2>3, SendInv
  <2>4. ASSUME NEW r \in Requests, NEW c \in Attempts,
               Succeeds(r, c) \/ Refused(r, c) \/ Fails(r, c)
        PROVE  CertificatesInv'
    <3>1. CASE Succeeds(r, c)
      BY <3>1, EndsInv DEF Succeeds
    <3>2. CASE Refused(r, c)
      BY <3>2, EndsInv DEF Refused
    <3>3. CASE Fails(r, c)
      BY <3>3, EndsInv DEF Fails
    <3> QED
      BY <2>4, <3>1, <3>2, <3>3
  <2>5. CASE Rotate
    <3>1. (TypeOK /\ OwnCredentials /\ FailedRefused /\ CachedAccepted)'
      BY <2>5 DEF Rotate, CertificatesInv, TypeOK, OwnCredentials, FailedRefused,
                  CachedAccepted
    <3>2. (CachedOrAll /\ ErrorIsLast /\ LoadedHolds /\ ReadByItself)'
      BY <2>5 DEF Rotate, CertificatesInv, CachedOrAll, ErrorIsLast, LoadedHolds,
                  ReadByItself, Own
    <3>3. CacheEarned'
      BY <2>5 DEF Rotate, CertificatesInv, CacheEarned
    <3> QED
      BY <3>1, <3>2, <3>3 DEF CertificatesInv
  <2>6. CASE UNCHANGED vars
    <3>1. (TypeOK /\ OwnCredentials /\ FailedRefused /\ CachedAccepted)'
      BY <2>6 DEF vars, CertificatesInv, TypeOK, OwnCredentials, FailedRefused,
                  CachedAccepted, Own
    <3>2. (CachedOrAll /\ ErrorIsLast /\ LoadedHolds /\ ReadByItself)'
      BY <2>6 DEF vars, CertificatesInv, CachedOrAll, ErrorIsLast, LoadedHolds,
                  ReadByItself, Own
    <3>3. CacheEarned'
      BY <2>6 DEF vars, CertificatesInv, CacheEarned
    <3> QED
      BY <3>1, <3>2, <3>3 DEF CertificatesInv
  <2> QED
    BY <2>1, <2>2, <2>3, <2>4, <2>5, <2>6 DEF Next
<1> QED
  BY InitInv, <1>1, PTL DEF Spec

\* Every variable of Certificates has its type.
THEOREM SpecTypeOK == Spec => []TypeOK
  BY SpecInvariant, PTL DEF CertificatesInv

\* However the attempts of a request overlap, and whatever is read between the
\* end of loadCert() and the request, one with a .pfx file is sent with that file.
THEOREM SpecOwnCredentials == Spec => []OwnCredentials
  BY SpecInvariant, PTL DEF CertificatesInv

\* Whichever request caches a .pfx file, the target accepts that file.
THEOREM SpecCachedPfxSuffices == Spec => []CachedPfxSuffices
<1>1. CertificatesInv => CachedPfxSuffices
  BY DEF CertificatesInv, CachedAccepted, CachedPfxSuffices, Own
<1> QED
  BY SpecInvariant, <1>1, PTL

\* An error without a failure of the network and without a change of the
\* target means that no .pfx file would have done.
THEOREM SpecErrorJustified == Spec => []ErrorJustified
<1>1. CertificatesInv => ErrorJustified
  <2> SUFFICES ASSUME CertificatesInv, NEW r \in Requests,
                      request[r].answer = "error",
                      \A c \in Attempts : request[r].attempt[c] # "lost",
                      ~rotated, Tried(r) \cap Pfx # {},
                      NEW d \in Pfx \cap readable \cap accepts
               PROVE  FALSE
    BY DEF ErrorJustified
  <2> USE CertificatesAssumption DEF CertificatesInv
  <2>1. PICK c \in Pfx : request[r].attempt[c] # "none"
    BY DEF Tried
  <2>2. \A e \in Attempts : request[r].attempt[e] \in {"none", "failed"}
    BY DEF ErrorIsLast, TypeOK, RequestType
  <2>3. \A e \in Pfx : request[r].attempt[e] # "none" => Own(e) \notin accepts
    BY <2>2 DEF OwnCredentials, FailedRefused, Own, Attempts
  <2>4. c # cache
    BY <2>1, <2>3 DEF CachedAccepted
  <2>5. request[r].attempt[d] # "none"
    BY <2>1, <2>4, SMTT(20) DEF CachedOrAll, TypeOK
  <2> QED
    BY <2>3, <2>5 DEF Own
<1> QED
  BY SpecInvariant, <1>1, PTL

\* A certificate is cached for a response that one request got with the files of
\* its own attempts.
THEOREM SpecCacheEarned == Spec => []CacheEarned
  BY SpecInvariant, PTL DEF CertificatesInv

-----------------------------------------------------------------------------
(* The answer *)

\* An attempt that has not ended.
Pending == {"reading", "loaded", "sent"}

(* What Promise.any holds between two ends of attempts: the answer that    *)
(* the attempts of a request give so far.                                  *)
AnswerInv ==
  /\ TypeOK
  /\ \A r \in Requests :
       /\ request[r].answer = IF Tried(r) = {} THEN "none" ELSE Answer(request[r].attempt)
       /\ request[r].attempt[NoCert] \notin {"reading", "loaded"}

\* Attempts that are as far, for Promise.any, give the same answer.
LEMMA SameAnswer ==
  ASSUME NEW a, NEW b,
         \A c \in Attempts : a[c] = "ok" <=> b[c] = "ok",
         (\E c \in Attempts : a[c] \in Pending)
           <=> \E c \in Attempts : b[c] \in Pending
  PROVE  Answer(a) = Answer(b)
  BY DEF Answer, Pending

\* One response is enough.
LEMMA Responds ==
  ASSUME NEW a, NEW c \in Attempts, a[c] = "ok" PROVE Answer(a) = "response"
  BY DEF Answer

\* AnswerInv is preserved.
LEMMA StepAnswer == AnswerInv /\ CertificatesInv' /\ [Next]_vars => AnswerInv'
<1> SUFFICES ASSUME AnswerInv, CertificatesInv', [Next]_vars PROVE AnswerInv'
  OBVIOUS
<1> USE CertificatesAssumption
<1> DEFINE Good(r) ==
      /\ request[r].answer = IF Tried(r) = {} THEN "none" ELSE Answer(request[r].attempt)
      /\ request[r].attempt[NoCert] \notin {"reading", "loaded"}
<1>1. TypeOK /\ TypeOK' /\ \A r \in Requests : Good(r)
  BY DEF AnswerInv, CertificatesInv
<1>2. NoCert \in Attempts
  BY DEF Attempts
<1>3. ASSUME NEW r \in Requests, Good(r)', \A s \in Requests : s # r => request'[s] = request[s]
      PROVE  AnswerInv'
  <2>1. ASSUME NEW s \in Requests, s # r PROVE Good(s)'
    BY <1>1, <1>3, <2>1 DEF Tried
  <2> QED
    BY <1>1, <1>3, <2>1 DEF AnswerInv
<1>4. ASSUME NEW r \in Requests, Execute(r) PROVE AnswerInv'
  <2> DEFINE a == request[r].attempt
             b == request'[r].attempt
  <2>1. /\ \A s \in Requests : s # r => request'[s] = request[s]
        /\ \A c \in Attempts : a[c] = "none"
        /\ \A c \in Attempts : b[c] = CASE c \in Resolve -> "reading"
                                         [] c = NoCert /\ Resolve = {} -> "sent"
                                         [] OTHER -> "none"
        /\ request'[r].answer = request[r].answer
    BY <1>1, <1>4, ExecuteEffect
  <2>2. Resolve \subseteq Certs /\ NoCert \notin Resolve /\ Resolve \subseteq Attempts
    BY <1>1 DEF Resolve, TypeOK, Attempts
  <2>3. \E c \in Attempts : b[c] \in Pending
    <3>1. CASE Resolve = {}
      BY <1>2, <2>1, <3>1 DEF Pending
    <3>2. CASE Resolve # {}
      BY <2>1, <2>2, <3>2 DEF Pending
    <3> QED
      BY <3>1, <3>2
  <2>4. \A c \in Attempts : b[c] # "ok"
    BY <2>1
  <2>5. Answer(b) = "none" /\ Tried(r)' # {}
    BY <2>3, <2>4 DEF Answer, Tried, Pending
  <2>6. request[r].answer = "none"
    BY <1>1, <2>1 DEF Tried
  <2>7. b[NoCert] \notin {"reading", "loaded"}
    BY <1>2, <2>1, <2>2
  <2> QED
    BY <1>3, <2>1, <2>5, <2>6, <2>7
<1>5. ASSUME NEW r \in Requests, NEW c \in Certs, Load(r, c) \/ Send(r, c)
      PROVE  AnswerInv'
  <2> DEFINE a == request[r].attempt
             b == request'[r].attempt
  <2>1. /\ \A s \in Requests : s # r => request'[s] = request[s]
        /\ a[c] \in {"reading", "loaded"} /\ b[c] \in {"loaded", "sent"}
        /\ \A d \in Attempts : d # c => b[d] = a[d]
        /\ request'[r].answer = request[r].answer
    BY <1>1, <1>5, LoadEffect, SendEffect
  <2>2. c \in Attempts /\ c # NoCert
    BY DEF Attempts
  <2>3. Answer(a) = Answer(b)
    <3>1. \A d \in Attempts : a[d] = "ok" <=> b[d] = "ok"
      BY <2>1, <2>2
    <3>2. /\ \E d \in Attempts : a[d] \in Pending
          /\ \E d \in Attempts : b[d] \in Pending
      BY <2>1, <2>2 DEF Pending
    <3> HIDE DEF a, b
    <3> QED
      BY <3>1, <3>2, SameAnswer
  <2>4. Tried(r) # {} /\ Tried(r)' # {}
    BY <2>1, <2>2 DEF Tried
  <2>5. b[NoCert] \notin {"reading", "loaded"}
    BY <1>1, <1>2, <2>1, <2>2
  <2> QED
    BY <1>1, <1>3, <2>1, <2>3, <2>4, <2>5
<1>6. ASSUME NEW r \in Requests, NEW c \in Attempts,
             NEW result \in {"ok", "failed", "lost"}, Ends(r, c, result)
      PROVE  AnswerInv'
  <2>1. /\ \A s \in Requests : s # r => request'[s] = request[s]
        /\ request'[r].attempt[c] = result
        /\ \A d \in Attempts : d # c => request'[r].attempt[d] = request[r].attempt[d]
        /\ request'[r].answer = Answer(request'[r].attempt)
    BY <1>1, <1>6, EndsEffect
  <2>2. Tried(r)' # {}
    BY <2>1 DEF Tried
  <2>3. request'[r].attempt[NoCert] \notin {"reading", "loaded"}
    BY <1>1, <1>2, <2>1
  <2> QED
    BY <1>3, <2>1, <2>2, <2>3
<1>7. CASE UNCHANGED request
  <2>1. \A r \in Requests : Good(r)'
    BY <1>1, <1>7 DEF Tried
  <2> QED
    BY <1>1, <2>1 DEF AnswerInv
<1> QED
  BY <1>4, <1>5, <1>6, <1>7 DEF Next, Succeeds, Refused, Fails, Rotate, vars

\* A request that waits for its answer waits for an attempt, however many
\* certificates match, and whichever of them are being read, refused or lost.
THEOREM SpecWaitsForAnAttempt == Spec => []WaitsForAnAttempt
<1>1. Init => AnswerInv
  BY InitInv DEF Init, AnswerInv, CertificatesInv, Tried, Attempts
<1>2. AnswerInv => WaitsForAnAttempt
  <2> SUFFICES ASSUME AnswerInv, NEW r \in Requests, Tried(r) # {},
                      request[r].answer = "none"
               PROVE  \E c \in Attempts : \/ c \in Certs /\ request[r].attempt[c] = "reading"
                                          \/ c \in Certs /\ request[r].attempt[c] = "loaded"
                                          \/ request[r].attempt[c] = "sent"
    BY DEF WaitsForAnAttempt
  <2>1. Answer(request[r].attempt) = "none"
    BY DEF AnswerInv
  <2>2. PICK c \in Attempts : request[r].attempt[c] \in Pending
    BY <2>1 DEF Answer, Pending
  <2> QED
    BY <2>2 DEF AnswerInv, Attempts, Pending
<1> QED
  BY <1>1, <1>2, StepAnswer, SpecInvariant, PTL DEF Spec

\* A request is answered once: what its other attempts come to changes nothing.
THEOREM SpecAnswerIsFinal == Spec => AnswerIsFinal
<1>1. Init => AnswerInv
  BY InitInv DEF Init, AnswerInv, CertificatesInv, Tried, Attempts
<1>2. AnswerInv /\ [Next]_vars
        => [\A r \in Requests : request[r].answer # "none"
              => request'[r].answer = request[r].answer]_vars
  <2> SUFFICES ASSUME AnswerInv, Next, NEW s \in Requests, request[s].answer # "none"
               PROVE  request'[s].answer = request[s].answer
    BY DEF vars
  <2>1. TypeOK /\ request[s].answer = Answer(request[s].attempt)
    BY DEF AnswerInv
  <2>2. ASSUME NEW r \in Requests, Execute(r) PROVE request'[s].answer = request[s].answer
    BY <2>1, <2>2, ExecuteEffect
  <2>3. ASSUME NEW r \in Requests, NEW c \in Certs, Load(r, c) \/ Send(r, c)
        PROVE  request'[s].answer = request[s].answer
    BY <2>1, <2>3, LoadEffect, SendEffect
  <2>4. ASSUME NEW r \in Requests, NEW c \in Attempts,
               NEW result \in {"ok", "failed", "lost"}, Ends(r, c, result)
        PROVE  request'[s].answer = request[s].answer
    <3> DEFINE a == request[r].attempt
               b == request'[r].attempt
    <3>1. /\ \A q \in Requests : q # r => request'[q] = request[q]
          /\ a[c] = "sent" /\ b[c] = result
          /\ \A d \in Attempts : d # c => b[d] = a[d]
          /\ request'[r].answer = Answer(b)
      BY <2>1, <2>4, EndsEffect
    <3>2. CASE s # r
      BY <3>1, <3>2
    <3>3. CASE s = r
      <4>1. Answer(a) # "none"
        BY <2>1, <3>3
      <4>2. PICK d \in Attempts : a[d] = "ok"
        BY <3>1, <4>1 DEF Answer
      <4>3. b[d] = "ok"
        BY <3>1, <4>2
      <4>4. Answer(a) = "response" /\ Answer(b) = "response"
        BY <4>2, <4>3, Responds
      <4> QED
        BY <2>1, <3>1, <3>3, <4>4
    <3> QED
      BY <3>2, <3>3
  <2>5. CASE UNCHANGED request
    BY <2>5
  <2> QED
    BY <2>2, <2>3, <2>4, <2>5 DEF Next, Succeeds, Refused, Fails, Rotate
<1> QED
  BY <1>1, <1>2, StepAnswer, SpecInvariant, PTL DEF Spec, AnswerIsFinal
=============================================================================
