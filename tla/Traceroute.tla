----------------------------- MODULE Traceroute -----------------------------
(***************************************************************************)
(* The traceroute of Utils/Traceroute.ts over ICMP, the protocol that its  *)
(* only caller selects.  A chain of callbacks drives it:                   *)
(*                                                                         *)
(*   sendPacket -> afterSend -> (timer | reply, lookup) -> handleReply     *)
(*        ^                                                    |           *)
(*        +--------------------- setImmediate -----------------+           *)
(*                                                                         *)
(* Every message with the sequence `port` is taken for a reply, until      *)
(* sendPacket changes `port`: a duplicate, the echo request itself when    *)
(* the target is this host, or a reply after the timer of its probe.  Each *)
(* waits for the name of its sender, and goes on to handleReply, which     *)
(* clears the one timer that the field holds.  When that timer is not      *)
(* running any more there is one chain more from then on, over the same    *)
(* counters.  `extra` counts how often that has happened.                  *)
(*                                                                         *)
(* A probe is named by its `port`, counted from the first one.  An address *)
(* is "dest", the destination, or "router", any other; "none" stands for   *)
(* the missing argument of handleReply.                                    *)
(***************************************************************************)
EXTENDS Integers, FiniteSets

CONSTANTS
  AmountProbes, \* options.amountProbes, which may be 0 or negative
  MaximumHops,  \* options.maximumHops: the last ttl
  MaxTtl,       \* the 255 of an IP header: the greatest ttl of the socket
  Distance,     \* the ttl at which a probe reaches the destination
  MaxCopies     \* bound: further messages with the sequence of a probe

ASSUME TracerouteAssumption ==
  /\ AmountProbes \in Int
  /\ MaxTtl \in Nat
  /\ MaximumHops \in 1..MaxTtl
  /\ Distance \in Nat \ {0}
  /\ MaxCopies \in Nat

VARIABLES
  status,    \* of the promise of execute(): see Statuses
  ttl,
  probes,    \* the probes sent for this ttl
  port,      \* of the probe sent last
  scheduled, \* the number of calls of sendPacket that setImmediate holds
  queued,    \* the probes that the raw socket has yet to send
  onWire,    \* of the probe `port`: "no", "sent" or "answered"
  lookups,   \* how many replies of each address have their sender looked up
  timers,    \* the probes whose timer is running
  timeout,   \* the probe whose timer the field `timeout` holds, 0 for none
  socket,    \* "open" or "closed": icmpSocket
  reached,   \* the result of execute()
  copies,    \* the messages that came after the first for their probe
  extra      \* history: the replies that were handled with no timer to clear

traceVars == <<status, ttl, probes, port, scheduled, queued, onWire, lookups,
               timers, timeout, socket, reached, copies, extra>>
chainVars == <<ttl, probes, port, scheduled, queued, onWire, lookups, timers,
               timeout, copies, extra>>

Statuses == {"idle", "resolving", "running", "stopped", "failed", "crashed"}
Addresses == {"dest", "router"}

TraceTypeOK ==
  /\ status \in Statuses
  /\ ttl \in Nat \ {0} /\ probes \in Nat /\ port \in Nat
  /\ scheduled \in Nat
  /\ queued \in SUBSET (1..port)
  /\ onWire \in {"no", "sent", "answered"}
  /\ lookups \in [Addresses -> Nat]
  /\ timers \in SUBSET (1..port)
  /\ timeout \in 0..port
  /\ socket \in {"closed", "open"}
  /\ reached \in BOOLEAN
  /\ copies \in 0..MaxCopies /\ extra \in Nat

TraceInit ==
  /\ status = "idle"
  /\ ttl = 1 /\ probes = 0 /\ port = 0
  /\ scheduled = 0 /\ queued = {} /\ onWire = "no"
  /\ lookups = [a \in Addresses |-> 0]
  /\ timers = {} /\ timeout = 0
  /\ socket = "closed" /\ reached = FALSE
  /\ copies = 0 /\ extra = 0

-----------------------------------------------------------------------------
(* Callbacks run until Node ends, those of the socket until it is closed. *)
Alive == status \in {"running", "failed", "stopped"}
Listening == Alive /\ socket = "open"

\* The constructor opens the raw socket; execute() looks the address up.
Execute ==
  /\ status = "idle"
  /\ status' = "resolving"
  /\ socket' = "open"
  /\ UNCHANGED <<chainVars, reached>>

\* The lookup ends, well or not, and execute() waits for Stop or an error.
Resolved ==
  /\ status = "resolving"
  /\ status' = "running"
  /\ scheduled' = scheduled + 1
  /\ UNCHANGED <<ttl, probes, port, queued, onWire, lookups, timers, timeout,
                 socket, reached, copies, extra>>

\* once() takes the first error, and execute() rejects without abort(). With
\* nobody listening `error` is thrown and ends the process.
EmitError ==
  /\ status' = IF status = "running" THEN "failed" ELSE "crashed"
  /\ UNCHANGED <<socket, reached>>

\* The next probe belongs to the next ttl once this one has all of its own.
Count ==
  LET full == probes >= AmountProbes
  IN /\ ttl' = IF full THEN ttl + 1 ELSE ttl
     /\ probes' = IF full THEN 1 ELSE probes + 1

\* sendPacket(): from now on replies must match the new `port`. setOption()
\* throws for a ttl above MaxTtl and on a socket that is closed, and with no
\* caller to catch it ends the process.
SendPacket ==
  /\ Alive /\ scheduled > 0
  /\ Count
  /\ port' = port + 1
  /\ scheduled' = scheduled - 1
  /\ onWire' = "no"
  /\ IF ttl' > MaxTtl \/ socket = "closed"
     THEN status' = "crashed" /\ UNCHANGED queued
     ELSE queued' = queued \union {port'} /\ UNCHANGED status
  /\ UNCHANGED <<lookups, timers, timeout, socket, reached, copies, extra>>

\* afterSend(): the probe is out and its timer starts.
Sent(p) ==
  /\ Listening /\ p \in queued
  /\ queued' = queued \ {p}
  /\ onWire' = IF p = port THEN "sent" ELSE onWire
  /\ timers' = timers \union {p}
  /\ timeout' = p
  /\ UNCHANGED <<status, ttl, probes, port, scheduled, lookups, socket,
                 reached, copies, extra>>

\* afterSend() with an error, of a name without an address for one.
SendFails(p) ==
  /\ Listening /\ p \in queued
  /\ queued' = queued \ {p}
  /\ EmitError
  /\ UNCHANGED <<ttl, probes, port, scheduled, onWire, lookups, timers,
                 timeout, copies, extra>>

\* The socket itself emits `error`.
SocketFails ==
  /\ Listening \/ status = "resolving"
  /\ EmitError
  /\ UNCHANGED chainVars

\* A message with the sequence of the probe sent last, the first one or one
\* more: the name of its sender is looked up.
Reply ==
  /\ Listening /\ onWire # "no"
  /\ copies' = IF onWire = "answered" THEN copies + 1 ELSE copies
  /\ copies' <= MaxCopies
  /\ onWire' = "answered"
  /\ lookups' = [lookups EXCEPT
                   ![IF ttl >= Distance THEN "dest" ELSE "router"] = @ + 1]
  /\ UNCHANGED <<status, ttl, probes, port, scheduled, queued, timers,
                 timeout, socket, reached, extra>>

\* Fault: the timer of the probe is not cleared.
HandleReplyUncleared(ip, fired) ==
  /\ timers' = timers \ {fired}
  /\ IF probes = AmountProbes /\ (ip = "dest" \/ ttl >= MaximumHops)
     THEN /\ status' = IF status = "running" THEN "stopped" ELSE status
          /\ socket' = IF status = "running" THEN "closed" ELSE socket
          /\ reached' = IF status = "running" THEN ip = "dest" ELSE reached
          /\ UNCHANGED scheduled
     ELSE /\ scheduled' = scheduled + 1
          /\ UNCHANGED <<status, socket, reached>>

\* Fault: Stop is emitted by an answer of the destination only.
HandleReplyUntilReached(ip, fired) ==
  /\ timers' = timers \ {timeout, fired}
  /\ IF probes = AmountProbes /\ ip = "dest"
     THEN /\ status' = IF status = "running" THEN "stopped" ELSE status
          /\ socket' = IF status = "running" THEN "closed" ELSE socket
          /\ reached' = (ip = "dest")
          /\ UNCHANGED scheduled
     ELSE /\ scheduled' = scheduled + 1
          /\ UNCHANGED <<status, socket, reached>>

\* handleReply(): Stop after the last probe of a ttl, if the destination
\* answered it or no ttl is left; execute() then closes the socket. Otherwise
\* the next probe. `fired` is the probe whose timer has called, 0 for none.
HandleReply(ip, fired) ==
  /\ timers' = timers \ {timeout, fired}
  /\ IF probes = AmountProbes /\ (ip = "dest" \/ ttl >= MaximumHops)
     THEN /\ status' = IF status = "running" THEN "stopped" ELSE status
          /\ socket' = IF status = "running" THEN "closed" ELSE socket
          /\ reached' = IF status = "running" THEN ip = "dest" ELSE reached
          /\ UNCHANGED scheduled
     ELSE /\ scheduled' = scheduled + 1
          /\ UNCHANGED <<status, socket, reached>>

\* getHostName() returns, with a name or without.
LookupEnds(a) ==
  /\ Alive /\ lookups[a] > 0
  /\ lookups' = [lookups EXCEPT ![a] = @ - 1]
  /\ extra' = IF timeout \in timers THEN extra ELSE extra + 1
  /\ HandleReply(a, 0)
  /\ UNCHANGED <<ttl, probes, port, queued, onWire, timeout, copies>>

\* The timer of a probe, whether its reply is being looked up or not.
TimerFires(p) ==
  /\ Alive /\ p \in timers
  /\ HandleReply("none", p)
  /\ UNCHANGED <<ttl, probes, port, queued, onWire, lookups, timeout, copies,
                 extra>>

-----------------------------------------------------------------------------
TraceStep ==
  \/ Resolved
  \/ SendPacket
  \/ \E p \in queued : Sent(p) \/ SendFails(p)
  \/ SocketFails
  \/ Reply
  \/ \E a \in Addresses : LookupEnds(a)
  \/ \E p \in timers : TimerFires(p)

TraceNext == Execute \/ TraceStep

TraceSpec == TraceInit /\ [][TraceNext]_traceVars

-----------------------------------------------------------------------------
(* Properties *)

\* The probes that are about to be sent, in the socket, or timed.
Chains == scheduled + Cardinality(queued) + Cardinality(timers)

\* A trace that has neither stopped nor failed never stalls, and there is one
\* chain of callbacks and at most one more for each reply that was handled when
\* its timer was not running: handleReply clears whatever timer the field
\* holds, of its own probe or of another, and starts one call of sendPacket.
ChainsCounted == status = "running" => Chains \in 1..(1 + extra)

\* "hops max": no probe goes out with a ttl above maximumHops, whichever probes
\* are answered, answered twice or lost, as long as no reply was handled with
\* no timer to clear and a ttl has a probe at all. Otherwise the test for the
\* last probe of a ttl can be missed, and only MaxTtl is left. In any case the
\* probes are counted ttl by ttl, by however many chains.
HopsBounded ==
  AmountProbes > 0 =>
    /\ port = (ttl - 1) * AmountProbes + probes
    /\ extra = 0 => ttl <= MaximumHops
=============================================================================
