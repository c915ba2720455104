------------------------------ MODULE Backoff ------------------------------
(***************************************************************************)
(* The retry policy that the three status pollings share: which failures   *)
(* of a request are worth another attempt, and how many are made.          *)
(***************************************************************************)
EXTENDS Naturals

CONSTANT MaxDepth  \* maxDepth, DEFAULT_RECONNECT_TIMES in the pollings

ASSUME MaxDepthAssumption == MaxDepth \in Nat

\* The failures that shouldRetry tells apart: an HTTP status of at most 500,
\* one above, one of the listed network error codes, and anything else.
Failures == {"http_upto_500", "http_above_500", "network", "other"}

ShouldRetry(err) == err \in {"http_above_500", "network"}

\* Fault: one attempt too many.
CanRetryOnceMore(err, depth) == ShouldRetry(err) /\ depth <= MaxDepth

\* Backoff.execute(): retry, or rethrow.
CanRetry(err, depth) == ShouldRetry(err) /\ depth < MaxDepth
=============================================================================
