--------------------------- MODULE MCHttpBackend ---------------------------
(***************************************************************************)
(* Two calls of score for one candidate, two of aclose, three attempts.    *)
(* The backoff is 1, then 2, with a jitter of up to half; a rate limit asks *)
(* for nothing, for as much as the cap, or for more.                        *)
(***************************************************************************)
EXTENDS HttpBackend

MCCall == {"c1", "c2"}
MCAllowPartial == [c \in MCCall |-> c = "c1"]
MCCloser == {"k1", "k2"}
MCRetryAfters == {None, 2, 3}
=============================================================================
