----------------------------- MODULE MCSessions -----------------------------
(* Two instances, two browsers and two flows that may be started anywhere  *)
(* and end anywhere.  With a single provider the provider of a code cannot *)
(* differ from that of the callback's path; the nonce check subsumes it.   *)
EXTENDS Sessions
=============================================================================
