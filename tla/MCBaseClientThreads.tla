------------------------- MODULE MCBaseClientThreads -------------------------
(* One thread of the user that makes its calls one after the other.        *)
EXTENDS BaseClientThreads
============================================================================
