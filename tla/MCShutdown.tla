----------------------------- MODULE MCShutdown -----------------------------
(* Two requests and the two workers of the code: one request may be cut off *)
(* while another has been answered or has timed out.                        *)
EXTENDS Shutdown
=============================================================================
