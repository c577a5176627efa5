------------------------- MODULE MCLinkEventHandler -------------------------
(* Small instances of LinkEventHandler for TLC.                            *)
EXTENDS LinkEventHandler

AllNetFaults == {"subscribe", "closed", "start", "attach", "init", "metrics"}
NoNetFaults == {}
=============================================================================
