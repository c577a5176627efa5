--------------------------- MODULE MCStatusReport ---------------------------
(* A small instance of StatusReport for TLC.                               *)
EXTENDS StatusReport

AllReportFaults == {"api", "hangs", "gone"}
=============================================================================
