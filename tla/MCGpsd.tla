-------------------------------- MODULE MCGpsd -------------------------------
(* Small instances of Gpsd: two locations, both modes, both builds, the    *)
(* file replaced at once or rewritten while it is read.                    *)
EXTENDS Gpsd
=============================================================================
