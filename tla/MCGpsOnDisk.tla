----------------------------- MODULE MCGpsOnDisk -----------------------------
(* Small instances of GpsOnDisk: words of two bytes of four values, on     *)
(* machines of both byte orders.                                           *)
EXTENDS GpsOnDisk
=============================================================================
