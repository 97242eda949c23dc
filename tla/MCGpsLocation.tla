---------------------------- MODULE MCGpsLocation ----------------------------
(* Small instances of GpsLocation: one or two callers of set_gps_location, *)
(* one reader, locations of two machine words.                             *)
EXTENDS GpsLocation
=============================================================================
