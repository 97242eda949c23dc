------------------------------ MODULE MCExt2Gps ------------------------------
(* Small instances of Ext2Gps: up to three tasks on one inode, locations   *)
(* of two fields.                                                          *)
EXTENDS Ext2Gps

CONSTANTS t1, t2, t3

Mix(a, b, c) == [t \in Tasks |-> CASE t = t1 -> a [] t = t2 -> b [] t = t3 -> c]

\* Two directory operations and get_gps_location; an ioctl during a
\* directory operation; an ioctl and a write.
ManyMixes == {Mix("dirop", "dirop", "get"), Mix("dirop", "ioctl", "none"),
              Mix("ioctl", "write", "none")}

OneGetter == {Mix("dirop", "get", "none")}
OneWriter == {Mix("write", "none", "none")}
=============================================================================
