--------------------------- MODULE MC_OsServerTask ---------------------------
(* Model values for OsServerTask. *)
EXTENDS OsServerTask

CONSTANTS a, b, o
=============================================================================
