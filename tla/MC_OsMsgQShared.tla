--------------------------- MODULE MC_OsMsgQShared ---------------------------
(* Model values for OsMsgQShared: a sends, b sends and receives, c serves. *)
EXTENDS OsMsgQShared

CONSTANTS a, b, c
=============================================================================
