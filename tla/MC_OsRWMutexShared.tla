------------------------- MODULE MC_OsRWMutexShared -------------------------
(* Model values for OsRWMutexShared.                                        *)
EXTENDS OsRWMutexShared

CONSTANTS t1, t2, t3

ThreeTasks == {t1, t2, t3}
=============================================================================
