-------------------------------- MODULE Absent --------------------------------
(* What has no value: a field that is missing or cannot be used, a         *)
(* document, a run.                                                        *)
CONSTANT None

Known(x) == x # None
=============================================================================
