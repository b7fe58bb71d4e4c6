------------------------ MODULE MCSharedAtomicMutex ------------------------
(***************************************************************************)
(* Model-checking instance of SharedAtomicMutex: three threads, the fewest *)
(* with which a reader, a waiting writer and a late compare-and-swap meet, *)
(* and counters just large enough for them, so that one count too many     *)
(* would carry into the next field.                                        *)
(***************************************************************************)
EXTENDS SharedAtomicMutex
============================================================================
