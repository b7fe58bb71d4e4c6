---------------------------- MODULE MCStepRetry ----------------------------
(***************************************************************************)
(* StepRetry with one status of every class of the ladder, and an output   *)
(* budget of six bits, so that a handful of empty responses overflows it.  *)
(***************************************************************************)
EXTENDS StepRetry

MCStatuses == {302, 400, 401, 429, 501, 503}
============================================================================
