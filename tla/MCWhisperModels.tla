--------------------------- MODULE MCWhisperModels ---------------------------
(***************************************************************************)
(* The instance of WhisperModels that TLC checks.  Its sets are given in   *)
(* wm_models.cfg: two models, so that a clean-up meets one between two     *)
(* others' steps; two jobs that may load the same model, and as many       *)
(* engines as jobs, so that a load never has to wait for one; and two      *)
(* clean-ups, so that one of memory pressure meets the one of onDestroy.   *)
(* No symmetry is used, as the run also checks liveness.                   *)
(***************************************************************************)
EXTENDS WhisperModels
=============================================================================
