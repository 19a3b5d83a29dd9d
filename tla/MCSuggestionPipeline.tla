------------------------ MODULE MCSuggestionPipeline ------------------------
(***************************************************************************)
(* Instances of SuggestionPipeline.  Contents and requests are ordered     *)
(* numbers, so that there is no symmetry.                                  *)
(***************************************************************************)
EXTENDS SuggestionPipeline
=============================================================================
