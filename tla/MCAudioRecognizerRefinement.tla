--------------------- MODULE MCAudioRecognizerRefinement ---------------------
(* The instance TLC checks; ar_service.cfg gives the constants. *)
EXTENDS AudioRecognizerRefinement
=============================================================================
