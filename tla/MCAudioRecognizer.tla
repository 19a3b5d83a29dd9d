------------------------ MODULE MCAudioRecognizer ------------------------
(* AudioRecognizer on small instances: the bounds are in the cfg files.    *)
EXTENDS AudioRecognizer
=============================================================================
