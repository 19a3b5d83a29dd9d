-------------------------- MODULE MCVoiceBottomBar --------------------------
(* VoiceBottomBar on small instances: the bounds are in the cfg files.     *)
EXTENDS VoiceBottomBar
=============================================================================
