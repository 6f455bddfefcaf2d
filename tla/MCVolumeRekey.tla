----------------------------- MODULE MCVolumeRekey -----------------------------
(* VolumeRekey for TLC. *)
EXTENDS VolumeRekey
=============================================================================
