---------------------------- MODULE MCUploadFlow ----------------------------
(* The instances of UploadFlow that TLC checks. *)
EXTENDS UploadFlowProps
=============================================================================
