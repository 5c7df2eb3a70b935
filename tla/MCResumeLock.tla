---------------------------- MODULE MCResumeLock ----------------------------
(* The instances of ResumeLock that TLC checks: processes and objects are   *)
(* model values.                                                            *)
EXTENDS ResumeLockProps

CONSTANTS p1, p2, o1, o2, o3
=============================================================================
