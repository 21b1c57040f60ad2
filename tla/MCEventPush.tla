---------------------------- MODULE MCEventPush ----------------------------
(* Instances of EventPush for TLC.                                         *)
EXTENDS EventPush
=============================================================================
