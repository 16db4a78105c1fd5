--------------------------- MODULE MCEventCapture ---------------------------
(***************************************************************************)
(* Instances of EventCapture for TLC.                                      *)
(***************************************************************************)
EXTENDS EventCapture, TLC

Plain2 == {"raids", "follows"}
Plain1 == {"raids"}
Chat   == {"chat"}
None   == {}
=============================================================================
