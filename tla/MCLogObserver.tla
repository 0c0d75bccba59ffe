---------------------------- MODULE MCLogObserver ----------------------------
(***************************************************************************)
(* The instance of LogObserver that TLC checks.                            *)
(***************************************************************************)
EXTENDS LogObserver
=============================================================================
