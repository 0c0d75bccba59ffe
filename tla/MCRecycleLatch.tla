--------------------------- MODULE MCRecycleLatch ---------------------------
(***************************************************************************)
(* RecycleLatch for TLC: jobs are those of a running stack.                *)
(***************************************************************************)
EXTENDS RecycleLatch

RunningJobs == {"idle", "sighup", "full"}

=============================================================================
