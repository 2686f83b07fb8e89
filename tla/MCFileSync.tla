----------------------------- MODULE MCFileSync -----------------------------
(***************************************************************************)
(* FileSync for TLC: which tasks are registered in each model.             *)
(***************************************************************************)
EXTENDS FileSync

\* The two tasks that wait for each other.
Pair == {"ToDisk", "SyncToDisaster"}

\* All but the nightly copy: the disks, the copy of the region that waits for ToDisk, and
\* the task that may restart the computer.
NotNightly == Tasks \ {"SyncToDisaster"}
=============================================================================
