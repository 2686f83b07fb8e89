---------------------------- MODULE MCVbrExport -----------------------------
(***************************************************************************)
(* Instances of VbrExport for TLC.                                         *)
(***************************************************************************)
EXTENDS VbrExport

\* ResultBackupSync needs both files, ResultBackup the second.
BothItems == <<"backupjob", "backuptaskswithretry">>
TasksOnly == <<"backuptaskswithretry">>
=============================================================================
