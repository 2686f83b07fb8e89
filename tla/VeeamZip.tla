------------------------------ MODULE VeeamZip ------------------------------
(***************************************************************************)
(* src/FileSYnc/toDisaster.ps1, lines 66-81: of every directory of           *)
(* \\172.254.254.1\Backup\VEEAMzip the newest *.vbk is kept on E:.  The old   *)
(* copy is removed before the new one is made.  A backup is the number of    *)
(* the day it was written on.                                                *)
(***************************************************************************)
EXTENDS Integers, FiniteSetsExt

CONSTANTS
  Dirs,        \* the directories of VEEAMzip
  MaxBackup    \* bound: backups written to a directory

ASSUME ZipAssumption == MaxBackup \in Nat \ {0}

VARIABLES
  server,      \* [Dirs -> the *.vbk on the server]
  disaster,    \* [Dirs -> the *.vbk on E:]
  broken,      \* [Dirs -> those of E: that were not copied to the end]
  todo,        \* the rest of $ResultDirectory
  at, dir, file   \* the statement, $my and $file

zipVars == <<server, disaster, broken, todo, at, dir, file>>

Complete(d) == disaster[d] \ broken[d]

ZipInit ==
  /\ server \in [Dirs -> {{}, {1}}]
  /\ disaster = [d \in Dirs |-> {}] /\ broken = [d \in Dirs |-> {}]
  /\ todo = {} /\ at = "idle" /\ dir \in Dirs /\ file = 0

\* Veeam writes a backup, and deletes the oldest when there is a newer one.
Backup(d) ==
  LET next == Max(server[d] \cup disaster[d] \cup {0}) + 1 IN
  /\ next <= MaxBackup
  /\ server' = [server EXCEPT ![d] = @ \cup {next}]
  /\ UNCHANGED <<disaster, broken, todo, at, dir, file>>

Expire(d) ==
  /\ Cardinality(server[d]) > 1
  /\ server' = [server EXCEPT ![d] = @ \ {Min(@)}]
  /\ UNCHANGED <<disaster, broken, todo, at, dir, file>>

\* The directories are listed.
List ==
  /\ at = "idle" /\ todo' = Dirs /\ at' = "dir"
  /\ UNCHANGED <<server, disaster, broken, dir, file>>

\* $DirectoryTo: the newest *.vbk of the next directory; nothing is done without one.
Choose ==
  /\ at = "dir"
  /\ \E d \in todo :
       /\ dir' = d /\ todo' = todo \ {d}
       /\ IF server[d] = {} THEN UNCHANGED <<file, at>>
                            ELSE file' = Max(server[d]) /\ at' = "remove"
  /\ UNCHANGED <<server, disaster, broken>>

\* Wrong variant: the directory is emptied without a look at what it holds.
RemoveAlways ==
  /\ at = "remove" /\ at' = "copy"
  /\ disaster' = [disaster EXCEPT ![dir] = {}] /\ broken' = [broken EXCEPT ![dir] = {}]
  /\ UNCHANGED <<server, todo, dir, file>>

\* Unless a file of that name is on E:, all *.vbk are removed; the ones in use stay,
\* and nobody hears of it.
Remove ==
  /\ at = "remove" /\ at' = "copy"
  /\ IF file \in disaster[dir] THEN UNCHANGED <<disaster, broken>>
     ELSE \E inUse \in SUBSET disaster[dir] :
            /\ disaster' = [disaster EXCEPT ![dir] = inUse]
            /\ broken' = [broken EXCEPT ![dir] = @ \cap inUse]
  /\ UNCHANGED <<server, todo, dir, file>>

\* robocopy finds the file complete on E:, copies it, gives up after its retries with
\* or without a part of it, or does not find it on the server any more.
Copy ==
  /\ at = "copy" /\ at' = "dir"
  /\ \/ /\ file \in Complete(dir) \/ file \notin server[dir]
        /\ UNCHANGED <<disaster, broken>>
     \/ /\ file \in server[dir] /\ file \notin Complete(dir)
        /\ disaster' = [disaster EXCEPT ![dir] = @ \cup {file}]
        /\ \/ broken' = [broken EXCEPT ![dir] = @ \ {file}]
           \/ broken' = [broken EXCEPT ![dir] = @ \cup {file}]
     \/ file \in server[dir] \ Complete(dir) /\ UNCHANGED <<disaster, broken>>
  /\ UNCHANGED <<server, todo, dir, file>>

EndLoop ==
  /\ at = "dir" /\ todo = {} /\ at' = "idle"
  /\ UNCHANGED <<server, disaster, broken, todo, dir, file>>

\* The task is ended, in the middle of a copy or between two statements.
EndTask ==
  /\ at # "idle" /\ at' = "idle" /\ todo' = {}
  /\ \/ UNCHANGED <<disaster, broken>>
     \/ /\ at = "copy" /\ file \in server[dir] \ Complete(dir)
        /\ disaster' = [disaster EXCEPT ![dir] = @ \cup {file}]
        /\ broken' = [broken EXCEPT ![dir] = @ \cup {file}]
  /\ UNCHANGED <<server, dir, file>>

ZipNext ==
  \/ \E d \in Dirs : Backup(d) \/ Expire(d)
  \/ List \/ Choose \/ Remove \/ Copy \/ EndLoop \/ EndTask

ZipSpec == ZipInit /\ [][ZipNext]_zipVars

(***************************************************************************)
(* Properties.                                                             *)
(***************************************************************************)

\* A complete backup on E: is given up only in favour of a newer one: lines 73-79 never
\* remove a copy that is as new as the newest on the server.
GivenUpForNewer ==
  [][\A d \in Dirs : \A b \in Complete(d) \ Complete(d)' : dir = d /\ b < file]_zipVars
=============================================================================
