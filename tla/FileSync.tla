------------------------------ MODULE FileSync ------------------------------
(***************************************************************************)
(* The scheduled tasks of the host DISASTER (directory FileSYnc).  Five    *)
(* PowerShell scripts are started by the Windows task scheduler.  They     *)
(* share the network adapter "Backup", which is enabled only while a task  *)
(* needs the backup server (the air gap), the mirror E: of that server,    *)
(* and the removable disks G: (task ToDisk) and F: (task disk_30days).     *)
(* The only coordination between them is that some scripts read the state  *)
(* of other tasks from the scheduler before they go to work.               *)
(*                                                                         *)
(* A task is a program counter over the phases of its script; every phase  *)
(* boundary is a place where the script sleeps or runs a long command, so  *)
(* that the others can interleave.                                         *)
(***************************************************************************)
EXTENDS FiniteSets

CONSTANTS
    Scheduled,      \* the tasks that are registered in the scheduler
    LinkFails,      \* may the backup server become unreachable?
    DisksMove,      \* may the operator pull and insert the disks?
    CopyFails       \* may a format of a disk, or a copy to it, fail?

Tasks == {"ToDisk", "SyncToDisaster", "RegionToDisaster", "disk_30days", "IPTest"}

\* The scripts that copy to a removable disk: G: and F:.
DiskTasks == {"ToDisk", "disk_30days"}

\* The scripts that wait in a loop on another task's state.
Waiters == {"ToDisk", "SyncToDisaster", "RegionToDisaster"}

ASSUME ScheduledAssumption == Scheduled \subseteq Tasks
ASSUME FaultsAssumption == LinkFails \in BOOLEAN /\ DisksMove \in BOOLEAN /\ CopyFails \in BOOLEAN

VARIABLES
    pc,         \* phase of each task's script, "idle" when it is not running
    seen,       \* the task state a waiter read last
    hasDisk,    \* $disk: the Test-Path taken at the start of a disk script
    weekend,    \* $subbota: day of the week taken at the start of toDisaster.ps1
    adapters,   \* the enabled network adapters
    link,       \* the backup server 172.254.254.1 answers
    disk,       \* what is on the removable disk of each disk task
    flawed,     \* history: tasks whose current run may have lost files silently
    spoiled,    \* history: disk tasks in whose current run the disk was moved after
                \* its Test-Path, or the format or a copy to it failed
    claimed,    \* history: tasks whose current run reported success to the server
    orphans     \* history: adapters left enabled by a task that was stopped

vars == <<pc, seen, hasDisk, weekend, adapters, link, disk, spoiled, flawed, claimed,
          orphans>>

\* What a script keeps in its own variables or has told the server.
script == <<seen, hasDisk, weekend, claimed>>

----------------------------------------------------------------------------
(* Types                                                                   *)

Phases == {"idle", "start", "poll", "nap", "go", "formatted", "hello",
           "ready", "copying", "copied", "report", "insert", "on", "mirror",
           "mirrored", "sql", "spin", "test", "restart", "close"}

Adapters == {"Backup", "Backupsql"}

\* absent: no disk in the tray; old: a disk with an earlier backup; empty:
\* formatted or erased; partial: copying started; full: copying finished.
DiskContents == {"absent", "old", "empty", "partial", "full"}

(***************************************************************************)
(* Type invariant: every variable stays in its range; in particular only   *)
(* registered tasks ever run.                                              *)
(***************************************************************************)
TypeOK ==
    /\ pc \in [Tasks -> Phases]
    /\ seen \in [Waiters -> {"Ready", "Running"}]
    /\ hasDisk \in [DiskTasks -> BOOLEAN]
    /\ weekend \in BOOLEAN
    /\ adapters \subseteq Adapters
    /\ link \in BOOLEAN
    /\ disk \in [DiskTasks -> DiskContents]
    /\ flawed \subseteq Tasks
    /\ spoiled \subseteq DiskTasks
    /\ claimed \subseteq Tasks
    /\ orphans \subseteq Adapters
    /\ \A t \in Tasks \ Scheduled : pc[t] = "idle"

Init ==
    /\ pc = [t \in Tasks |-> "idle"]
    /\ seen = [t \in Waiters |-> "Ready"]
    /\ hasDisk = [t \in DiskTasks |-> FALSE]
    /\ weekend = FALSE
    /\ adapters = {}
    /\ link = TRUE
    /\ disk \in [DiskTasks -> {"absent", "old"}]
    /\ flawed = {}
    /\ spoiled = {}
    /\ claimed = {}
    /\ orphans = {}

----------------------------------------------------------------------------
(* Helpers                                                                 *)

\* Wrong variant: a task counts as Running only once its wait is over.
TaskStateLate(t) ==
    IF pc[t] \in {"idle", "start", "poll", "nap"} THEN "Ready" ELSE "Running"

\* Get-ScheduledTask: with MultipleInstancesPolicy IgnoreNew a task is
\* either Ready or Running.
TaskState(t) == IF pc[t] = "idle" THEN "Ready" ELSE "Running"

\* The task whose state the wait loop of t reads again and again.
Watched(t) == IF t = "ToDisk" THEN "SyncToDisaster" ELSE "ToDisk"

\* A command on \\172.254.254.1 works.
Reach == "Backup" \in adapters /\ link

\* Tasks whose robocopy is reading from the server.
NetCopying == {t \in Tasks : pc[t] = "mirror"}

Goto(t, from, to) == pc[t] = from /\ pc' = [pc EXCEPT ![t] = to]

Enable(a) ==
    /\ adapters' = adapters \cup {a}
    /\ UNCHANGED orphans

Disable(a) ==
    /\ adapters' = adapters \ {a}
    /\ orphans' = orphans \ {a}

\* The adapters t has enabled and not yet disabled.
Holds(t) ==
    CASE pc[t] = "sql" -> {"Backup", "Backupsql"}
      [] pc[t] \in {"hello", "report", "insert", "on", "mirror", "mirrored",
                    "test", "close"} -> {"Backup"}
      [] OTHER -> {}

\* The process of t is gone: its variables, and what its run was about.
Forget(t) ==
    /\ seen' = [u \in Waiters |-> IF u = t THEN "Ready" ELSE seen[u]]
    /\ hasDisk' = [u \in DiskTasks |-> u # t /\ hasDisk[u]]
    /\ weekend' = (t # "SyncToDisaster" /\ weekend)
    /\ claimed' = claimed \ {t}
    /\ spoiled' = spoiled \ {t}

----------------------------------------------------------------------------
(* The scheduler                                                           *)

\* Wrong variant: a task that is not registered is started.
TriggerAny(t) ==
    /\ Goto(t, "idle", "start")
    /\ UNCHANGED <<script, adapters, link, disk, spoiled, flawed, orphans>>

\* A trigger fires or the operator starts the task; a task that is already
\* running is not started again (IgnoreNew).
Trigger(t) ==
    /\ t \in Scheduled
    /\ Goto(t, "idle", "start")
    /\ UNCHANGED <<script, adapters, link, disk, spoiled, flawed, orphans>>

\* ExecutionTimeLimit PT72H, StopIfGoingOnBatteries or the operator ends the
\* task hard: nothing of the rest of the script runs.
Terminate(t) ==
    /\ pc[t] # "idle"
    /\ pc' = [pc EXCEPT ![t] = "idle"]
    /\ Forget(t)
    /\ flawed' = flawed \ {t}
    /\ orphans' = orphans \cup (adapters \cap Holds(t))
    /\ UNCHANGED <<adapters, link, disk>>

----------------------------------------------------------------------------
(* Waiting for another task                                                *)

\* Wrong variant: the IF around the wait loop tests for Ready.
FirstReadReady(t) ==
    /\ Goto(t, "start", IF TaskState("ToDisk") = "Ready" THEN "poll" ELSE "go")
    /\ seen' = [seen EXCEPT ![t] = TaskState("ToDisk")]
    /\ UNCHANGED <<claimed, adapters, link, disk, spoiled, flawed, orphans>>

\* The first read is of the task ToDisk in all three scripts, also in
\* CopyToDisk.ps1, which is ToDisk itself and so always enters the loop.
FirstRead(t) ==
    /\ Goto(t, "start", IF TaskState("ToDisk") = "Running" THEN "poll" ELSE "go")
    /\ seen' = [seen EXCEPT ![t] = TaskState("ToDisk")]
    /\ UNCHANGED <<claimed, adapters, link, disk, spoiled, flawed, orphans>>

\* Wrong variant: the loop sleeps but does not read again (as in IPTest.ps1).
PollReadStale(t) ==
    /\ Goto(t, "poll", "nap")
    /\ UNCHANGED <<script, adapters, link, disk, spoiled, flawed, orphans>>

\* DO { read the state; sleep
PollRead(t) ==
    /\ Goto(t, "poll", "nap")
    /\ seen' = [seen EXCEPT ![t] = TaskState(Watched(t))]
    /\ UNCHANGED <<hasDisk, weekend, claimed, adapters, link, disk, spoiled, flawed, orphans>>

\* Wrong variant: the script sleeps once instead of looping.
PollCheckOnce(t) ==
    /\ Goto(t, "nap", "go")
    /\ UNCHANGED <<script, adapters, link, disk, spoiled, flawed, orphans>>

\* } Until (the state that was read before the sleep is Ready)
PollCheck(t) ==
    /\ Goto(t, "nap", IF seen[t] = "Ready" THEN "go" ELSE "poll")
    /\ UNCHANGED <<script, adapters, link, disk, spoiled, flawed, orphans>>

----------------------------------------------------------------------------
(* Steps that the scripts share.  robocopy gives up after 3 retries, every *)
(* script runs with SilentlyContinue or ignores errors, and none looks at  *)
(* an exit code: a copy whose adapter goes down is flawed and goes on.     *)

\* Enable the adapter.
Open(t, from, to) ==
    /\ Goto(t, from, to)
    /\ Enable("Backup")
    /\ UNCHANGED <<script, link, disk, spoiled, flawed>>

\* Disable the adapter in mid-script.
Drop(t, from, to) ==
    /\ Goto(t, from, to)
    /\ Disable("Backup")
    /\ flawed' = flawed \cup NetCopying
    /\ UNCHANGED <<script, link, disk, spoiled>>

\* Wrong variant: the script ends without Disable-NetAdapter.
CloseForgotten(t, from) ==
    /\ Goto(t, from, "idle")
    /\ Forget(t)
    /\ flawed' = flawed \ {t}
    /\ UNCHANGED <<adapters, orphans, link, disk>>

\* Disable the adapter and end the script.
Close(t, from) ==
    /\ Goto(t, from, "idle")
    /\ Disable("Backup")
    /\ Forget(t)
    /\ flawed' = (flawed \cup NetCopying) \ {t}
    /\ UNCHANGED <<link, disk>>

\* Write "END OK" or "DISK G: READY" to the server: it arrives only if the
\* server can be reached; whether the copy worked is never asked.
Report(t) ==
    /\ Goto(t, "report", "close")
    /\ claimed' = IF Reach THEN claimed \cup {t} ELSE claimed
    /\ UNCHANGED <<seen, hasDisk, weekend, adapters, link, disk, spoiled, flawed, orphans>>

\* The last copy to the removable disk ends, and all were complete.
CopyEnd(t) ==
    /\ Goto(t, "copying", "copied")
    /\ disk' = IF disk[t] = "partial" /\ t \notin flawed
                 THEN [disk EXCEPT ![t] = "full"] ELSE disk
    /\ UNCHANGED <<script, adapters, link, spoiled, flawed, orphans>>

\* The last copy ends and some file was not copied, with the disk in its
\* tray: it is full, or a file is locked.  No exit code is looked at.
CopyFailed(t) ==
    /\ CopyFails
    /\ Goto(t, "copying", "copied")
    /\ flawed' = flawed \cup {t}
    /\ spoiled' = spoiled \cup {t}
    /\ UNCHANGED <<script, adapters, link, disk, orphans>>

----------------------------------------------------------------------------
(* ToDisk: CopyToDisk.ps1                                                  *)

ToDiskStart ==
    /\ FirstRead("ToDisk")
    /\ hasDisk' = [hasDisk EXCEPT !["ToDisk"] = disk["ToDisk"] # "absent"]
    /\ UNCHANGED weekend

\* Format-Volume: fails silently when the disk was pulled since Test-Path.
ToDiskFormat ==
    /\ hasDisk["ToDisk"]
    /\ Goto("ToDisk", "go", "formatted")
    /\ disk' = IF disk["ToDisk"] = "absent" THEN disk
                ELSE [disk EXCEPT !["ToDisk"] = "empty"]
    /\ UNCHANGED <<script, adapters, link, spoiled, flawed, orphans>>

\* Format-Volume fails with the disk in place, as silently.
ToDiskFormatFails ==
    /\ CopyFails
    /\ hasDisk["ToDisk"]
    /\ Goto("ToDisk", "go", "formatted")
    /\ spoiled' = spoiled \cup {"ToDisk"}
    /\ UNCHANGED <<script, adapters, link, disk, flawed, orphans>>

\* Copying from E: begins.  The copy is flawed if this is not the disk that
\* was formatted, or if E: is being rewritten at the same time.
ToDiskCopy ==
    /\ Goto("ToDisk", "ready", "copying")
    /\ disk' = IF disk["ToDisk"] = "absent" THEN disk
                ELSE [disk EXCEPT !["ToDisk"] = "partial"]
    /\ flawed' = IF \/ disk["ToDisk"] # "empty"
                    \/ pc["SyncToDisaster"] \in {"mirror", "sql"}
                 THEN flawed \cup {"ToDisk"} ELSE flawed
    /\ UNCHANGED <<script, adapters, link, spoiled, orphans>>

ToDiskStep ==
    \/ ToDiskStart
    \/ PollRead("ToDisk")
    \/ PollCheck("ToDisk")
    \/ ToDiskFormat
    \/ ToDiskFormatFails
    \/ Open("ToDisk", "formatted", "hello")
    \/ Drop("ToDisk", "hello", "ready")
    \/ ToDiskCopy
    \/ CopyEnd("ToDisk")
    \/ CopyFailed("ToDisk")
    \/ Open("ToDisk", "copied", "report")
    \/ Report("ToDisk")
    \/ Close("ToDisk", "close")
    \/ ~hasDisk["ToDisk"] /\ Open("ToDisk", "go", "insert")
    \/ Close("ToDisk", "insert")

----------------------------------------------------------------------------
(* SyncToDisaster: toDisaster.ps1                                          *)

SyncStart ==
    /\ FirstRead("SyncToDisaster")
    /\ weekend' \in BOOLEAN
    /\ UNCHANGED hasDisk

\* Expired files are deleted and the mirror commands start.  Whoever is
\* reading E: at this moment gets a mixture.
SyncMirror ==
    /\ ~weekend
    /\ Goto("SyncToDisaster", "on", "mirror")
    /\ flawed' = flawed \cup (IF Reach THEN {} ELSE {"SyncToDisaster"})
                        \cup {t \in {"ToDisk"} : pc[t] = "copying"}
    /\ UNCHANGED <<script, adapters, link, disk, spoiled, orphans>>

SyncMirrorEnd ==
    /\ Goto("SyncToDisaster", "mirror", "mirrored")
    /\ UNCHANGED <<script, adapters, link, disk, spoiled, flawed, orphans>>

SyncSkipWeekend ==
    /\ weekend
    /\ Goto("SyncToDisaster", "on", "mirrored")
    /\ UNCHANGED <<script, adapters, link, disk, spoiled, flawed, orphans>>

\* The SQL copy uses its own adapter, but robocopy does not start when it
\* cannot open its log file on the backup server.
SyncSql ==
    /\ Goto("SyncToDisaster", "mirrored", "sql")
    /\ Enable("Backupsql")
    /\ flawed' = flawed \cup (IF Reach THEN {} ELSE {"SyncToDisaster"})
                        \cup {t \in DiskTasks : pc[t] = "copying"}
    /\ UNCHANGED <<script, link, disk, spoiled>>

\* Wrong variant: the adapter of the SQL network stays enabled.
SyncSqlEndForgotten ==
    /\ Goto("SyncToDisaster", "sql", "report")
    /\ UNCHANGED <<script, adapters, orphans, link, disk, spoiled, flawed>>

SyncSqlEnd ==
    /\ Goto("SyncToDisaster", "sql", "report")
    /\ Disable("Backupsql")
    /\ UNCHANGED <<script, link, disk, spoiled, flawed>>

SyncStep ==
    \/ SyncStart
    \/ PollRead("SyncToDisaster")
    \/ PollCheck("SyncToDisaster")
    \/ Open("SyncToDisaster", "go", "on")
    \/ SyncMirror
    \/ SyncMirrorEnd
    \/ SyncSkipWeekend
    \/ SyncSql
    \/ SyncSqlEnd
    \/ Report("SyncToDisaster")
    \/ Close("SyncToDisaster", "close")

----------------------------------------------------------------------------
(* RegionToDisaster: RegionToDisaster.ps1                                  *)

RegionStart ==
    /\ FirstRead("RegionToDisaster")
    /\ UNCHANGED <<hasDisk, weekend>>

\* E:\Backup\RegionShara is read by no other task.
RegionCopy ==
    /\ Goto("RegionToDisaster", "on", "mirror")
    /\ flawed' = IF Reach THEN flawed ELSE flawed \cup {"RegionToDisaster"}
    /\ UNCHANGED <<script, adapters, link, disk, spoiled, orphans>>

RegionCopyEnd ==
    /\ Goto("RegionToDisaster", "mirror", "report")
    /\ UNCHANGED <<script, adapters, link, disk, spoiled, flawed, orphans>>

RegionStep ==
    \/ RegionStart
    \/ PollRead("RegionToDisaster")
    \/ PollCheck("RegionToDisaster")
    \/ Open("RegionToDisaster", "go", "on")
    \/ RegionCopy
    \/ RegionCopyEnd
    \/ Report("RegionToDisaster")
    \/ Close("RegionToDisaster", "close")

----------------------------------------------------------------------------
(* disk_30days: MonthsDiskBackup.ps1                                       *)

\* This script waits for nobody.
MonthsStart ==
    /\ Goto("disk_30days", "start", "go")
    /\ hasDisk' = [hasDisk EXCEPT !["disk_30days"] = disk["disk_30days"] # "absent"]
    /\ UNCHANGED <<seen, weekend, claimed, adapters, link, disk, spoiled, flawed, orphans>>

\* The old *.bak files of F: are removed, then copying from E:\SQL begins.
MonthsCopy ==
    /\ Goto("disk_30days", "ready", "copying")
    /\ disk' = IF disk["disk_30days"] = "absent" THEN disk
                ELSE [disk EXCEPT !["disk_30days"] = "partial"]
    /\ flawed' = IF \/ disk["disk_30days"] = "absent"
                    \/ pc["SyncToDisaster"] = "sql"
                 THEN flawed \cup {"disk_30days"} ELSE flawed
    /\ UNCHANGED <<script, adapters, link, spoiled, orphans>>

MonthsStep ==
    \/ MonthsStart
    \/ hasDisk["disk_30days"] /\ Open("disk_30days", "go", "hello")
    \/ Drop("disk_30days", "hello", "ready")
    \/ MonthsCopy
    \/ CopyEnd("disk_30days")
    \/ CopyFailed("disk_30days")
    \/ Open("disk_30days", "copied", "close")
    \/ Close("disk_30days", "close")
    \/ ~hasDisk["disk_30days"] /\ Open("disk_30days", "go", "insert")
    \/ Close("disk_30days", "insert")

----------------------------------------------------------------------------
(* IPTest: IPTest.ps1, the daily check of the network                      *)

\* The three states are read once, before the loop; the loop tests the
\* values and never reads again, so "spin" is left only by Terminate or a
\* restart of the computer.
IPTestStart ==
    /\ Goto("IPTest", "start",
            IF \E t \in {"SyncToDisaster", "ToDisk", "disk_30days"} :
                    TaskState(t) = "Running"
            THEN "spin" ELSE "go")
    /\ UNCHANGED <<script, adapters, link, disk, spoiled, flawed, orphans>>

\* Test-Connection answers.
IPTestYes ==
    /\ Reach
    /\ Goto("IPTest", "test", "close")
    /\ UNCHANGED <<script, adapters, link, disk, spoiled, flawed, orphans>>

\* Restart-Computer -Force: every script on the computer is ended; whether
\* an adapter is enabled survives the restart.
IPTestRestart ==
    /\ pc["IPTest"] = "restart"
    /\ pc' = [t \in Tasks |-> "idle"]
    /\ seen' = [t \in Waiters |-> "Ready"]
    /\ hasDisk' = [t \in DiskTasks |-> FALSE]
    /\ weekend' = FALSE
    /\ flawed' = {}
    /\ spoiled' = {}
    /\ claimed' = {}
    /\ orphans' = adapters
    /\ UNCHANGED <<adapters, link, disk>>

IPTestStep ==
    \/ IPTestStart
    \/ Open("IPTest", "go", "test")
    \/ IPTestYes
    \/ ~Reach /\ Drop("IPTest", "test", "restart")
    \/ IPTestRestart
    \/ Close("IPTest", "restart")      \* Restart-Computer failed
    \/ Close("IPTest", "close")

----------------------------------------------------------------------------
(* The environment                                                         *)

\* The backup server stops or starts answering.
LinkChange ==
    /\ LinkFails
    /\ link' = ~link
    /\ flawed' = IF link THEN flawed \cup NetCopying ELSE flawed
    /\ UNCHANGED <<pc, script, adapters, disk, spoiled, orphans>>

\* The script of t has already looked for its disk.
Spoil(t) == spoiled' = IF pc[t] \in {"idle", "start"} THEN spoiled ELSE spoiled \cup {t}

\* The operator takes a disk out of its tray.
PullDisk(t) ==
    /\ DisksMove
    /\ disk[t] # "absent"
    /\ disk' = [disk EXCEPT ![t] = "absent"]
    /\ flawed' = IF pc[t] = "copying" THEN flawed \cup {t} ELSE flawed
    /\ Spoil(t)
    /\ UNCHANGED <<pc, script, adapters, link, orphans>>

\* The operator puts in a disk with an earlier backup.
InsertDisk(t) ==
    /\ DisksMove
    /\ disk[t] = "absent"
    /\ disk' = [disk EXCEPT ![t] = "old"]
    /\ Spoil(t)
    /\ UNCHANGED <<pc, script, adapters, link, flawed, orphans>>

----------------------------------------------------------------------------
(* The specification                                                       *)

Environment == LinkChange \/ \E t \in DiskTasks : PullDisk(t) \/ InsertDisk(t)

Steps == ToDiskStep \/ SyncStep \/ RegionStep \/ MonthsStep \/ IPTestStep

Next ==
    \/ \E t \in Tasks : Trigger(t) \/ Terminate(t)
    \/ Steps
    \/ Environment

Spec == Init /\ [][Next]_vars

(***************************************************************************)
(* A running script goes on: sleeps end, robocopy's retries are bounded.   *)
(* Nothing is assumed of triggers, of terminations or of the environment.  *)
(***************************************************************************)
Fairness ==
    /\ WF_vars(ToDiskStep)
    /\ WF_vars(SyncStep)
    /\ WF_vars(RegionStep)
    /\ WF_vars(MonthsStep)
    /\ WF_vars(IPTestStep)

FairSpec == Spec /\ Fairness

----------------------------------------------------------------------------
(* Properties                                                              *)

\* The script of t is past its wait and touches adapters, E: or a disk.
Working(t) == pc[t] \notin {"idle", "start", "poll", "nap"}

Waiting(t) == pc[t] \in {"poll", "nap"}

(***************************************************************************)
(* ToDisk and SyncToDisaster never work at the same time: CopyToDisk.ps1   *)
(* reads E: only while toDisaster.ps1 is not purging and rewriting it,     *)
(* although both act on a task state read up to half an hour before, and   *)
(* although any task may be ended or the computer restarted at any moment. *)
(***************************************************************************)
ExclusiveWork == ~ (Working("ToDisk") /\ Working("SyncToDisaster"))

(***************************************************************************)
(* The air gap: an adapter is enabled only while some running script has   *)
(* enabled it and will disable it, or when a script was ended between its  *)
(* Enable-NetAdapter and its Disable-NetAdapter and nobody has disabled    *)
(* the adapter since.                                                      *)
(***************************************************************************)
AirGap ==
    \A a \in adapters : a \in orphans \/ \E t \in Tasks : a \in Holds(t)

(***************************************************************************)
(* CopyToDisk.ps1 writes DISK G: READY ("after backup saccess", line 110)  *)
(* only when the disk in the tray holds everything that was to be copied.  *)
(***************************************************************************)
ReadyMeansCopied ==
    [][("ToDisk" \in claimed' /\ "ToDisk" \notin claimed)
            => disk["ToDisk"] = "full"]_vars

(***************************************************************************)
(* CopyToDisk.ps1 writes DISK G: READY only when the disk in the tray      *)
(* holds everything that was to be copied, or when in this very run the    *)
(* disk was taken out or put in after the Test-Path of line 7, or the      *)
(* format or a robocopy to it failed, which the script does not notice:    *)
(* nothing else spoils a copy, in particular not the other tasks, one of   *)
(* which rewrites E:, nor an earlier run that was ended in the middle.     *)
(***************************************************************************)
ReadyUnlessSpoiled ==
    [][("ToDisk" \in claimed' /\ "ToDisk" \notin claimed)
            => disk["ToDisk"] = "full" \/ "ToDisk" \in spoiled]_vars

(***************************************************************************)
(* toDisaster.ps1 writes END OK only after a run in which no copy lost its *)
(* network: nobody disabled the adapter under it.                          *)
(***************************************************************************)
EndOkMeansMirrored ==
    [][("SyncToDisaster" \in claimed' /\ "SyncToDisaster" \notin claimed)
            => "SyncToDisaster" \notin flawed]_vars

\* Each of the two has last seen the other Running and goes on waiting.
MutualWait ==
    /\ \A t \in {"ToDisk", "SyncToDisaster"} :
            pc[t] = "poll" \/ (pc[t] = "nap" /\ seen[t] = "Running")

(***************************************************************************)
(* ToDisk and SyncToDisaster never wait for each other: the wait loop of   *)
(* CopyToDisk.ps1 waits for other tasks to do their work (comment, line    *)
(* 15), not for one that waits in turn.                                    *)
(***************************************************************************)
NoMutualWait == ~MutualWait

(***************************************************************************)
(* Once both wait for each other no step of any script ends it: it lasts   *)
(* until one of the two is ended (the 72 hours limit, the operator or a    *)
(* restart of the computer).                                               *)
(***************************************************************************)
MutualWaitLasts ==
    [][MutualWait => \/ MutualWait'
                     \/ \E t \in {"ToDisk", "SyncToDisaster"} : pc'[t] = "idle"]_vars

(***************************************************************************)
(* The wait loops notice that the task they wait for is gone: if it stays  *)
(* Ready from some time on, the waiting script leaves its loop.            *)
(***************************************************************************)
WaitEnds ==
    \A t \in Waiters :
        (Waiting(t) /\ [](pc[Watched(t)] = "idle")) ~> ~Waiting(t)

(***************************************************************************)
(* The air gap is restored: an enabled adapter is disabled again unless    *)
(* the script that had enabled it is ended before it comes to do so.       *)
(***************************************************************************)
AirGapRestored ==
    \A a \in Adapters : (a \in adapters) ~> (a \notin adapters \/ a \in orphans)
=============================================================================
