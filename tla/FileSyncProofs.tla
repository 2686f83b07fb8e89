--------------------------- MODULE FileSyncProofs ---------------------------
(***************************************************************************)
(* Theorems about FileSync, for every set of registered tasks and with or  *)
(* without failures of the link and moves of the disks.                    *)
(***************************************************************************)
EXTENDS FileSync, TLAPS

\* Whatever task is asked for, the scheduler answers Ready or Running.
LEMMA TaskStateType == \A t : TaskState(t) \in {"Ready", "Running"}
  BY DEF TaskState

(***************************************************************************)
(* Type correctness: in particular only registered tasks ever run.         *)
(***************************************************************************)
\* The scheduler starts with every script idle and both adapters disabled.
LEMMA TypeInit == Init => TypeOK
  <1> SUFFICES ASSUME Init PROVE TypeOK
    OBVIOUS
  <1>1. pc \in [Tasks -> Phases] /\ seen \in [Waiters -> {"Ready", "Running"}]
    BY DEF Init, Phases
  <1>2. /\ hasDisk \in [DiskTasks -> BOOLEAN]
        /\ disk \in [DiskTasks -> DiskContents]
    BY DEF Init, DiskContents
  <1>3. QED
    BY <1>1, <1>2 DEF Init, TypeOK

\* No step of a script, of the scheduler or of the environment breaks a type.
LEMMA TypeStep == TypeOK /\ [Next]_vars => TypeOK'
  <1> SUFFICES ASSUME TypeOK, [Next]_vars PROVE TypeOK'
    OBVIOUS
  <1> USE ScheduledAssumption DEF TypeOK, Goto, script
  <1>t. /\ "ToDisk" \in Tasks /\ "SyncToDisaster" \in Tasks
        /\ "RegionToDisaster" \in Tasks /\ "disk_30days" \in Tasks
        /\ "IPTest" \in Tasks /\ Waiters \subseteq Tasks /\ DiskTasks \subseteq Tasks
        /\ "ToDisk" \in Waiters /\ "SyncToDisaster" \in Waiters
        /\ "RegionToDisaster" \in Waiters
        /\ "ToDisk" \in DiskTasks /\ "disk_30days" \in DiskTasks
    BY DEF Tasks, Waiters, DiskTasks
  <1>p. NetCopying \subseteq Tasks
    BY DEF NetCopying
  <1>1. ASSUME NEW t \in Tasks, Trigger(t) PROVE TypeOK'
    BY <1>1 DEF Trigger, Phases
  <1>2. ASSUME NEW t \in Tasks, Terminate(t) PROVE TypeOK'
    BY <1>2 DEF Terminate, Forget, Phases
  <1>open. ASSUME NEW t \in Tasks, NEW from, NEW to \in Phases, from # "idle",
                  Open(t, from, to)
           PROVE  TypeOK'
    BY <1>open DEF Open, Enable, Adapters
  <1>drop. ASSUME NEW t \in Tasks, NEW from, NEW to \in Phases, from # "idle",
                  Drop(t, from, to)
           PROVE  TypeOK'
    BY <1>drop, <1>p DEF Drop, Disable
  <1>close. ASSUME NEW t \in Tasks, NEW from, Close(t, from) PROVE TypeOK'
    BY <1>close, <1>p DEF Close, Disable, Forget, Phases
  <1>read. ASSUME NEW t \in Waiters, PollRead(t) PROVE TypeOK'
    BY <1>read, <1>t, TaskStateType DEF PollRead, Phases
  <1>check. ASSUME NEW t \in Waiters, PollCheck(t) PROVE TypeOK'
    BY <1>check, <1>t DEF PollCheck, Phases
  <1>report. ASSUME NEW t \in Tasks, Report(t) PROVE TypeOK'
    BY <1>report DEF Report, Phases
  <1>copied. ASSUME NEW t \in DiskTasks, CopyEnd(t) PROVE TypeOK'
    BY <1>copied, <1>t DEF CopyEnd, Phases, DiskContents
  <1>failed. ASSUME NEW t \in DiskTasks, CopyFailed(t) PROVE TypeOK'
    BY <1>failed, <1>t DEF CopyFailed, Phases
  <1>ph. /\ {"hello", "ready", "report", "insert", "on", "test", "close",
             "restart"} \subseteq Phases
    BY DEF Phases
  <1>3. CASE ToDiskStep
    <2>1. CASE ToDiskStart
      BY <2>1, <1>t, TaskStateType DEF ToDiskStart, FirstRead, Phases
    <2>2. CASE ToDiskFormat
      BY <2>2, <1>t DEF ToDiskFormat, Phases, DiskContents
    <2>3. CASE ToDiskCopy
      BY <2>3, <1>t DEF ToDiskCopy, Phases, DiskContents
    <2>4. CASE ToDiskFormatFails
      BY <2>4, <1>t DEF ToDiskFormatFails, Phases
    <2>5. QED
      BY <1>3, <2>1, <2>2, <2>3, <2>4, <1>t, <1>ph, <1>open, <1>drop, <1>close,
         <1>read, <1>check, <1>report, <1>copied, <1>failed DEF ToDiskStep
  <1>4. CASE SyncStep
    <2>1. CASE SyncStart
      BY <2>1, <1>t, TaskStateType DEF SyncStart, FirstRead, Phases
    <2>2. CASE SyncMirror
      BY <2>2, <1>t DEF SyncMirror, Phases
    <2>3. CASE SyncMirrorEnd
      BY <2>3, <1>t DEF SyncMirrorEnd, Phases
    <2>4. CASE SyncSkipWeekend
      BY <2>4, <1>t DEF SyncSkipWeekend, Phases
    <2>5. CASE SyncSql
      BY <2>5, <1>t DEF SyncSql, Phases, Enable, Adapters
    <2>6. CASE SyncSqlEnd
      BY <2>6, <1>t DEF SyncSqlEnd, Phases, Disable
    <2>7. QED
      BY <1>4, <2>1, <2>2, <2>3, <2>4, <2>5, <2>6, <1>t, <1>ph, <1>open,
         <1>close, <1>read, <1>check, <1>report DEF SyncStep
  <1>5. CASE RegionStep
    <2>1. CASE RegionStart
      BY <2>1, <1>t, TaskStateType DEF RegionStart, FirstRead, Phases
    <2>2. CASE RegionCopy
      BY <2>2, <1>t DEF RegionCopy, Phases
    <2>3. CASE RegionCopyEnd
      BY <2>3, <1>t DEF RegionCopyEnd, Phases
    <2>4. QED
      BY <1>5, <2>1, <2>2, <2>3, <1>t, <1>ph, <1>open, <1>close, <1>read,
         <1>check, <1>report DEF RegionStep
  <1>6. CASE MonthsStep
    <2>1. CASE MonthsStart
      BY <2>1, <1>t DEF MonthsStart, Phases
    <2>2. CASE MonthsCopy
      BY <2>2, <1>t DEF MonthsCopy, Phases, DiskContents
    <2>3. QED
      BY <1>6, <2>1, <2>2, <1>t, <1>ph, <1>open, <1>drop, <1>close, <1>copied,
         <1>failed DEF MonthsStep
  <1>7. CASE IPTestStep
    <2>1. CASE IPTestStart
      BY <2>1, <1>t DEF IPTestStart, Phases
    <2>2. CASE IPTestYes
      BY <2>2, <1>t DEF IPTestYes, Phases
    <2>3. CASE IPTestRestart
      BY <2>3, <1>t DEF IPTestRestart, Phases
    <2>4. QED
      BY <1>7, <2>1, <2>2, <2>3, <1>t, <1>ph, <1>open, <1>drop, <1>close
         DEF IPTestStep
  <1>8. CASE Environment
    <2>1. CASE LinkChange
      BY <2>1, <1>p DEF LinkChange
    <2>2. ASSUME NEW t \in DiskTasks, PullDisk(t) PROVE TypeOK'
      BY <2>2, <1>t DEF PullDisk, Spoil, DiskContents
    <2>3. ASSUME NEW t \in DiskTasks, InsertDisk(t) PROVE TypeOK'
      BY <2>3, <1>t DEF InsertDisk, Spoil, DiskContents
    <2>4. QED
      BY <1>8, <2>1, <2>2, <2>3 DEF Environment
  <1>9. CASE UNCHANGED vars
    BY <1>9 DEF vars
  <1>10. QED
    BY <1>1, <1>2, <1>3, <1>4, <1>5, <1>6, <1>7, <1>8, <1>9 DEF Next, Steps

(***************************************************************************)
(* Type correctness of the scripts' variables, the adapters and the disks, *)
(* for every set of registered tasks; only registered tasks ever run.      *)
(***************************************************************************)
THEOREM TypeCorrect == Spec => []TypeOK
  BY TypeInit, TypeStep, PTL DEF Spec

----------------------------------------------------------------------------
(***************************************************************************)
(* Exclusion.  ExclusiveWork alone is not inductive: a task that is still  *)
(* asleep may already have read the state that will let it go.  Such a     *)
(* task counts as admitted; then the argument is that of two flags: each   *)
(* task is Running before it reads the other's state, so of two admitted   *)
(* tasks the later one would have read Running.                            *)
(***************************************************************************)
Admitted(t) == Working(t) \/ (pc[t] = "nap" /\ seen[t] = "Ready")

MutexInv == ~ (Admitted("ToDisk") /\ Admitted("SyncToDisaster"))

\* A step that leaves the two tasks alone keeps the invariant.
LEMMA MutexFrame ==
  ASSUME MutexInv,
         \A t \in {"ToDisk", "SyncToDisaster"} : pc'[t] = pc[t] /\ seen'[t] = seen[t]
  PROVE  MutexInv'
  BY DEF MutexInv, Admitted, Working

\* An admitted task stays admitted, or a task goes idle: no new admission.
LEMMA MutexShrink ==
  ASSUME MutexInv,
         \A t \in {"ToDisk", "SyncToDisaster"} : Admitted(t)' => Admitted(t)
  PROVE  MutexInv'
  BY DEF MutexInv

\* No step admits one of the two tasks while the other one is admitted: each
\* is Running in the scheduler before it reads the state of the other.
LEMMA MutexStep == TypeOK /\ MutexInv /\ [Next]_vars => MutexInv'
  <1> SUFFICES ASSUME TypeOK, MutexInv, [Next]_vars PROVE MutexInv'
    OBVIOUS
  <1> DEFINE P == {"ToDisk", "SyncToDisaster"}
  <1>t. P \subseteq Tasks /\ P \subseteq Waiters /\ Waiters \subseteq Tasks
    BY DEF Tasks, Waiters
  <1>ty. pc \in [Tasks -> Phases] /\ seen \in [Waiters -> {"Ready", "Running"}]
    BY DEF TypeOK
  <1> USE <1>t, <1>ty DEF Goto
  <1>1. ASSUME NEW t \in Tasks, Trigger(t) PROVE MutexInv'
    BY <1>1, MutexShrink DEF Trigger, Admitted, Working, script
  <1>2. ASSUME NEW t \in Tasks, Terminate(t) PROVE MutexInv'
    BY <1>2, MutexShrink DEF Terminate, Forget, Admitted, Working
  <1>open. ASSUME NEW t \in Tasks, NEW from, NEW to, Open(t, from, to),
                  from \notin {"idle", "start", "poll", "nap"}, to # "nap"
           PROVE  MutexInv'
    BY <1>open, MutexShrink DEF Open, Admitted, Working, script
  <1>drop. ASSUME NEW t \in Tasks, NEW from, NEW to, Drop(t, from, to),
                  from \notin {"idle", "start", "poll", "nap"}, to # "nap"
           PROVE  MutexInv'
    BY <1>drop, MutexShrink DEF Drop, Admitted, Working, script
  <1>close. ASSUME NEW t \in Tasks, NEW from, Close(t, from)
            PROVE  MutexInv'
    BY <1>close, MutexShrink DEF Close, Forget, Admitted, Working
  <1>read. ASSUME NEW t \in P, PollRead(t) PROVE MutexInv'
    <2>1. Watched(t) \in P /\ Watched(t) # t
      BY DEF Watched
    <2>2. CASE pc[Watched(t)] = "idle"
      <3>1. ~Admitted(Watched(t))'
        BY <1>read, <2>1, <2>2 DEF PollRead, Admitted, Working
      <3>2. QED
        BY <2>1, <3>1 DEF MutexInv, Watched
    <2>3. CASE pc[Watched(t)] # "idle"
      <3>1. seen'[t] = "Running" /\ pc'[t] = "nap"
        BY <1>read, <2>3 DEF PollRead, TaskState
      <3>2. ~Admitted(t)'
        BY <3>1 DEF Admitted, Working
      <3>3. QED
        BY <3>2 DEF MutexInv
    <2>4. QED
      BY <2>2, <2>3
  <1>check. ASSUME NEW t \in Waiters, PollCheck(t) PROVE MutexInv'
    BY <1>check, MutexShrink DEF PollCheck, Admitted, Working, script
  <1>report. ASSUME NEW t \in Tasks, Report(t) PROVE MutexInv'
    BY <1>report, MutexShrink DEF Report, Admitted, Working
  <1>copied. ASSUME NEW t \in DiskTasks, CopyEnd(t) PROVE MutexInv'
    BY <1>copied, MutexShrink DEF CopyEnd, Admitted, Working, script, DiskTasks, Tasks
  <1>failed. ASSUME NEW t \in DiskTasks, CopyFailed(t) PROVE MutexInv'
    BY <1>failed, MutexShrink DEF CopyFailed, Admitted, Working, script, DiskTasks, Tasks
  <1>3. CASE ToDiskStep
    <2>1. CASE ToDiskStart
      <3>1. ~Admitted("ToDisk")'
        BY <2>1 DEF ToDiskStart, FirstRead, TaskState, Admitted, Working
      <3>2. QED
        BY <3>1 DEF MutexInv
    <2>2. CASE ToDiskFormat \/ ToDiskFormatFails
      BY <2>2, MutexShrink DEF ToDiskFormat, ToDiskFormatFails, Admitted, Working, script
    <2>3. CASE ToDiskCopy
      BY <2>3, MutexShrink DEF ToDiskCopy, Admitted, Working, script
    <2>4. QED
      BY <1>3, <2>1, <2>2, <2>3, <1>open, <1>drop, <1>close, <1>read, <1>check,
         <1>report, <1>copied, <1>failed DEF ToDiskStep, DiskTasks
  <1>4. CASE SyncStep
    <2>1. CASE SyncStart
      <3>1. CASE pc["ToDisk"] = "idle"
        <4>1. ~Admitted("ToDisk")'
          BY <2>1, <3>1 DEF SyncStart, FirstRead, Admitted, Working
        <4>2. QED
          BY <4>1 DEF MutexInv
      <3>2. CASE pc["ToDisk"] # "idle"
        <4>1. ~Admitted("SyncToDisaster")'
          BY <2>1, <3>2 DEF SyncStart, FirstRead, TaskState, Admitted, Working
        <4>2. QED
          BY <4>1 DEF MutexInv
      <3>3. QED
        BY <3>1, <3>2
    <2>2. CASE SyncMirror
      BY <2>2, MutexShrink DEF SyncMirror, Admitted, Working, script
    <2>3. CASE SyncMirrorEnd
      BY <2>3, MutexShrink DEF SyncMirrorEnd, Admitted, Working, script
    <2>4. CASE SyncSkipWeekend
      BY <2>4, MutexShrink DEF SyncSkipWeekend, Admitted, Working, script
    <2>5. CASE SyncSql
      BY <2>5, MutexShrink DEF SyncSql, Admitted, Working, script
    <2>6. CASE SyncSqlEnd
      BY <2>6, MutexShrink DEF SyncSqlEnd, Admitted, Working, script
    <2>7. QED
      BY <1>4, <2>1, <2>2, <2>3, <2>4, <2>5, <2>6, <1>open, <1>close, <1>read,
         <1>check, <1>report DEF SyncStep
  <1>5. CASE RegionStep
    <2>r. "RegionToDisaster" \in Tasks /\ "RegionToDisaster" \in Waiters
      BY DEF Tasks, Waiters
    <2>1. CASE RegionStart
      BY <2>1, MutexFrame DEF RegionStart, FirstRead
    <2>2. CASE RegionCopy \/ RegionCopyEnd
      BY <2>2, MutexFrame DEF RegionCopy, RegionCopyEnd, script
    <2>3. CASE PollRead("RegionToDisaster")
      BY <2>3, MutexFrame DEF PollRead
    <2>4. QED
      BY <1>5, <2>r, <2>1, <2>2, <2>3, <1>open, <1>close, <1>check, <1>report
         DEF RegionStep
  <1>6. CASE MonthsStep
    <2>m. "disk_30days" \in Tasks /\ "disk_30days" \in DiskTasks
      BY DEF Tasks, DiskTasks
    <2>1. CASE MonthsStart \/ MonthsCopy
      BY <2>1, MutexFrame DEF MonthsStart, MonthsCopy, script
    <2>2. QED
      BY <1>6, <2>m, <2>1, <1>open, <1>drop, <1>close, <1>copied, <1>failed DEF MonthsStep
  <1>7. CASE IPTestStep
    <2>i. "IPTest" \in Tasks
      BY DEF Tasks
    <2>1. CASE IPTestStart \/ IPTestYes
      BY <2>1, MutexFrame DEF IPTestStart, IPTestYes, script
    <2>2. CASE IPTestRestart
      BY <2>2, MutexShrink DEF IPTestRestart, Admitted, Working
    <2>3. QED
      BY <1>7, <2>i, <2>1, <2>2, <1>open, <1>drop, <1>close DEF IPTestStep
  <1>8. CASE Environment
    BY <1>8, MutexFrame DEF Environment, LinkChange, PullDisk, InsertDisk, script
  <1>9. CASE UNCHANGED vars
    BY <1>9, MutexFrame DEF vars
  <1>10. QED
    BY <1>1, <1>2, <1>3, <1>4, <1>5, <1>6, <1>7, <1>8, <1>9 DEF Next, Steps

(***************************************************************************)
(* ToDisk and SyncToDisaster never work at the same time, whatever other   *)
(* tasks are registered and however often tasks are ended or restarted.    *)
(***************************************************************************)
THEOREM Exclusion == Spec => []ExclusiveWork
  <1>1. Init => MutexInv
    BY DEF Init, MutexInv, Admitted, Working, Tasks
  <1>2. MutexInv => ExclusiveWork
    BY DEF MutexInv, ExclusiveWork, Admitted
  <1>3. QED
    BY <1>1, <1>2, TypeCorrect, MutexStep, PTL DEF Spec

----------------------------------------------------------------------------
(***************************************************************************)
(* The air gap.  AirGap is inductive with the type invariant: a step that  *)
(* takes a task out of the phases in which it holds an adapter disables    *)
(* that adapter or, when the task is ended, makes it an orphan.            *)
(***************************************************************************)
\* A step that enables no adapter, and lets go of none that stays enabled
\* without making it an orphan, keeps the air gap.
LEMMA GapFrame ==
  ASSUME AirGap,
         adapters' \subseteq adapters,
         \A a \in adapters' : a \in orphans => a \in orphans',
         \A t \in Tasks : \A a \in adapters' :
            a \in Holds(t) => a \in Holds(t)' \/ a \in orphans'
  PROVE  AirGap'
  BY DEF AirGap

\* Every step of every script, and every termination, keeps the air gap.
LEMMA GapStep == TypeOK /\ AirGap /\ [Next]_vars => AirGap'
  <1> SUFFICES ASSUME TypeOK, AirGap, [Next]_vars PROVE AirGap'
    OBVIOUS
  <1>ty. pc \in [Tasks -> Phases] /\ adapters \subseteq Adapters
    BY DEF TypeOK
  <1>t. /\ "ToDisk" \in Tasks /\ "SyncToDisaster" \in Tasks
        /\ "RegionToDisaster" \in Tasks /\ "disk_30days" \in Tasks
        /\ "IPTest" \in Tasks
    BY DEF Tasks
  <1> USE <1>ty, <1>t DEF Goto
  <1>d. \A t \in Tasks : "Backupsql" \in Holds(t) => pc[t] = "sql"
    BY DEF Holds
  \* A step of one task that keeps what the task holds and no adapter changes.
  <1>keep. ASSUME NEW t \in Tasks, NEW to, pc' = [pc EXCEPT ![t] = to],
                  Holds(t) \subseteq Holds(t)', UNCHANGED <<adapters, orphans>>
           PROVE  AirGap'
    <2>1. \A u \in Tasks : u # t => Holds(u)' = Holds(u)
      BY <1>keep DEF Holds
    <2>2. QED
      BY <1>keep, <2>1, GapFrame
  \* A step of one task that only lets go of adapters that are disabled.
  <1>lose. ASSUME NEW t \in Tasks, NEW to, NEW a, pc' = [pc EXCEPT ![t] = to],
                  Holds(t) \subseteq Holds(t)' \cup {a}, Disable(a)
           PROVE  AirGap'
    <2>1. \A u \in Tasks : u # t => Holds(u)' = Holds(u)
      BY <1>lose DEF Holds
    <2>2. QED
      BY <1>lose, <2>1, GapFrame DEF Disable
  \* A step of one task that enables an adapter and then holds it.
  <1>gain. ASSUME NEW t \in Tasks, NEW to, NEW a, pc' = [pc EXCEPT ![t] = to],
                  Holds(t) \subseteq Holds(t)', a \in Holds(t)', Enable(a)
           PROVE  AirGap'
    <2>1. \A u \in Tasks : u # t => Holds(u)' = Holds(u)
      BY <1>gain DEF Holds
    <2>2. QED
      BY <1>gain, <2>1 DEF Enable, AirGap
  <1>1. ASSUME NEW t \in Tasks, Trigger(t) PROVE AirGap'
    <2>1. Holds(t) = {}
      BY <1>1 DEF Trigger, Holds
    <2>2. QED
      BY <1>1, <2>1, <1>keep DEF Trigger
  <1>2. ASSUME NEW t \in Tasks, Terminate(t) PROVE AirGap'
    <2>1. \A u \in Tasks : u # t => Holds(u)' = Holds(u)
      BY <1>2 DEF Terminate, Holds
    <2>2. QED
      BY <1>2, <2>1, GapFrame DEF Terminate
  <1>open. ASSUME NEW t \in Tasks, NEW from \in {"go", "formatted", "copied"},
                  NEW to \in {"hello", "report", "insert", "on", "test", "close"},
                  Open(t, from, to)
           PROVE  AirGap'
    <2>1. Holds(t) = {} /\ "Backup" \in Holds(t)'
      BY <1>open DEF Open, Holds
    <2>2. QED
      BY <1>open, <2>1, <1>gain DEF Open
  <1>drop. ASSUME NEW t \in Tasks, NEW from, NEW to, from # "sql", Drop(t, from, to)
           PROVE  AirGap'
    <2>1. Holds(t) \subseteq {"Backup"}
      BY <1>drop DEF Drop, Holds
    <2>2. QED
      BY <1>drop, <2>1, <1>lose DEF Drop
  <1>close. ASSUME NEW t \in Tasks, NEW from, from # "sql", Close(t, from)
            PROVE  AirGap'
    <2>1. Holds(t) \subseteq {"Backup"}
      BY <1>close DEF Close, Holds
    <2>2. QED
      BY <1>close, <2>1, <1>lose DEF Close
  <1>move. ASSUME NEW t \in Tasks,
                  \/ PollRead(t) \/ PollCheck(t) \/ Report(t) \/ CopyEnd(t)
                  \/ CopyFailed(t)
           PROVE  AirGap'
    <2>1. Holds(t) \subseteq Holds(t)'
      BY <1>move DEF PollRead, PollCheck, Report, CopyEnd, CopyFailed, Holds
    <2>2. QED
      BY <1>move, <2>1, <1>keep DEF PollRead, PollCheck, Report, CopyEnd, CopyFailed
  <1>3. CASE ToDiskStep
    <2>1. CASE ToDiskStart \/ ToDiskFormat \/ ToDiskFormatFails \/ ToDiskCopy
      <3>1. Holds("ToDisk") = {}
        BY <2>1 DEF ToDiskStart, FirstRead, ToDiskFormat, ToDiskFormatFails, ToDiskCopy, Holds
      <3>2. QED
        BY <2>1, <3>1, <1>keep DEF ToDiskStart, FirstRead, ToDiskFormat, ToDiskFormatFails,
                                   ToDiskCopy
    <2>2. QED
      BY <1>3, <2>1, <1>open, <1>drop, <1>close, <1>move DEF ToDiskStep
  <1>4. CASE SyncStep
    <2>1. CASE SyncStart \/ SyncMirror \/ SyncMirrorEnd \/ SyncSkipWeekend
      <3>1. Holds("SyncToDisaster") \subseteq Holds("SyncToDisaster")'
        BY <2>1 DEF SyncStart, FirstRead, SyncMirror, SyncMirrorEnd,
                    SyncSkipWeekend, Holds
      <3>2. QED
        BY <2>1, <3>1, <1>keep DEF SyncStart, FirstRead, SyncMirror,
                                   SyncMirrorEnd, SyncSkipWeekend
    <2>2. CASE SyncSql
      <3>1. /\ Holds("SyncToDisaster") \subseteq Holds("SyncToDisaster")'
            /\ "Backupsql" \in Holds("SyncToDisaster")'
        BY <2>2 DEF SyncSql, Holds
      <3>2. QED
        BY <2>2, <3>1, <1>gain DEF SyncSql
    <2>3. CASE SyncSqlEnd
      <3>1. Holds("SyncToDisaster") \subseteq Holds("SyncToDisaster")' \cup {"Backupsql"}
        BY <2>3 DEF SyncSqlEnd, Holds
      <3>2. QED
        BY <2>3, <3>1, <1>lose DEF SyncSqlEnd
    <2>4. QED
      BY <1>4, <2>1, <2>2, <2>3, <1>open, <1>close, <1>move DEF SyncStep
  <1>5. CASE RegionStep
    <2>1. CASE RegionStart \/ RegionCopy \/ RegionCopyEnd
      <3>1. Holds("RegionToDisaster") \subseteq Holds("RegionToDisaster")'
        BY <2>1 DEF RegionStart, FirstRead, RegionCopy, RegionCopyEnd, Holds
      <3>2. QED
        BY <2>1, <3>1, <1>keep DEF RegionStart, FirstRead, RegionCopy, RegionCopyEnd
    <2>2. QED
      BY <1>5, <2>1, <1>open, <1>close, <1>move DEF RegionStep
  <1>6. CASE MonthsStep
    <2>1. CASE MonthsStart \/ MonthsCopy
      <3>1. Holds("disk_30days") = {}
        BY <2>1 DEF MonthsStart, MonthsCopy, Holds
      <3>2. QED
        BY <2>1, <3>1, <1>keep DEF MonthsStart, MonthsCopy
    <2>2. QED
      BY <1>6, <2>1, <1>open, <1>drop, <1>close, <1>move DEF MonthsStep
  <1>7. CASE IPTestStep
    <2>1. CASE IPTestStart \/ IPTestYes
      <3>1. Holds("IPTest") \subseteq Holds("IPTest")'
        BY <2>1 DEF IPTestStart, IPTestYes, Holds
      <3>2. QED
        BY <2>1, <3>1, <1>keep DEF IPTestStart, IPTestYes
    <2>2. CASE IPTestRestart
      BY <2>2 DEF IPTestRestart, AirGap
    <2>3. QED
      BY <1>7, <2>1, <2>2, <1>open, <1>drop, <1>close DEF IPTestStep
  <1>8. CASE Environment \/ UNCHANGED vars
    <2>1. UNCHANGED <<pc, adapters, orphans>>
      BY <1>8 DEF Environment, LinkChange, PullDisk, InsertDisk, vars
    <2>2. QED
      BY <2>1 DEF AirGap, Holds
  <1>9. QED
    BY <1>1, <1>2, <1>3, <1>4, <1>5, <1>6, <1>7, <1>8 DEF Next, Steps

(***************************************************************************)
(* No adapter is enabled without a running script that will disable it,    *)
(* except after a script was ended between Enable- and Disable-NetAdapter. *)
(***************************************************************************)
THEOREM AirGapKept == Spec => []AirGap
  <1>1. Init => AirGap
    BY DEF Init, AirGap
  <1>2. QED
    BY <1>1, TypeCorrect, GapStep, PTL DEF Spec
----------------------------------------------------------------------------
(***************************************************************************)
(* The mutual wait.  Whoever waits reads the state of the other task, which *)
(* is Running in the scheduler as long as its script waits as well.         *)
(***************************************************************************)
\* The script of t waits, and what it has read will not let it go.
Stuck(t) == pc[t] = "poll" \/ (pc[t] = "nap" /\ seen[t] = "Running")

\* A step that leaves the two tasks alone, ends one of them, or lets a stuck one
\* take a turn of its loop keeps both stuck or ends one.
LEMMA WaitStep ==
  ASSUME TypeOK, MutualWait, [Next]_vars
  PROVE  MutualWait' \/ \E t \in {"ToDisk", "SyncToDisaster"} : pc'[t] = "idle"
  <1> DEFINE P == {"ToDisk", "SyncToDisaster"}
             Goal == MutualWait' \/ \E t \in P : pc'[t] = "idle"
  <1>t. /\ P \subseteq Tasks /\ P \subseteq Waiters /\ Waiters \subseteq Tasks
        /\ DiskTasks \subseteq Tasks
        /\ "RegionToDisaster" \in Tasks /\ "disk_30days" \in Tasks /\ "IPTest" \in Tasks
    BY DEF Tasks, Waiters, DiskTasks
  <1>ty. pc \in [Tasks -> Phases] /\ seen \in [Waiters -> {"Ready", "Running"}]
    BY DEF TypeOK
  <1>s. \A t \in P : Stuck(t)
    BY DEF MutualWait, Stuck
  <1>p. \A t \in P : pc[t] \in {"poll", "nap"}
    BY <1>s DEF Stuck
  <1>k. ASSUME \A t \in P : Stuck(t)' \/ pc'[t] = "idle" PROVE Goal
    BY <1>k DEF MutualWait, Stuck
  <1>f. ASSUME \A t \in P : pc'[t] = pc[t] /\ seen'[t] = seen[t] PROVE Goal
    BY <1>f, <1>k, <1>s DEF Stuck
  <1> SUFFICES Goal
    OBVIOUS
  <1> HIDE DEF Goal
  <1> USE <1>t, <1>ty DEF Goto
  \* Every other step of a script begins in a phase in which nobody is stuck.
  <1>e. ASSUME NEW t \in Tasks, NEW from, pc[t] = from, from \notin {"poll", "nap"}
        PROVE  t \notin P
    BY <1>e, <1>p
  <1>1. ASSUME NEW t \in Tasks, Trigger(t) PROVE Goal
    BY <1>1, <1>e, <1>f DEF Trigger, script
  <1>2. ASSUME NEW t \in Tasks, Terminate(t) PROVE Goal
    BY <1>2, <1>k, <1>s DEF Terminate, Forget, Stuck
  <1>open. ASSUME NEW t \in Tasks, NEW from, NEW to, from \notin {"poll", "nap"},
                  Open(t, from, to)
           PROVE  Goal
    BY <1>open, <1>e, <1>f DEF Open, script
  <1>drop. ASSUME NEW t \in Tasks, NEW from, NEW to, from \notin {"poll", "nap"},
                  Drop(t, from, to)
           PROVE  Goal
    BY <1>drop, <1>e, <1>f DEF Drop, script
  <1>close. ASSUME NEW t \in Tasks, NEW from, from \notin {"poll", "nap"}, Close(t, from)
            PROVE  Goal
    BY <1>close, <1>e, <1>f DEF Close, Forget
  <1>report. ASSUME NEW t \in Tasks, Report(t) PROVE Goal
    BY <1>report, <1>e, <1>f DEF Report
  <1>copied. ASSUME NEW t \in Tasks, CopyEnd(t) \/ CopyFailed(t) PROVE Goal
    BY <1>copied, <1>e, <1>f DEF CopyEnd, CopyFailed, script
  \* The other task is not idle, so its state is read as Running.
  <1>read. ASSUME NEW t \in P, PollRead(t) PROVE Goal
    <2>1. Watched(t) \in P
      BY DEF Watched
    <2>2. TaskState(Watched(t)) = "Running"
      BY <2>1, <1>p DEF TaskState
    <2>3. pc'[t] = "nap" /\ seen'[t] = "Running"
      BY <1>read, <2>2 DEF PollRead
    <2>4. \A u \in P : u # t => pc'[u] = pc[u] /\ seen'[u] = seen[u]
      BY <1>read DEF PollRead
    <2>5. \A u \in P : Stuck(u)'
      BY <2>3, <2>4, <1>s DEF Stuck
    <2>6. QED
      BY <2>5, <1>k
  <1>check. ASSUME NEW t \in P, PollCheck(t) PROVE Goal
    <2>1. seen[t] = "Running"
      BY <1>check, <1>s DEF PollCheck, Stuck
    <2>2. \A u \in P : Stuck(u)'
      BY <1>check, <2>1, <1>s DEF PollCheck, Stuck, script
    <2>3. QED
      BY <2>2, <1>k
  <1>3. CASE ToDiskStep
    <2>1. ~ (ToDiskStart \/ ToDiskFormat \/ ToDiskFormatFails \/ ToDiskCopy)
      BY <1>p DEF ToDiskStart, FirstRead, ToDiskFormat, ToDiskFormatFails, ToDiskCopy
    <2>2. QED
      BY <1>3, <2>1, <1>open, <1>drop, <1>close, <1>report, <1>copied, <1>read, <1>check DEF ToDiskStep
  <1>4. CASE SyncStep
    <2>1. ~ (\/ SyncStart \/ SyncMirror \/ SyncMirrorEnd \/ SyncSkipWeekend
             \/ SyncSql \/ SyncSqlEnd)
      BY <1>p DEF SyncStart, FirstRead, SyncMirror, SyncMirrorEnd, SyncSkipWeekend,
                  SyncSql, SyncSqlEnd
    <2>2. QED
      BY <1>4, <2>1, <1>open, <1>drop, <1>close, <1>report, <1>copied, <1>read, <1>check DEF SyncStep
  <1>5. CASE RegionStep
    <2>1. CASE \/ RegionStart \/ PollRead("RegionToDisaster")
               \/ PollCheck("RegionToDisaster") \/ RegionCopy \/ RegionCopyEnd
      BY <2>1, <1>f DEF RegionStart, FirstRead, PollRead, PollCheck, RegionCopy,
                        RegionCopyEnd, script
    <2>2. QED
      BY <1>5, <2>1, <1>open, <1>drop, <1>close, <1>report, <1>copied DEF RegionStep
  <1>6. CASE MonthsStep
    <2>1. CASE MonthsStart \/ MonthsCopy
      BY <2>1, <1>f DEF MonthsStart, MonthsCopy, script
    <2>2. QED
      BY <1>6, <2>1, <1>open, <1>drop, <1>close, <1>report, <1>copied DEF MonthsStep
  <1>7. CASE IPTestStep
    <2>1. CASE IPTestStart \/ IPTestYes
      BY <2>1, <1>f DEF IPTestStart, IPTestYes, script
    <2>2. CASE IPTestRestart
      BY <2>2, <1>k DEF IPTestRestart
    <2>3. QED
      BY <1>7, <2>1, <2>2, <1>open, <1>drop, <1>close DEF IPTestStep
  <1>8. CASE Environment \/ UNCHANGED vars
    BY <1>8, <1>f DEF Environment, LinkChange, PullDisk, InsertDisk, script, vars
  <1>9. QED
    BY <1>1, <1>2, <1>3, <1>4, <1>5, <1>6, <1>7, <1>8 DEF Next, Steps

(***************************************************************************)
(* Once ToDisk and SyncToDisaster wait for each other nothing but the end   *)
(* of one of them ends it, whatever other tasks are registered.             *)
(***************************************************************************)
THEOREM DeadlockLasts == Spec => MutualWaitLasts
  <1>1. TypeOK /\ [Next]_vars =>
          [MutualWait => \/ MutualWait'
                         \/ \E t \in {"ToDisk", "SyncToDisaster"} : pc'[t] = "idle"]_vars
    BY WaitStep
  <1>2. QED
    BY <1>1, TypeCorrect, PTL DEF Spec, MutualWaitLasts
----------------------------------------------------------------------------
(***************************************************************************)
(* What is on the disk when CopyToDisk.ps1 reports DISK G: READY.  The      *)
(* invariant follows the disk through a run in which it is neither moved    *)
(* after the Test-Path of line 7 nor refuses the format or a copy: the      *)
(* Test-Path stays true, Format-Volume empties the disk, and the copy from  *)
(* E: is not flawed, since SyncToDisaster does not rewrite E: meanwhile.    *)
(* ToDisk itself reads nothing from the server.                             *)
(***************************************************************************)
CopyInv ==
  /\ pc["ToDisk"] # "mirror"
  /\ pc["ToDisk"] \in {"idle", "start"} => ~ hasDisk["ToDisk"]
  /\ "ToDisk" \notin spoiled =>
       /\ "ToDisk" \notin flawed
       /\ hasDisk["ToDisk"] => disk["ToDisk"] # "absent"
       /\ pc["ToDisk"] \in {"formatted", "hello", "ready"} => disk["ToDisk"] = "empty"
       /\ pc["ToDisk"] = "copying" => disk["ToDisk"] = "partial"
       /\ pc["ToDisk"] \in {"copied", "report"} => disk["ToDisk"] = "full"

\* The steps of other scripts leave the disk of ToDisk and what went wrong with its
\* run alone, and can at most end it.
LEMMA CopyFrame ==
  ASSUME CopyInv,
         \/ /\ pc'["ToDisk"] = pc["ToDisk"] /\ hasDisk'["ToDisk"] = hasDisk["ToDisk"]
            /\ disk'["ToDisk"] = disk["ToDisk"]
            /\ "ToDisk" \in spoiled => "ToDisk" \in spoiled'
            /\ "ToDisk" \in flawed' => "ToDisk" \in flawed
         \/ /\ pc'["ToDisk"] = "idle" /\ ~ hasDisk'["ToDisk"] /\ "ToDisk" \notin flawed'
  PROVE  CopyInv'
  BY DEF CopyInv

\* Every step keeps the disk in the state its script believes it to be in.
LEMMA CopyStep ==
  ASSUME TypeOK, ExclusiveWork, CopyInv, [Next]_vars
  PROVE  CopyInv'
  <1>t. /\ "ToDisk" \in Tasks /\ "SyncToDisaster" \in Tasks
        /\ "RegionToDisaster" \in Tasks /\ "disk_30days" \in Tasks /\ "IPTest" \in Tasks
        /\ "ToDisk" \in Waiters /\ "ToDisk" \in DiskTasks /\ "disk_30days" \in DiskTasks
        /\ Waiters \subseteq Tasks
    BY DEF Tasks, Waiters, DiskTasks
  <1>ty. /\ pc \in [Tasks -> Phases] /\ seen \in [Waiters -> {"Ready", "Running"}]
         /\ hasDisk \in [DiskTasks -> BOOLEAN] /\ disk \in [DiskTasks -> DiskContents]
    BY DEF TypeOK
  <1>n. "ToDisk" \notin NetCopying
    BY DEF CopyInv, NetCopying
  <1>x. Working("ToDisk") => ~ Working("SyncToDisaster")
    BY DEF ExclusiveWork
  <1> USE <1>t, <1>ty, <1>n DEF Goto
  <1>1. ASSUME NEW t \in Tasks, Trigger(t) PROVE CopyInv'
    <2>1. CASE t = "ToDisk"
      BY <1>1, <2>1 DEF Trigger, script, CopyInv
    <2>2. CASE t # "ToDisk"
      BY <1>1, <2>2, CopyFrame DEF Trigger, script
    <2>3. QED
      BY <2>1, <2>2
  <1>2. ASSUME NEW t \in Tasks, Terminate(t) PROVE CopyInv'
    BY <1>2, CopyFrame DEF Terminate, Forget
  <1>open. ASSUME NEW t \in Tasks, t # "ToDisk", NEW from, NEW to, Open(t, from, to)
           PROVE  CopyInv'
    BY <1>open, CopyFrame DEF Open, script
  <1>drop. ASSUME NEW t \in Tasks, t # "ToDisk", NEW from, NEW to, Drop(t, from, to)
           PROVE  CopyInv'
    BY <1>drop, CopyFrame DEF Drop, script
  <1>close. ASSUME NEW t \in Tasks, NEW from, Close(t, from) PROVE CopyInv'
    BY <1>close, CopyFrame DEF Close, Forget
  <1>other. ASSUME NEW t \in Tasks, t # "ToDisk",
                   PollRead(t) \/ PollCheck(t) \/ Report(t) \/ CopyEnd(t) \/ CopyFailed(t)
            PROVE  CopyInv'
    BY <1>other, CopyFrame DEF PollRead, PollCheck, Report, CopyEnd, CopyFailed, script
  <1>3. CASE ToDiskStep
    <2>1. CASE ToDiskStart
      BY <2>1 DEF ToDiskStart, FirstRead, CopyInv
    <2>2. CASE PollRead("ToDisk") \/ PollCheck("ToDisk") \/ Report("ToDisk")
      BY <2>2 DEF PollRead, PollCheck, Report, script, CopyInv
    <2>3. CASE ToDiskFormat
      BY <2>3 DEF ToDiskFormat, script, CopyInv
    <2>4. CASE \/ Open("ToDisk", "formatted", "hello") \/ Open("ToDisk", "copied", "report")
               \/ Open("ToDisk", "go", "insert")
      BY <2>4 DEF Open, script, CopyInv
    <2>5. CASE Drop("ToDisk", "hello", "ready")
      BY <2>5 DEF Drop, script, CopyInv
    <2>6. CASE ToDiskCopy
      <3>1. /\ "ToDisk" \notin spoiled => disk["ToDisk"] = "empty"
            /\ pc["SyncToDisaster"] \notin {"mirror", "sql"}
        BY <2>6, <1>x DEF ToDiskCopy, CopyInv, Working
      <3>2. "ToDisk" \notin spoiled => disk'["ToDisk"] = "partial" /\ flawed' = flawed
        BY <2>6, <3>1 DEF ToDiskCopy
      <3>3. QED
        BY <2>6, <3>2 DEF ToDiskCopy, script, CopyInv
    <2>7. CASE CopyEnd("ToDisk")
      BY <2>7 DEF CopyEnd, script, CopyInv
    \* From here on the run is spoiled.
    <2>8. CASE ToDiskFormatFails \/ CopyFailed("ToDisk")
      BY <2>8 DEF ToDiskFormatFails, CopyFailed, script, CopyInv
    <2>9. QED
      BY <1>3, <2>1, <2>2, <2>3, <2>4, <2>5, <2>6, <2>7, <2>8, <1>close DEF ToDiskStep
  <1>4. CASE SyncStep
    \* While ToDisk copies from E:, the other task does not work.
    <2>1. CASE SyncMirror \/ SyncSql
      <3>1. Working("SyncToDisaster")
        BY <2>1 DEF SyncMirror, SyncSql, Working
      <3>2. pc["ToDisk"] # "copying"
        BY <3>1, <1>x DEF Working
      <3>3. QED
        BY <2>1, <3>2, CopyFrame DEF SyncMirror, SyncSql, script
    <2>2. CASE SyncStart \/ SyncMirrorEnd \/ SyncSkipWeekend \/ SyncSqlEnd
      BY <2>2, CopyFrame DEF SyncStart, FirstRead, SyncMirrorEnd, SyncSkipWeekend,
                             SyncSqlEnd, script
    <2>3. QED
      BY <1>4, <2>1, <2>2, <1>open, <1>close, <1>other DEF SyncStep
  <1>5. CASE RegionStep
    <2>1. CASE RegionStart \/ RegionCopy \/ RegionCopyEnd
      BY <2>1, CopyFrame DEF RegionStart, FirstRead, RegionCopy, RegionCopyEnd, script
    <2>2. QED
      BY <1>5, <2>1, <1>open, <1>close, <1>other DEF RegionStep
  <1>6. CASE MonthsStep
    <2>1. CASE MonthsStart \/ MonthsCopy
      BY <2>1, CopyFrame DEF MonthsStart, MonthsCopy, script
    <2>2. QED
      BY <1>6, <2>1, <1>open, <1>drop, <1>close, <1>other DEF MonthsStep
  <1>7. CASE IPTestStep
    <2>1. CASE IPTestStart \/ IPTestYes \/ IPTestRestart
      BY <2>1, CopyFrame DEF IPTestStart, IPTestYes, IPTestRestart, script
    <2>2. QED
      BY <1>7, <2>1, <1>open, <1>drop, <1>close DEF IPTestStep
  <1>8. CASE Environment \/ UNCHANGED vars
    <2>1. CASE LinkChange \/ UNCHANGED vars
      BY <2>1, CopyFrame DEF LinkChange, script, vars
    \* A move spoils the run, unless the script has not looked for the disk yet.
    <2>2. ASSUME NEW t \in DiskTasks, PullDisk(t) \/ InsertDisk(t) PROVE CopyInv'
      <3>1. CASE t # "ToDisk"
        BY <2>2, <3>1, CopyFrame DEF PullDisk, InsertDisk, Spoil, script
      <3>2. CASE t = "ToDisk" /\ pc["ToDisk"] \in {"idle", "start"}
        BY <2>2, <3>2 DEF PullDisk, InsertDisk, Spoil, script, CopyInv
      <3>3. CASE t = "ToDisk" /\ pc["ToDisk"] \notin {"idle", "start"}
        BY <2>2, <3>3 DEF PullDisk, InsertDisk, Spoil, script, CopyInv
      <3>4. QED
        BY <3>1, <3>2, <3>3
    <2>3. QED
      BY <1>8, <2>1, <2>2 DEF Environment
  <1>9. QED
    BY <1>1, <1>2, <1>3, <1>4, <1>5, <1>6, <1>7, <1>8 DEF Next, Steps

\* Only the report of ToDisk puts it among the tasks that reported success.
LEMMA ReadyStep ==
  ASSUME CopyInv, [Next]_vars, "ToDisk" \in claimed', "ToDisk" \notin claimed
  PROVE  disk["ToDisk"] = "full" \/ "ToDisk" \in spoiled
  <1>1. \A t : Report(t) => t = "ToDisk" \/ ("ToDisk" \notin claimed')
    BY DEF Report
  <1>2. Report("ToDisk") => disk["ToDisk"] = "full" \/ "ToDisk" \in spoiled
    BY DEF Report, Goto, CopyInv
  <1>3. \A t, from, to : ~ Open(t, from, to) /\ ~ Drop(t, from, to) /\ ~ Close(t, from)
    BY DEF Open, Drop, Close, Forget, script
  <1>4. \A t : ~ Trigger(t) /\ ~ Terminate(t) /\ ~ PollRead(t) /\ ~ PollCheck(t)
              /\ ~ CopyEnd(t) /\ ~ CopyFailed(t)
    BY DEF Trigger, Terminate, PollRead, PollCheck, CopyEnd, CopyFailed, Forget, script
  <1>5. ToDiskStep => Report("ToDisk")
    BY <1>3, <1>4 DEF ToDiskStep, ToDiskStart, FirstRead, ToDiskFormat, ToDiskFormatFails,
                      ToDiskCopy, script
  <1>6. SyncStep => Report("SyncToDisaster")
    BY <1>3, <1>4 DEF SyncStep, SyncStart, FirstRead, SyncMirror, SyncMirrorEnd,
                      SyncSkipWeekend, SyncSql, SyncSqlEnd, script
  <1>7. RegionStep => Report("RegionToDisaster")
    BY <1>3, <1>4 DEF RegionStep, RegionStart, FirstRead, RegionCopy, RegionCopyEnd, script
  <1>8. ~ MonthsStep
    BY <1>3, <1>4 DEF MonthsStep, MonthsStart, MonthsCopy, script
  <1>9. ~ IPTestStep
    BY <1>3 DEF IPTestStep, IPTestStart, IPTestYes, IPTestRestart, script
  <1>10. ~ Environment /\ ~ UNCHANGED vars
    BY DEF Environment, LinkChange, PullDisk, InsertDisk, script, vars
  <1>11. QED
    BY <1>1, <1>2, <1>4, <1>5, <1>6, <1>7, <1>8, <1>9, <1>10 DEF Next, Steps

(***************************************************************************)
(* DISK G: READY is only reported for a disk that holds everything that was *)
(* to be copied, unless in this run the disk was moved after the Test-Path  *)
(* of line 7, or a format or a copy to it failed: whatever other tasks are  *)
(* registered, however often the link fails, tasks are ended in the middle, *)
(* and disks were moved or failed in other runs.                            *)
(***************************************************************************)
THEOREM ReadyDiskIsCopied == Spec => ReadyUnlessSpoiled
  <1>1. Init => CopyInv
    BY DEF Init, CopyInv, Tasks, DiskTasks
  <1>2. TypeOK /\ ExclusiveWork /\ CopyInv /\ [Next]_vars => CopyInv'
    BY CopyStep
  <1>3. CopyInv /\ [Next]_vars =>
          [("ToDisk" \in claimed' /\ "ToDisk" \notin claimed)
              => disk["ToDisk"] = "full" \/ "ToDisk" \in spoiled]_vars
    BY ReadyStep
  <1>4. QED
    BY <1>1, <1>2, <1>3, TypeCorrect, Exclusion, PTL DEF Spec, ReadyUnlessSpoiled
----------------------------------------------------------------------------
(***************************************************************************)
(* What END OK of toDisaster.ps1 means where only the two tasks that wait   *)
(* for each other are registered and the backup server answers.  From its   *)
(* Enable-NetAdapter to the end of the script the adapter stays enabled:    *)
(* ToDisk, the only other script that disables it, does not work.           *)
(***************************************************************************)
MirrorInv ==
  /\ "SyncToDisaster" \notin flawed /\ link
  /\ pc["SyncToDisaster"] \in {"on", "mirror", "mirrored", "sql", "report", "close"}
        => "Backup" \in adapters

\* Steps that leave the adapter to whoever has it and do not bring SyncToDisaster
\* to a phase that needs it.
LEMMA MirrorFrame ==
  ASSUME MirrorInv, UNCHANGED link, "SyncToDisaster" \notin flawed',
         \/ pc'["SyncToDisaster"] \notin {"on", "mirror", "mirrored", "sql", "report", "close"}
         \/ /\ "Backup" \in adapters => "Backup" \in adapters'
            /\ pc["SyncToDisaster"] \in {"on", "mirror", "mirrored", "sql", "report", "close"}
  PROVE  MirrorInv'
  BY DEF MirrorInv

\* With the two tasks only, and a link that stays up, no step takes the network
\* away under SyncToDisaster.
LEMMA MirrorStep ==
  ASSUME TypeOK, ExclusiveWork, MirrorInv, ~ LinkFails,
         Scheduled \subseteq {"ToDisk", "SyncToDisaster"}, [Next]_vars
  PROVE  MirrorInv'
  <1> DEFINE Net == {"on", "mirror", "mirrored", "sql", "report", "close"}
  <1>t. /\ "ToDisk" \in Tasks /\ "SyncToDisaster" \in Tasks
        /\ "RegionToDisaster" \in Tasks /\ "disk_30days" \in Tasks /\ "IPTest" \in Tasks
        /\ "ToDisk" \in Waiters /\ "SyncToDisaster" \in Waiters
    BY DEF Tasks, Waiters
  <1>ty. /\ pc \in [Tasks -> Phases] /\ seen \in [Waiters -> {"Ready", "Running"}]
    BY DEF TypeOK
  <1>i. \A t \in {"RegionToDisaster", "disk_30days", "IPTest"} : pc[t] = "idle"
    BY <1>t DEF TypeOK
  <1>x. Working("ToDisk") => ~ Working("SyncToDisaster")
    BY DEF ExclusiveWork
  <1>y. Working("ToDisk") => pc["SyncToDisaster"] \notin Net
    BY <1>x DEF Working
  <1>f. "SyncToDisaster" \notin flawed /\ link
    BY DEF MirrorInv
  <1>a. pc["SyncToDisaster"] \in Net => Reach
    BY DEF MirrorInv, Reach
  <1> USE <1>t, <1>ty, <1>f DEF Goto
  <1>1. ASSUME NEW t \in Tasks, Trigger(t) PROVE MirrorInv'
    <2>1. UNCHANGED <<adapters, link, flawed>>
      BY <1>1 DEF Trigger
    <2>2. pc'["SyncToDisaster"] \in {pc["SyncToDisaster"], "start"}
      BY <1>1 DEF Trigger
    <2>3. QED
      BY <2>1, <2>2, MirrorFrame
  <1>2. ASSUME NEW t \in Tasks, Terminate(t) PROVE MirrorInv'
    <2>1. UNCHANGED <<adapters, link>> /\ flawed' \subseteq flawed
      BY <1>2 DEF Terminate
    <2>2. pc'["SyncToDisaster"] \in {pc["SyncToDisaster"], "idle"}
      BY <1>2 DEF Terminate
    <2>3. QED
      BY <2>1, <2>2, MirrorFrame
  <1>3. CASE ToDiskStep
    <2>p. /\ pc'["SyncToDisaster"] = pc["SyncToDisaster"]
          /\ UNCHANGED link
      BY <1>3 DEF ToDiskStep, ToDiskStart, FirstRead, PollRead, PollCheck, ToDiskFormat, Open,
                  Drop, ToDiskCopy, CopyEnd, CopyFailed, ToDiskFormatFails, Report, Close
    <2>1. CASE \/ Drop("ToDisk", "hello", "ready") \/ Close("ToDisk", "close")
               \/ Close("ToDisk", "insert")
      <3>1. Working("ToDisk")
        BY <2>1 DEF Drop, Close, Working
      <3>2. "SyncToDisaster" \notin NetCopying
        BY <3>1, <1>y DEF NetCopying
      <3>3. "SyncToDisaster" \notin flawed'
        BY <2>1, <3>2 DEF Drop, Close
      <3>4. QED
        BY <2>p, <3>1, <3>3, <1>y, MirrorFrame
    <2>2. CASE \/ ToDiskStart \/ PollRead("ToDisk") \/ PollCheck("ToDisk") \/ ToDiskFormat
               \/ ToDiskFormatFails \/ ToDiskCopy \/ CopyEnd("ToDisk")
               \/ CopyFailed("ToDisk") \/ Report("ToDisk")
      <3>1. UNCHANGED adapters /\ flawed' \subseteq flawed \cup {"ToDisk"}
        BY <2>2 DEF ToDiskStart, FirstRead, PollRead, PollCheck, ToDiskFormat,
                    ToDiskFormatFails, ToDiskCopy, CopyEnd, CopyFailed, Report
      <3>2. QED
        BY <2>p, <3>1, MirrorFrame
    <2>3. CASE \/ Open("ToDisk", "formatted", "hello") \/ Open("ToDisk", "copied", "report")
               \/ Open("ToDisk", "go", "insert")
      <3>1. adapters \subseteq adapters' /\ flawed' = flawed
        BY <2>3 DEF Open, Enable
      <3>2. QED
        BY <2>p, <3>1, MirrorFrame
    <2>4. QED
      BY <1>3, <2>1, <2>2, <2>3 DEF ToDiskStep
  <1>4. CASE SyncStep
    <2>1. CASE SyncStart \/ PollRead("SyncToDisaster") \/ PollCheck("SyncToDisaster")
      <3>1. UNCHANGED <<link, flawed, adapters>>
            /\ pc'["SyncToDisaster"] \notin {"on", "mirror", "mirrored", "sql", "report", "close"}
        <4>1. CASE SyncStart
          BY <4>1 DEF SyncStart, FirstRead, Goto
        <4>2. CASE PollRead("SyncToDisaster")
          BY <4>2 DEF PollRead, Goto
        <4>3. CASE PollCheck("SyncToDisaster")
          BY <4>3 DEF PollCheck, Goto
        <4>4. QED
          BY <2>1, <4>1, <4>2, <4>3
      <3>2. QED
        BY <3>1, MirrorFrame DEF MirrorInv
    <2>2. CASE Open("SyncToDisaster", "go", "on")
      BY <2>2 DEF Open, Enable, MirrorInv
    \* The copies find the server, so they are not flawed.
    <2>3. CASE SyncMirror
      BY <2>3, <1>a, MirrorFrame DEF SyncMirror
    <2>4. CASE SyncSql
      <3>1. flawed' = flawed \cup {t \in DiskTasks : pc[t] = "copying"}
        BY <2>4, <1>a DEF SyncSql
      <3>2. "SyncToDisaster" \notin flawed'
        BY <3>1 DEF DiskTasks
      <3>3. QED
        BY <2>4, <3>2, MirrorFrame DEF SyncSql, Enable
    <2>5. CASE SyncMirrorEnd \/ SyncSkipWeekend \/ Report("SyncToDisaster")
      BY <2>5, MirrorFrame DEF SyncMirrorEnd, SyncSkipWeekend, Report
    <2>6. CASE SyncSqlEnd
      BY <2>6, MirrorFrame DEF SyncSqlEnd, Disable
    <2>7. CASE Close("SyncToDisaster", "close")
      BY <2>7, MirrorFrame DEF Close
    <2>8. QED
      BY <1>4, <2>1, <2>2, <2>3, <2>4, <2>5, <2>6, <2>7 DEF SyncStep
  \* The other three tasks are not registered.
  <1>5. ~ RegionStep
    BY <1>i DEF RegionStep, RegionStart, FirstRead, PollRead, PollCheck, Open, RegionCopy,
                RegionCopyEnd, Report, Close
  <1>6. ~ MonthsStep
    BY <1>i DEF MonthsStep, MonthsStart, Open, Drop, MonthsCopy, CopyEnd, CopyFailed, Close
  <1>7. ~ IPTestStep
    BY <1>i DEF IPTestStep, IPTestStart, Open, IPTestYes, Drop, IPTestRestart, Close
  <1>8. CASE Environment \/ UNCHANGED vars
    <2>1. UNCHANGED <<pc, adapters, link>> /\ "SyncToDisaster" \notin flawed'
      BY <1>8 DEF Environment, LinkChange, PullDisk, InsertDisk, vars, DiskTasks
    <2>2. QED
      BY <2>1, MirrorFrame
  <1>9. QED
    BY <1>1, <1>2, <1>3, <1>4, <1>5, <1>6, <1>7, <1>8 DEF Next, Steps

(***************************************************************************)
(* END OK is only written by a run in which no copy lost its network, if    *)
(* no third task is registered that could disable the adapter and the       *)
(* backup server answers, although ToDisk disables the same adapter.        *)
(***************************************************************************)
THEOREM EndOkIsMirrored ==
  ~ LinkFails /\ Scheduled \subseteq {"ToDisk", "SyncToDisaster"} /\ Spec => EndOkMeansMirrored
  <1> SUFFICES ASSUME ~ LinkFails, Scheduled \subseteq {"ToDisk", "SyncToDisaster"}
               PROVE  Spec => EndOkMeansMirrored
    OBVIOUS
  <1>1. Init => MirrorInv
    BY DEF Init, MirrorInv, Tasks
  <1>2. TypeOK /\ ExclusiveWork /\ MirrorInv /\ [Next]_vars => MirrorInv'
    BY MirrorStep
  <1>3. MirrorInv =>
          [("SyncToDisaster" \in claimed' /\ "SyncToDisaster" \notin claimed)
              => "SyncToDisaster" \notin flawed]_vars
    BY DEF MirrorInv
  <1>4. QED
    BY <1>1, <1>2, <1>3, TypeCorrect, Exclusion, PTL DEF Spec, EndOkMeansMirrored
=============================================================================
