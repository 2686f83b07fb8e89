# Verification of the backup and monitoring scripts and of the Fluent Bit headers

The repository is the working directory of a system administrator: PowerShell
scripts that run unattended on Windows hosts, the Zabbix templates that call
them, and deployed material (the Fluent Bit agent with its C headers, Loki
charts, Ansible and Salt roles). Most scripts are one-shot commands. A few
scripts keep state, run concurrently or fail silently; and of Fluent
Bit the headers hold the code that every plugin compiles in: lists, the event
loop, tasks and flush coroutines, the encoder. This project is about these.
Everything below is read from the source; line numbers refer to the files under
`src/`. The headers are under `src/agents/Fluentbit/fluentbit/include/`.

## 1. Inventory

| Component | State it keeps | Operations | Interaction |
|---|---|---|---|
| **FileSYnc** (`FileSYnc/*.ps1`, host DISASTER) | scheduler states of five tasks, adapters `Backup`, `Backupsql`, mirror `E:`, disks `G:`, `F:` | `CopyToDisk` (task ToDisk), `toDisaster` (SyncToDisaster), `RegionToDisaster`, `MonthsDiskBackup` (disk_30days), `IPTest` | read each other's task state; enable and disable one shared adapter; write to and read from `E:`; `IPTest` may restart the computer |
| **Agent catalog** (`zbx/veeam/VeeamAgentFree.ps1`, `VeeamAgentFreeToZabbix.ps1`) | text file of mail subjects, XML catalog of jobs | collect mails (Exchange), ExportXml, answer items | text file handed from one host to another; catalog loaded, edited and saved as a whole by every export |
| **Veeam B&R export** (`zbx/veeam/zabbix_vbr_job.ps1`) | one XML file per item, a temporary file each | ExportXml (process count, background jobs), ImportXml, items | exporters exclude each other through the process list; readers import while copies run |
| SEP catalog (`zbx/sep/SEP.ps1`) | XML catalog | ExportXml, items | same pattern as the agent catalog |
| **Account provisioning** (`PS/adduser.ps1`) | snapshot of the staff list, AD, SQL | compare, create, change, dismiss, register, report | file share, AD, SQL server |
| **VeeamZIP rotation** and retention of `E:` (`FileSYnc/toDisaster.ps1` 16-19, 42-49, 66-81) | files and their age | purge, delete, copy | part of SyncToDisaster |
| Task discovery, AD scripts, other PS scripts, monitoring scripts, installers | none | one-shot | none |
| **mk_list** (`monkey/mk_core/mk_list.h`) | two pointers per cell | add, add_after, add_before, append, prepend, del, cat, foreach_safe | every structure of the agent is threaded on it |
| **Bucket queue, event loop** (`flb_bucket_queue.h`, `flb_event_loop.h`, `mk_event.h`) | one list per priority, a lazy `top`, the reported events | add, find_min, delete_min, pop_min, direct deletion; one round of the loop | handlers inject, delete and register events in mid-round |
| **Tasks and flushes** (`flb_task.h`, `flb_output.h`, `flb_coro.h`, `flb_output_thread.h`) | users, routes, retries and lock of a task; flush contexts; thread-local parameters; pipes | create, resume, look at the route, flush, return, destroy | engine thread and worker threads, through locks and pipes |
| **Processing before a flush** (`flb_output.h` 610-897) | buffers, contexts, chunk | decode, process, encode, grow, give up | part of flb_output_flush_create |
| **Input coroutines** (`flb_input.h`) | one global key, parameters per thread, coroutines | collect, resume, return, destroy | all input threads share the key |
| **Streams** (`flb_stream.h`) | mode flags, thread safety, mutex | enable, acquire, release | users of the connection lists |
| **Plugin registry** (`flb_plugins.h`) | five lists of heap copies | register, deregister | may stop at any plugin |
| **Log event encoder** (`flb_log_event_encoder*.h`) | three dynamic fields | append, scopes, set whole | values as variable arguments |
| **Codecs** (`flb_utf8.h`, `flb_bits.h`, `flb_byteswap.h`, `flb_str.h`) | none | decode, keys, swap, trim | result keys go through the pipes |
| Other headers | none | declarations | - |
| Ansible, Salt, Loki | configuration | - | - |

What is hard in them, and hard to test:

* *Check, sleep, act.* The FileSYnc scripts decide on a task state that was read
  up to half an hour earlier; the disk is tested hours before it is written.
* *Shared adapter without counting.* Any script disables `Backup`, also under a
  running copy of another one.
* *No error path.* Errors are silent and no exit code is looked at, so a success
  report only says that the script came to that line.
* *Ends at any point.* The 72 h limit, the operator or `Restart-Computer` end a
  script between any two commands.
* *Whole-file updates.* The catalog is truncated in place by `Save`; the item files
  by `Copy-Item`; other processes read and write them at the same time.
* *State that cannot be left.* A catalog with fewer than two jobs, a torn catalog.
* *Lazy and intrusive structures.* `top` is not moved when an item is unlinked directly;
  a loop holds a saved neighbour while its body edits the list.
* *Two threads, one task.* The engine drops a route while a worker resumes its flush;
  parameters go through storage that the next flush of the thread overwrites.
* *Marked as done before it is done.* `adduser.ps1` replaces its snapshot before it applies the
  rows; the rotation removes the old backup before it copies the new one.
* *A dozen failure paths* in one function, each releasing by hand what was acquired.

What makes each component correct: the two nightly tasks exclude each other and the
air gap is closed again (FileSYnc); one true, current job per machine and an alarm
for failures (agent catalog); one exporter, files that never go back and readers that
tell a missing file from one being copied (B&R); accounts that are what the staff list says or
a report that says otherwise; on E: a backup that is only given up for a newer one; lists whose links mirror each other, a
queue that always answers with the oldest item of the best priority, handlers that run
only for registered events, tasks that live exactly as long as somebody uses them, and
flushes that work with their own parameters on routes nobody dropped (Fluent Bit). `PROJECT.json` lists the hazards at
their lines with the properties aimed at them.

## 2. Modules

| Module | Models | 
|---|---|
| `FileSync` | the five scripts as program counters over their phases, the scheduler, adapters, disks, link |
| `MCFileSync` | instances: which tasks are registered |
| `FileSyncProofs` | theorems about `FileSync` |
| `Selection` | the elements of a sequence at some places, in their order: what `Where-Object` and the removal loops of the scripts leave |
| `SelectionProofs` | lemmas about `Selection` |
| `Catalog` | the edits ExportXml makes to the catalog, as operators on sequences of jobs |
| `AgentCatalog` | mails, text file, overlapping exports on top of `Catalog`, the item AllResult |
| `MCAgentCatalog` | instances: symmetry of machines and exporters |
| `VbrExport` | exporters with background jobs, the item files, readers |
| `MCVbrExport` | instances: the exported items |
| `VbrExportProofs` | theorems about `VbrExport` |
| `AgentCatalogProofs` | theorems about `AgentCatalog` |
| `AddUser` | the comparison of the staff list and the rows of one run, with directory and SQL |
| `VeeamZip` | the rotation of `*.vbk` on `E:` |
| `OperationsProofs` | theorems about `VeeamZip` and `AddUser` |
| `MCOperations` | instances of these two, one at a time |
| `FlbNull` | the null pointer, shared by the modules of the headers |
| `SeqLists`, `MkList` | what a set of lists promises; the cells and pointers that implement it |
| `PriorityQueue`, `BucketQueue` | what the queue promises; buckets and `top` that implement it |
| `EventLoop` | one round after the other of the engine's loop, on top of `BucketQueue` |
| `BucketQueueProofs` | theorems about `BucketQueue`, the refinement among them, and about `EventLoop` |
| `FlbFlush`, `MCFlbFlush` | tasks, routes, flush coroutines, workers, pipes |
| `FlbFlushProofs` | theorems about `FlbFlush` |
| `OutputProcess`, `FlbInput`, `FlbStream`, `FlbPlugins`, `LogEncoder`, `FlbCodecs` | the other parts of the headers |
| `FlbLibraryProofs` | theorems about `MkList`, the refinement among them, `FlbStream`, `FlbInput`, `FlbPlugins`, `OutputProcess`, `LogEncoder` and `FlbCodecs` |
| `MCFlbLibrary` | instances of all parts that share no state, one at a time |

Definitions whose comment begins with *Wrong variant* or *The mutated form* are used nowhere: each is a
plausible mistake in the definition that follows it, and some property fails when it
takes that definition's place.

### FileSync

`pc[t]` is the phase of the script of task `t`; a phase ends where the script sleeps or
runs a long command, because there the others interleave. `seen`, `hasDisk` and
`weekend` are the script variables `$ToDisk`/`$SyncToDisaster`, `$disk` and `$subbota`.
`flawed`, `claimed`, `spoiled` and `orphans` are history: runs that may have lost files without
noticing, runs that have reported success, runs whose disk was moved after the script had looked for
it, or not formatted, or not fully copied to, and adapters left enabled by a task that was ended. The phases are

    start -> poll <-> nap -> go -> formatted -> hello -> ready -> copying -> copied -> report -> close   ToDisk
    start -> poll <-> nap -> go -> on -> mirror -> mirrored -> sql -> report -> close                    SyncToDisaster
    start -> poll <-> nap -> go -> on -> mirror -> report -> close                                       RegionToDisaster
    start -> go -> hello -> ready -> copying -> copied -> close                                          disk_30days
    start -> go | spin;  go -> test -> close | restart                                                   IPTest

and `go -> insert` when no disk was found. `Open`, `Drop`, `Close`, `Report` and
`CopyEnd` are the steps the scripts share. Modelling decisions:

* A task state is Ready or Running. The tasks are registered with `IgnoreNew`, so
  Queued does not occur; Disabled is left out.
* CopyToDisk.ps1 line 10 reads the state of ToDisk, that is, its own: it always enters
  the wait loop. `FirstRead` keeps this.
* The three states IPTest reads in lines 2-4 are taken in one step. The loop in lines
  6-18 tests these values and never reads again: the phase `spin` has no way out but
  `Terminate` or a restart.
* `Restart-Computer` either works, which ends every script, or fails, after which
  the script goes on; that an adapter is enabled survives the restart.
* robocopy gives up after its retries. A copy that cannot reach the server, or whose
  adapter is disabled or link lost in between, is `flawed` and the script goes on. The SQL
  copy has an adapter of its own but its log is on the backup server: without it robocopy
  does not start.
* With `CopyFails`, formatting fails or a copy loses files with the disk in its tray, too
  (the disk is full, a file is locked). No exit code is looked at, so the script goes on
  to its READY all the same (`ToDiskFormatFails`, `CopyFailed`).
* Files are not modelled; `disk[t]` says how far the disk in the tray has got.

### Catalog and AgentCatalog

A document is the sequence of `job` elements; dates are days. `Open`, `Load`, one
`Handle` per message, `SaveBegin`, `SaveEnd` are the ExportXml branch; `SaveBegin`
includes the whole clean-up of lines 154-174, which works on the process's own document.
Modelling decisions:

* The result stored is always `"0"`: line 134 ends in `-or "*Warning*"`, which is always
  true, and `ifelse` is no keyword.
* A subject is what the splits on `-` find in it. Lines 135 and 137 look for the name and for
  the date independently, and errors are silent: where one is missing, that of the message before stays.
* The filter of the Exchange script lets every subject through, so other mail
  (`OtherMail`) has neither a name nor a date, a name without a date, which then goes with the
  date of the message before, or both; the name may be that of a machine. `foreign` is
  history: the names that such mail has carried.
* `addxml` clones the second job. With fewer than two it fails silently. The template's
  date is the word `default`, which compares after every date: only its name removes it.
* `Save` truncates the file; a second process that saves meanwhile fails silently.
* A mail comes on the day of the backup or, with `Delays`, a day late. One report per
  machine and day is a bound; so are the names and dates of other mail (`OtherNames`, `OtherDates`),
  how many names come with it (`MaxForeign`) and the length of the log when it comes (`MaxInbox`).

### VbrExport

`pc[e]` is the main thread of an exporter, `job[e][i]` its background job for item `i`.
A content is absent, torn, an empty list, or the state of the server after `ver`
sessions. `cut` and `seen` are history. Modelling decisions:

* A background job is a child of its process and ends with it.
* Connecting, the query and the export have no time limit: a job may stay in them for ever, and
  its exporter with it.
* The process filter `*exportxml*` also counts `VeeamAgentFreeToZabbix.ps1 exportxml`
  on the same host: `Others`.
* A query that fails still exports an empty list and copies it over the last good file.
* `Copy-Item` fails silently while a reader has the file open (`CopyRefused`).
* ImportXml tries twice; the second failure returns nothing. ResultBackup then answers
  4 and ResultBackupSync 2.
* Statuses other than Success and Failed, and the merge of retry sessions, are left out.

### AddUser

`pc` is the statement a run of the script has reached, `i` the row. `results` are the files of
changed rows, one per run, as the script keeps them in `Compare_log`. `cut` is history: runs that
were killed or had filled `$Error`. Modelling decisions:

* A row of the new list is the *pattern* of `Select-String` on the old one, so a dot in a contact
  field matches any character (a change may be missed) and a field with a plus sign matches
  nothing (the row is applied on every run). A pattern that is no regular expression is left out.
* The filter for `False` in lines 80-84 is dead: the last of the trimmed columns is the
  patronymic, in quotes. Every row without a match is kept, also the dismissal of a person whose
  later row is unchanged.
* Without `try` a failing call only adds to `$Error`, and the script goes on with the next
  statement; in the `try` block of a change it ends the block. Calls that fail are bounded by
  `MaxFaults`; the errors of an empty surname and of a dismissal without an account are not faults.
* `$firstname` is reset after a change or a creation, not after a dismissal or a skipped row.
* Line 310 enables pu04984 at the end of every run, dismissed or not.

### VeeamZip

A backup is the day it was written. Lines 73-79 are three steps, because Veeam writes and deletes
on the server meanwhile: `Choose`, `Remove` (which leaves files in use behind), `Copy` (which may
fail, with or without a part of the file). A copy cut off keeps its name: the next run finds the
name, removes nothing and copies again. That a file name is part of another one is left out.

### MkList and SeqLists

`mem` maps each cell to its two pointers and the operators `mk_list_*` are the inline
functions, assignment by assignment, as functions from memory to memory. `moved` are the
heads whose list `mk_list_cat` gave away; `iter` is a `mk_list_foreach_safe` loop in
progress. An entry is added only when it is on no list, and a body does not delete the
entry the macro has saved: the macro cannot survive either. `mk_list_add_after` keeps its
special case: with one entry on the list it appends, whatever place is named.

### PriorityQueue, BucketQueue and EventLoop

`BucketQueue` takes a list as the sequence that `MkList` implements. `top` is an index;
`Count` is one past the last bucket. `DirectDel` is `mk_list_del` on a waiting item, which
the header allows: neither `top` nor `n_items` follows. A priority that names no bucket is
refused. In `EventLoop` the `for` statement of `flb_event_priority_live_foreach` is cut where
a handler may run: `Round` (initialisation), `Load` (one reported event), `Take` (pop, then the
condition: what is popped at `max_iter` is not handled), the handler's body, `LoadInjected`,
`WaitAgain`. `max_iter` may be -1, no bound. Before it returns, a handler injects, deletes and registers events in any order,
as many as `MaxEffects` allows, its own too. An event that was injected and then deleted stays in the
list, and line 67 loads it without the test of its status that line 42 makes: `slipped` is the
history of these. The backend that reports and injects is external: it reports readable
events in any order, deleted ones perhaps among them.

### FlbFlush

`at` is the place of a flush coroutine: created (switched out in `output_pre_cb_flush`, its
parameters copied), entered, locked or dropped (the route looked at, `task->lock` held),
flushing, waiting, returning or refused, notified, destroying. `running[th]` is the coroutine a
thread executes; `current[th]` is `flb_coro_get()`, which the event loop does not clear. `params[th]` is
the thread-local structure, `inbox` the requests to a thread, `pipe` its return events. The
engine's side (start, retry, handling of a return event, dropping of a route) is not in the
repository; its actions are marked external and follow what the headers expect: a user per
route, release when the last one leaves and no retry is left, drop under the lock and only
when no route is active. Faults: no memory for context, coroutine or parameters, and a
return event that cannot be written, which the code only logs; `lost` counts the answers that
nobody will hear of.

### The other parts of the headers

* `OutputProcess`: `flb_output_flush_create` from the first allocation to `co_create`, with
  what is held at each step and released on each failure path. The blocks of metrics and
  traces are alike. `freed` says that the task's own data was freed: on the path after a
  failed `co_create` it can be, so the property claims the opposite only of flushes that were linked.
* `FlbInput`: every collect creates the one global key anew; two threads interleave on
  it between `pthread_key_create`, `pthread_getspecific` and `pthread_setspecific`. Without memory for the parameters
  (lines 478-482) the collect returns a coroutine that is listed and was not entered; a later resume
  enters it (`EnterInput`), with whatever its thread stored last. `starved` is the history of these.
  That `co_create` succeeds is assumed.
* `FlbStream`: before thread safety is enabled acquire and release do nothing. Enabling sets the flag, initialises
  the mutex and unlinks the stream, three steps that the other threads see one by one (in this order, as on
  x86), and it may be called again. Locking a mutex that is not initialised and unlocking one that
  one does not hold are undefined, hence either outcome.
* `FlbPlugins`: every declared plugin in the order of the code; memory may run out at any.
* `LogEncoder`: a value is a type code with operands, read back until a zero code; the lists come from
  `ArgumentLists`, of which `EncAssumption` says only that the value macros yield them. The
  dynamic field functions are external. Setting a field whole is a sequence of steps that
  stops at the first failure.
* `FlbCodecs`: the UTF-8 automaton as its table, fed with the bytes of `CodecBytes` and
  compared with the definition of well-formed UTF-8; the 32-bit key of a flush result; swaps, byte by
  byte as the macros assign them, compared with the mirrored bytes;
  `flb_rtrim`, which may read the byte before its string.

## 3. Runs

| Run | Instance | Checks |
|---|---|---|
| `filesync_pair` | ToDisk, SyncToDisaster; terminations, disks move, formats and copies to disk fail; fair | `ExclusiveWork`, `ReadyUnlessSpoiled`, `EndOkMeansMirrored`, `MutualWaitLasts`, `WaitEnds`, `AirGapRestored` |
| `filesync_restart` | the four tasks other than SyncToDisaster, disks move, formats, copies and the link fail, restarts | `TypeOK`, `AirGap` |
| `filesync_mutual_wait` | the pair | `NoMutualWait` is **violated** |
| `filesync_ready` | the pair, disks move | `ReadyMeansCopied` is **violated** |
| `agent_export` | 2 machines, 1 exporter, late mail, other mail with the machines' names | `OnlyReporters`, `NotForgotten`, `DatesAdvance`, `ListedIfClonable` |
| `agent_overlap` | 2 exporters, killed, half-written text file | `NamesUnique`, `DamageLasts` |
| `agent_alarm` | Success and Failed | `FailureRaisesAlarm` is **violated** |
| `vbr_export` | 2 exporters, another process, a reader, kills, failing queries; fair | `TypeOK`, `OneExporter`, `TornExplained`, `AnswersAdvance`, `ExportEnds` |
| `vbr_import` | 1 exporter, 1 reader, both items | `ImportWaitsForCopy` is **violated** |
| `flb_flush` | 2 tasks, an output of the engine's thread and one with a worker, 2 contexts, 1 retry, 1 fault; fair | `UsersCounted`, `ActiveIffFlushing`, `OwnFlush`, `DroppedIsNotFlushed`, `TasksAreReleased` |
| `flb_library` | the parts of the headers that share no state, see below; event loop fair | `LinksMirror`, `ImplementsSeqLists` (lists); `TopBelowItems`, `ImplementsPriorityQueue` (queue); `BestFirst`, `HandledIsRegistered`, `InjectedDroppedOnlyAtBound`, `ReadyIsHandled` (loop); `PluginsAccounted`; `ExclusiveWhenSafe` (streams); `CollectsForItself` (inputs); `SetIsExact` (encoder); `ProcessKeepsBounds`; `CodecsExact` |
| `operations` | adduser: 2 people, 4 staff lists, 3 runs, 1 fault, kills; rotation: 2 directories, 3 backups | `AppliedOrReported`, `GivenUpForNewer` |

In `flb_library` the first state chooses a `part`, and only that part moves: a state space per
part, side by side, not their product. `queue` and `loop` are two parts over the same variables:
the queue called in any order, and the queue as the loop uses it. `operations` does the same with two
scripts of different hosts.

Bounds. FileSync has none but the registered tasks: SyncToDisaster is in the runs of the pair and
not in `filesync_restart` (all five together are too many states; the theorems `TypeCorrect`,
`Exclusion` and `AirGapKept` cover them). Two machines let one be new while
another is listed; one day of retention and two days let a job expire, also by a late
mail; one name in other mail, of a machine and with an old date or none, makes that machine's date go back and its job expire,
while the other machine must not suffer. Two sessions give three states of the server, so that a content can be older than one
already imported; two exporters are enough for a conflict, one reader because readers do not write. Symmetry
is used in the agent runs only, which check no liveness: machines and exporters are
interchangeable model values. Two tasks that share a worker let the second overwrite the thread's
parameters before the first is resumed; one fault and one retry let a drop, a lost answer or a failed
creation fall anywhere. Three entries and two lists let a loop's saved neighbour, its current entry
and a third one differ. Three buckets and four events have an event behind an empty bucket, two in one
bucket and one without a bucket; four arrivals, twice `max_iter`, make rounds end with events queued, and two effects let a handler inject an event and delete it. Three
users make two wait for a lock. Two keys are few enough to run out. The decoder is fed every byte at
the edge of a class; operands of values are zero, like the terminator, or equal to type codes. The staff lists
hold namesakes, an empty surname after a dismissal, two rows of one person, a row without a number
and a plus sign; with room for two errors a dismissal without an account fills `$Error`; three runs
let an account be left alone for a run and be changed again. Three backups let a newer one come
between choice and copy, and the chosen one be deleted.

Fairness. In FileSync each script, as a whole, is weakly fair: sleeps end and robocopy's
retries are bounded. Nothing is assumed of triggers, terminations, disks or the link. In
VbrExport the steps of the main thread and of a job at its files are weakly fair. Connecting, querying and
exporting are not, since nothing limits them: `ExportEnds` has as its condition that
jobs come back from the server. Starts, kills and readers are not fair. In the event loop the engine's thread runs on (each of its steps
is weakly fair); arrivals and the effects of handlers are not. In FlbFlush threads run on, pipes
are read and timers expire; a plugin's callback ends, because the header calls `FLB_OUTPUT_RETURN`
mandatory: strongly fair, since a callback may wait for its connection again and again. Faults
and drops are not fair.

Deadlock is not checked in `flb_flush`, where all tasks are released in the end, and in `flb_library`,
where the parts that use up a bound (arrivals, keys) come to rest.

### What the violations say

* `filesync_mutual_wait`: each task is Running before it reads the other's state, so
  two tasks started close together wait for each other. By `MutualWaitLasts` only the
  end of one of them (72 h) ends this. The same fact is why `ExclusiveWork` holds: the
  flags exclude, at the price of a deadlock.
* `filesync_ready`: DISK G: READY is written unconditionally; with a disk pulled or
  exchanged since line 7 the disk in the tray does not hold the backup. (A format or copy that fails
  refutes the claim as well; the run leaves such failures out.)
* `agent_alarm`: a failed backup is stored as `"0"`, and the trigger on AllResult does
  not fire.
* `vbr_import`: a copy longer than 50 ms makes a reader answer as for a missing file.

Limits of the properties that hold. `NotForgotten` and `DatesAdvance` need one exporter and a
text file read whole: two exports that overlap undo each other's edits. They, and `OnlyReporters`, also except
the names that other mail has carried: one subject with a hyphen lists a machine that does not exist, or gives a machine
the date of the message before. `EndOkMeansMirrored`
needs a link that stays up and no third task that disables the adapter. `AirGap`
names the one exception, a script ended before its `Disable-NetAdapter`. `ListedIfClonable` needs
two jobs in the catalog: with fewer a new machine is silently not listed, against the comment in
line 139, and nothing in the script brings the catalog back to two. `CollectsForItself` allows a
collect without parameters when another thread replaced the global key meanwhile or there was no memory for them,
the latter also with those of another collector; and `ExclusiveWhenSafe` excludes streams that somebody was in when
the mutex was initialised, let in before the flag was set or between the two: all of this
happens in the model, and only the callers, which are not in the repository, could prevent it.
`HandledIsRegistered` has one gap, an event injected and deleted before it was loaded (line 67): without
this exception the run finds a handler entered for a deleted event.
`InjectedDroppedOnlyAtBound` names the one place where an injected event is lost, and speaks of
events that are not readable as well: one that is both may be reported in its place.
`ReadyUnlessSpoiled` says that a disk reported READY holds the backup unless it was moved, or formatting it or copying to
it failed, in this run: a rewritten `E:` or a run that was cut off are no further reasons. `AppliedOrReported`
speaks of the rows that were taken up: a removed row is never taken up, and of two rows of a person
the last one *that changed* counts, so a person may be dismissed although a later, unchanged row says
otherwise. It excepts runs that were killed after line 98, whose rest is lost without a word, and
runs that filled `$Error`. `GivenUpForNewer` does not say that E: always holds a backup: between
`Remove` and a copy that succeeds it holds none.

Refinements. `MkList` implements `SeqLists`: each list is the sequence of the cells that following
`next` from its head visits. `BucketQueue` implements `PriorityQueue`: the buckets are the waiting
items, the answer is the last result; a seek, a creation and a refused addition are stuttering steps.

## 4. Proofs

All proofs are for every value of the constants: any set of registered tasks, any
number of machines, exporters, readers and other processes, any staff lists, buckets, items, tasks,
outputs, worker threads, heads, entries, plugins, directories and backups, with all faults allowed. They use the named assumptions of the
modules only. Where a theorem has a hypothesis (`Alone /\ Spec => ...`) it says so here.

* `FileSyncProofs!TypeCorrect`: `Spec => []TypeOK`, one step per action.
* `FileSyncProofs!Exclusion`: `Spec => []ExclusiveWork`. `ExclusiveWork` is not inductive:
  a task in `nap` that has read Ready will work although it does not yet. The inductive
  invariant `MutexInv` counts it as *admitted*: working, or napping with Ready seen. Not both tasks
  are admitted, since whoever is admitted is Running, and a task gets admitted only by
  reading the other one's state as Ready.
* `FileSyncProofs!AirGapKept`: `Spec => []AirGap`; inductive with the types. A script
  that lets go of an adapter disables it, or is ended and makes it an orphan. That others
  may have disabled it before does no harm.
* `FileSyncProofs!DeadlockLasts`: `Spec => MutualWaitLasts`. Both tasks are Running while they
  poll, so each reads Running of the other; only `Terminate` or a restart changes a scheduler state
  from outside.
* `FileSyncProofs!ReadyDiskIsCopied`: `Spec => ReadyUnlessSpoiled`, with disks that move and copies that fail at any
  time. `CopyInv` follows the disk of a run that is not spoiled through the script: the disk found in line 7 stays,
  formatting empties it, and the copy from `E:` is not flawed, since by `Exclusion` SyncToDisaster does not
  rewrite `E:` meanwhile.
* `FileSyncProofs!EndOkIsMirrored`: `EndOkMeansMirrored` where only the pair is registered and the link
  stays up. `MirrorInv`: from its `Enable-NetAdapter` on, SyncToDisaster has its adapter, because ToDisk,
  the only other script that disables it, does not work (`Exclusion` again).
* `VbrExportProofs!SingleExporter`: `Spec => []OneExporter`. A process is in the
  process list from its first step, so the one that counts only itself finds no other
  at work.
* `VbrExportProofs!TypeCorrect`: `Spec => []TypeOK`, with `Started`: jobs exist only in a
  process that has passed the count, and only those it has started.
* `VbrExportProofs!TornFilesExplained`: `Spec => []TornExplained`, with `SourcesWhole`: what a job
  has queried, and the temporary file, is never torn, so a finished copy repairs.
* `VbrExportProofs!FilesAdvance`: `Spec => AnswersAdvance`, an action property. The
  invariant `Fresh` orders the contents on their way: last import, file, temporary file,
  queried data, server. It needs `OneExporter`, since with a second exporter an
  older temporary file could be copied last.

* `AgentCatalogProofs!TornForGood`: `Spec => DamageLasts`. With the invariant that an export in
  mid-save holds a document, only it could make the file whole, and no document is loaded
  from a torn file.
* `AgentCatalogProofs!OneJobPerMachine`, `!ReportersOnly`: `Spec => []NamesUnique`,
  `Spec => []OnlyReporters`, for any exporters that overlap and are killed. `CatalogInv`: every document
  on its way (`Draft`) names a machine once and holds only jobs of the template or jobs that some
  line has led to; the variables of the loop hold nothing, or a name and a date that were
  reported together, or a name of other mail (`foreign`) with any date. A message without a name repeats the edit of the one before, and before the
  first it edits a job without a name and date, which the clean-up expires.
* `AgentCatalogProofs!NothingForgotten`, `!DatesGoForward`, `!ReportersAreListed`:
  `Alone /\ Spec => NotForgotten`, `=> DatesAdvance`, `=> ListedIfClonable`, where `Alone` says that
  there is one exporter and that the text file is read whole (the setting of `agent_export`, and of the
  host when exports do not overlap). `AloneInv` has three parts, the second and third about `Sure`, the machines whose names no
other mail has carried; that set only shrinks. *Recent*: the tracking log holds all reports for
  yesterday and today and nothing older than the day before. *Covers*: if the lines read, or the text
  file, mention a machine with an older date than the catalog, they also hold a line that is as new;
  a report that has left the tracking log is older than everything in it, so collecting anew keeps this. *Editing*: in mid-loop a job has
  the date of the last line about its machine, or that of the file. At the end of the loop, a job that is older than
  the file's therefore comes from a line behind a newer one (`BackOnlyIfLate`), and the clean-up
  removes only what is older than the cutoff (`EditEnd`).
* `BucketQueueProofs!BucketQueueTyped`, `!NothingBelowTop`, `!BucketQueueIsPriorityQueue`:
  `BqSpec => []BqTypeOK`, `BqSpec => []TopBelowItems`, `BqSpec => ImplementsPriorityQueue`. A set
  of naturals has a least element (`LeastNatural`, from well-foundedness), so seek stops at the first
  bucket in use; `Ordered` (well formed, and every bucket below `top` empty) is kept by seek,
  addition, deletion and unlinking; and with it the bucket where seek stops is the best
  priority somebody waits with, which is what `Take`, `Peek` and `Drop` of `PriorityQueue` ask
  for. `pop_min` seeks twice: `SeekTwice` shows that the item answered is the item deleted.
* `BucketQueueProofs!DeletedIsNotHandled`, `!MostUrgentFirst`, `!InjectedIsNotLost`:
  `HandledIsRegistered`, `BestFirst` and `InjectedDroppedOnlyAtBound` of the event loop. `LoopInv` says
  for each place of the loop how far the report has come: what was loaded waits in the queue (or has no
  bucket, or is deleted), the queue holds registered events and those that slipped by line 67, what was injected is registered or has
  slipped, and at the head of the loop everything reported is loaded. The last proof first
  failed: an event that is readable and injected as well can leave the loop as a readable one, and is
  reported again; the property now speaks of events that are only injected.
* `FlbFlushProofs!DroppedRoutesStayDropped`: `FlushSpec => DroppedIsNotFlushed`. The invariant
  `FlushInv`: a coroutine inside its function is the one its thread executes; between the look
  and the unlock the task is locked by that thread; what the look found still holds. Two
  looks at one task are one (`OneLook`): they share the lock's owner, hence the thread,
  hence the coroutine. A drop needs the lock, so it cannot fall between look and call.
* `FlbFlushProofs!EveryFlushIsItsOwn`, `!ActiveWhileFlushing`: `OwnFlush` and `ActiveIffFlushing`. In `UseInv` a route is
  asked for, flushed, answered for or waits for its timer, one of them once (`OneUse`), and a
  coroutine that is not stuck has copied its own parameters.
* `FlbFlushProofs!TasksAreCounted`: `FlushSpec => []UsersCounted`. `CountInv` adds to `UseInv` that a task's users are
  its requests in the inboxes, its flushes that have not answered, its answers in the pipes and the lost ones;
  every step moves one of them from one of these sets to another.
* `FlbLibraryProofs!ListsMirror`: `ListSpec => []LinksMirror`. That links mirror each other is not inductive: a deletion
  or `mk_list_cat` would go wrong on a ring of entries without a head, or between two cells of
  one list. `ListInv` has a ghost, the head that owns a cell: neighbours have the same owner; and out of
  any set of entries some `next` leads away.
* `FlbLibraryProofs!ListsAreSequences`: `ListSpec => ImplementsSeqLists`, the refinement. Here the ghost is a sequence for
  every head (`Laid`): `next` leads through it and back, no entry has two places, every entry that points
  somewhere has one. Each edit of the pointers is one edit of the sequences (`InsertLaid`, `RemoveLaid`, `ConcatLaid`); with `LinksMirror`
  `prev` names the place before. That `Walk`, which chooses a chain, finds this sequence
  and no other (`WalkFinds`) compares the two up to the least place at which they differ, and needs
  that there are finitely many entries: a chain has distinct ones.
* `FlbLibraryProofs!OneStreamUser`, `!CollectorsKeepApart`, `!PluginsAreAccounted`, `!ProcessingIsSafe`: the
  invariants of the smaller parts, each with what its steps need: who is inside a stream holds its
  mutex, once there is one and if nobody was inside when it came; a thread's collect has its own slot of the key unless it was overtaken, and of
  its coroutines only starved ones are entered late; the heap is what is on the lists, each plugin
  once; at each place of `flb_output_flush_create` exactly the resources of that place are held.
* `FlbLibraryProofs!CodecsAreExact`: `CodecSpec => []CodecsExact`, for all bytes, ids, values and strings. `DecodeInv` says, byte by
  byte and as inequalities, what was read in each state of the automaton: a complete sequence and its
  code point, the beginning of one with the bits so far, or a byte that cannot stand where it stands. The
  reference compares with it in both directions: a beginning is completed by one particular choice
  of bytes (`Missing`, `Filler`), what is broken no bytes repair. `SwapIsExact`: the assignments of the three swaps mirror the bytes.
* `FlbLibraryProofs!EncoderIsExact`: `EncSpec => []SetIsExact`, for any finite list of values with any integers as
  operands, no length bounded. An operand may equal the terminator or a code, so it matters where the reader looks:
  `Framed` holds of words and a set of places when a code stands at each of them, and behind its operands is
  another. What the macros yield is framed, and so is what is joined of framed words (`FramedConcat`, `FramedLists`); the
  reader stops at the terminator and nowhere before it (`ReadsBack`). `ReadValues` is a recursive
  function and `FlattenSeq` a fold: that they satisfy their equations (`ReadDefined`, `FlattenJoins`) is shown by building
  the function, with the induction over a set instead of an operator (`SetInduction`).
* `OperationsProofs!OnlyForNewer`: `ZipSpec => GivenUpForNewer`. The property needs two facts about
  earlier steps: the newest backup on the server is as new as all on E: (`ServerAhead`; the oldest
  expires only beside a newer one), hence so is the chosen one until it is copied (`ChosenAhead`).
  That a newest and an oldest file exist (`MaxIsGreatest`, `MinIsLeast`) is well-foundedness again.

* `OperationsProofs!AccountsAreRight`: `UserSpec => []AppliedOrReported`. `UserInv` follows the row in hand through
  the statements of a run: it goes well so far, or what went wrong will be reported (`RowInv`); every
  other person is settled by the last row taken up for the person (`AccountsInv`). That
  a free account name is found (`SName`) is a pigeonhole argument.
* `SelectionProofs` has no theorem of the system, but the lemmas about `SelectPlaces` that the
  catalog and the accounts use: the places taken are those asked for, each once, in their order. The rank of a
  place takes the role of recursion: a set of n places has one of each rank (`RankHasPlace`).

Only model-checked: all liveness (`WaitEnds`, `AirGapRestored`, `ExportEnds`, `TasksAreReleased`,
`ReadyIsHandled`), which is out of the prover's reach under fairness. Every other property of a passing run is
a theorem.

## 5. Not modelled, and the plan

In order:

1. `SepCatalog` on `Catalog`: SEP.ps1 keeps jobs for one day only, so an outage empties
   the catalog below two jobs.
2. `VbrResults`, a pure module: merge of retry sessions (`zabbix_vbr_job.ps1` 142-163),
   VeeamStatusReplace, unique tasks (232-255), precedence in ResultBackupSync (380-420),
   each against a reference definition.
3. Retention of `E:` by age in `toDisaster.ps1` (16-19, 42-49); then the rotations of
   `Rec1ToRec7.ps1` and `CopyADVhdx.ps1`.
4. An abstract specification of a catalog (a map from machines to their last report) that
   `AgentCatalog` with one exporter implements.
5. Theorems: that refinement of the catalog, from the invariant of the one-exporter theorems.

Left out for good: one-shot scripts (AD inventories, WSUS, installers, monitoring
queries), declarative roles (Ansible, Salt) and the Loki charts: they keep no state of their own
that could be modelled. Of the Fluent Bit headers, the parts that have no body: about 17700 lines
of headers are mostly comments, structures, constants and prototypes of functions that
are not in the repository. The modules translate 2900 of these lines; function bodies that are not
translated make up some 800 more and macros 500 (string and hash helpers, accessors of configuration, thin
wrappers of system calls), which keep no state or only set one field. There is nothing else in the headers
to translate.

Hazards without a property. Some are behaviours of the models that no line of the repository denies, so that there
is nothing to hold or to refute: the wait loop of `IPTest.ps1` (18); two exports of the agent catalog that undo each other
(`VeeamAgentFreeToZabbix.ps1` 112), for which the theorems have `Alone`; an empty list copied over a good file after a
failed query (`zabbix_vbr_job.ps1` 112), which `AnswersAdvance` skips; the task's data freed on failure paths of
`flb_output.h` (671, 679, 887), of which `ProcessKeepsBounds` does not speak; and a full `$Error` in `adduser.ps1` (300), which
`AppliedOrReported` excepts. The join of two exports in `zabbix_vbr_job.ps1` (383) awaits its module (2 above).
