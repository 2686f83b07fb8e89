----------------------------- MODULE VbrExport ------------------------------
(***************************************************************************)
(* zabbix_vbr_job.ps1: the export of the Veeam server's state to XML files *)
(* and the items that answer Zabbix from these files.                      *)
(*                                                                         *)
(* An exporter is a process started with the argument exportxml.  It goes  *)
(* on only if it is the only PowerShell with exportxml in its command line *)
(* (the script VeeamAgentFreeToZabbix.ps1 on the same host is started with *)
(* that word, too).  Then it starts one background job per item; a job     *)
(* queries the server, writes a temporary file, copies it over the item's  *)
(* file and removes it.  Readers import the files while this goes on.      *)
(***************************************************************************)
EXTENDS Integers, Sequences, FiniteSets

CONSTANTS
    Exporters,      \* zabbix_vbr_job.ps1 processes started with exportxml
    Others,         \* other PowerShell processes started with exportxml
    Readers,        \* zabbix_vbr_job.ps1 processes started to answer an item
    Items,          \* the exported items, in the order their jobs are started
    MaxSessions,    \* bound: backup sessions that finish
    Kills,          \* may an exporter be killed?
    QueryFails      \* may the query of a job fail (server not reachable)?

ASSUME ProcessesAssumption == Exporters \cap Others = {}
ASSUME ItemsAssumption ==
    /\ Items \in Seq({"backupjob", "backuptaskswithretry"}) /\ Items # <<>>
    /\ \A i, j \in DOMAIN Items : Items[i] = Items[j] => i = j
ASSUME BoundsAssumption == MaxSessions \in Nat /\ {Kills, QueryFails} \subseteq BOOLEAN

VARIABLES
    results,    \* the server: results of the finished backup sessions
    pc,         \* phase of every exporter
    others,     \* the other exportxml processes that are running
    started,    \* how many jobs an exporter has started
    job,        \* phase of every background job of every exporter
    data,       \* what a job has got from the server
    temp,       \* <item>temp.xml
    file,       \* <item>.xml
    cut,        \* history: items whose copy was killed half-way
    ask,        \* the item a reader is asked for, "" when it is not running
    todo,       \* the files a reader has yet to import
    tried,      \* has its first try on the next file failed?
    got,        \* the imports a reader has made
    seen        \* history: the state of the server each file showed last

vars == <<results, pc, others, started, job, data, temp, file, cut,
          ask, todo, tried, got, seen>>
exporting == <<pc, others, started, job, data, temp, file, cut>>
reading == <<ask, todo, tried, got, seen>>

----------------------------------------------------------------------------
Names == {Items[k] : k \in DOMAIN Items}
Versions == 0 .. MaxSessions

\* The content of a file: nothing, cut off, a list without elements (what
\* Export-Clixml makes of a query that failed), or the state of the server
\* after ver sessions.
Absent == [st |-> "absent", ver |-> 0]
Torn == [st |-> "torn", ver |-> 0]
Empty == [st |-> "empty", ver |-> 0]
Whole(v) == [st |-> "ok", ver |-> v]
Contents == {Absent, Torn, Empty} \cup {Whole(v) : v \in Versions}

Readable(c) == c.st \in {"ok", "empty"}

\* The result of an import that failed.
Null == [st |-> "null", ver |-> 0]

\* The files that the branch of the script imports, in order.
Imports(item) ==
    CASE item = "ResultBackup" -> <<"backuptaskswithretry">>
      [] item = "ResultBackupSync" -> <<"backupjob", "backuptaskswithretry">>
      [] OTHER -> <<>>

Asked == {a \in {"ResultBackup", "ResultBackupSync"} :
            \A k \in DOMAIN Imports(a) : Imports(a)[k] \in Names}

(***************************************************************************)
(* Type invariant; a process that is not running has no jobs.              *)
(***************************************************************************)
TypeOK ==
    /\ results \in Seq({"Success", "Failed"}) /\ Len(results) <= MaxSessions
    /\ pc \in [Exporters -> {"off", "begin", "launch", "wait"}]
    /\ others \subseteq Others
    /\ started \in [Exporters -> 0 .. Len(Items)]
    /\ job \in [Exporters -> [Names -> {"none", "query", "export", "copy",
                                        "copying", "remove", "done"}]]
    /\ data \in [Exporters -> [Names -> Contents]]
    /\ temp \in [Names -> Contents]
    /\ file \in [Names -> Contents]
    /\ cut \subseteq Names
    /\ ask \in [Readers -> {""} \cup Asked]
    /\ todo \in [Readers -> Seq(Names)]
    /\ tried \in [Readers -> BOOLEAN]
    /\ got \in [Readers -> [Names -> Contents \cup {Null}]]
    /\ seen \in [Names -> Versions]
    /\ \A e \in Exporters : pc[e] = "off" =>
            started[e] = 0 /\ \A i \in Names : job[e][i] = "none"

Init ==
    /\ results = <<>>
    /\ pc = [e \in Exporters |-> "off"]
    /\ others = {}
    /\ started = [e \in Exporters |-> 0]
    /\ job = [e \in Exporters |-> [i \in Names |-> "none"]]
    /\ data = [e \in Exporters |-> [i \in Names |-> Absent]]
    /\ temp = [i \in Names |-> Absent]
    /\ file = [i \in Names |-> Absent]
    /\ cut = {}
    /\ ask = [r \in Readers |-> ""]
    /\ todo = [r \in Readers |-> <<>>]
    /\ tried = [r \in Readers |-> FALSE]
    /\ got = [r \in Readers |-> [i \in Names |-> Null]]
    /\ seen = [i \in Names |-> 0]

----------------------------------------------------------------------------
(* The Veeam server and the other processes                                *)

Session(o) ==
    /\ Len(results) < MaxSessions
    /\ results' = Append(results, o)
    /\ UNCHANGED <<exporting, reading>>

OtherStart(o) ==
    /\ o \notin others
    /\ others' = others \cup {o}
    /\ UNCHANGED <<results, pc, started, job, data, temp, file, cut, reading>>

OtherEnd(o) ==
    /\ o \in others
    /\ others' = others \ {o}
    /\ UNCHANGED <<results, pc, started, job, data, temp, file, cut, reading>>

----------------------------------------------------------------------------
(* The exporter                                                            *)

\* The processes that the query for *exportxml* finds.
Running == {e \in Exporters : pc[e] # "off"} \cup others

\* Zabbix starts the process (system.run with nowait).
Begin(e) ==
    /\ pc[e] = "off"
    /\ pc' = [pc EXCEPT ![e] = "begin"]
    /\ UNCHANGED <<results, others, started, job, data, temp, file, cut, reading>>

\* Wrong variant: processes that have not yet counted are overlooked.
CountLate(e) ==
    /\ pc[e] = "begin"
    /\ pc' = [pc EXCEPT ![e] =
                IF {f \in Running \ others : pc[f] \in {"launch"}} = {}
                THEN "launch" ELSE "off"]
    /\ UNCHANGED <<results, others, started, job, data, temp, file, cut, reading>>

\* It goes on if there is one such process, itself; otherwise it ends.
Count(e) ==
    /\ pc[e] = "begin"
    /\ pc' = [pc EXCEPT ![e] = IF Running = {e} THEN "launch" ELSE "off"]
    /\ UNCHANGED <<results, others, started, job, data, temp, file, cut, reading>>

\* Start-Job for the next item; after the last one Wait-Job.
Launch(e) ==
    /\ pc[e] = "launch"
    /\ started' = [started EXCEPT ![e] = @ + 1]
    /\ job' = [job EXCEPT ![e][Items[started'[e]]] = "query"]
    /\ pc' = [pc EXCEPT ![e] = IF started'[e] = Len(Items) THEN "wait" ELSE "launch"]
    /\ UNCHANGED <<results, others, data, temp, file, cut, reading>>

JobGoto(e, i, from, to) ==
    /\ job[e][i] = from
    /\ job' = [job EXCEPT ![e][i] = to]
    /\ UNCHANGED <<results, pc, others, started, reading>>

\* The job asks the server.
Query(e, i) ==
    /\ JobGoto(e, i, "query", "export")
    /\ \/ data' = [data EXCEPT ![e][i] = Whole(Len(results))]
       \/ QueryFails /\ data' = [data EXCEPT ![e][i] = Empty]
    /\ UNCHANGED <<temp, file, cut>>

\* Export-Clixml to the temporary file.
Export(e, i) ==
    /\ JobGoto(e, i, "export", "copy")
    /\ temp' = [temp EXCEPT ![i] = data[e][i]]
    /\ data' = [data EXCEPT ![e][i] = Absent]
    /\ UNCHANGED <<file, cut>>

\* Copy-Item truncates the item's file ...
CopyBegin(e, i) ==
    /\ JobGoto(e, i, "copy", "copying")
    /\ file' = [file EXCEPT ![i] = Torn]
    /\ UNCHANGED <<data, temp, cut>>

\* ... and has written the last byte of it.
CopyEnd(e, i) ==
    /\ JobGoto(e, i, "copying", "remove")
    /\ file' = [file EXCEPT ![i] = temp[i]]
    /\ cut' = cut \ {i}
    /\ UNCHANGED <<data, temp>>

\* A reader has the file open: the copy fails, and the job goes on.
CopyRefused(e, i) ==
    /\ \E r \in Readers : todo[r] # <<>> /\ Head(todo[r]) = i
    /\ JobGoto(e, i, "copy", "remove")
    /\ UNCHANGED <<data, temp, file, cut>>

\* Remove-Item of the temporary file: the job is completed.
Remove(e, i) ==
    /\ JobGoto(e, i, "remove", "done")
    /\ temp' = [temp EXCEPT ![i] = Absent]
    /\ UNCHANGED <<data, file, cut>>

\* Wrong variant: the jobs of a process outlive it.
EndDetached(e) ==
    /\ pc' = [pc EXCEPT ![e] = "off"]
    /\ started' = [started EXCEPT ![e] = 0]
    /\ UNCHANGED <<results, others, job, data, temp, file, reading>>

\* The process ends; a job that is still running ends with it.
End(e) ==
    /\ pc' = [pc EXCEPT ![e] = "off"]
    /\ started' = [started EXCEPT ![e] = 0]
    /\ job' = [job EXCEPT ![e] = [i \in Names |-> "none"]]
    /\ data' = [data EXCEPT ![e] = [i \in Names |-> Absent]]
    /\ UNCHANGED <<results, others, temp, file, reading>>

\* Wrong variant: the script ends without Wait-Job.
FinishEarly(e) ==
    /\ pc[e] = "wait"
    /\ End(e)
    /\ UNCHANGED cut

\* Wrong variant: the script waits for the files instead of the jobs.
FinishOnFiles(e) ==
    /\ pc[e] = "wait"
    /\ \A i \in Names : job[e][i] = "done" /\ file[i].st = "ok"
    /\ End(e)
    /\ UNCHANGED cut

\* Wait-Job returns when every job is completed.
Finish(e) ==
    /\ pc[e] = "wait"
    /\ \A i \in Names : job[e][i] = "done"
    /\ End(e)
    /\ UNCHANGED cut

Kill(e) ==
    /\ Kills
    /\ pc[e] # "off"
    /\ End(e)
    /\ cut' = cut \cup {i \in Names : job[e][i] = "copying"}

\* Connect-VBRServer, the query, Export-Clixml, Disconnect-VBRServer.
ServerStep(e, i) == Query(e, i) \/ Export(e, i)

\* Copy-Item and Remove-Item.
FileStep(e, i) == CopyBegin(e, i) \/ CopyEnd(e, i) \/ CopyRefused(e, i) \/ Remove(e, i)

JobStep(e, i) == ServerStep(e, i) \/ FileStep(e, i)

----------------------------------------------------------------------------
(* The readers                                                             *)

Ask(r, a) ==
    /\ ask[r] = ""
    /\ ask' = [ask EXCEPT ![r] = a]
    /\ todo' = [todo EXCEPT ![r] = Imports(a)]
    /\ UNCHANGED <<results, exporting, tried, got, seen>>

\* The reader is through with the next file, with c as the result.
Imported(r, c) ==
    /\ got' = [got EXCEPT ![r][Head(todo[r])] = c]
    /\ todo' = [todo EXCEPT ![r] = Tail(@)]
    /\ tried' = [tried EXCEPT ![r] = FALSE]
    /\ UNCHANGED <<results, exporting, ask>>

ImportWorks(r) ==
    /\ todo[r] # <<>>
    /\ LET i == Head(todo[r]) IN
        /\ Readable(file[i])
        /\ Imported(r, file[i])
        /\ seen' = IF file[i].st = "ok" THEN [seen EXCEPT ![i] = file[i].ver] ELSE seen

\* The first failure is caught: sleep 50 ms and try again.
ImportRetry(r) ==
    /\ todo[r] # <<>> /\ ~Readable(file[Head(todo[r])])
    /\ ~tried[r]
    /\ tried' = [tried EXCEPT ![r] = TRUE]
    /\ UNCHANGED <<results, exporting, ask, todo, got, seen>>

\* The second is not: ImportXml returns nothing and the script goes on.
ImportFails(r) ==
    /\ todo[r] # <<>> /\ ~Readable(file[Head(todo[r])])
    /\ tried[r]
    /\ Imported(r, Null)
    /\ UNCHANGED seen

\* VeeamStatusReplace
Status(ver) == IF results[ver] = "Failed" THEN "0" ELSE "2"

\* ResultBackup: 4 if there is no session of the job.
ResultBackup(g) ==
    LET tasks == g["backuptaskswithretry"] IN
    IF tasks.ver = 0 THEN "4" ELSE Status(tasks.ver)

\* ResultBackupSync: without the job's name or without sessions no machine
\* is found, and none of none is not a success: 0 = 0.
ResultBackupSync(g) ==
    LET tasks == g["backuptaskswithretry"] IN
    IF g["backupjob"].st # "ok" \/ tasks.ver = 0 THEN "2" ELSE Status(tasks.ver)

Answer(r) ==
    IF ask[r] = "ResultBackup" THEN ResultBackup(got[r]) ELSE ResultBackupSync(got[r])

\* The answer is written and the process ends.
Reply(r) ==
    /\ ask[r] # "" /\ todo[r] = <<>>
    /\ ask' = [ask EXCEPT ![r] = ""]
    /\ got' = [got EXCEPT ![r] = [i \in Names |-> Null]]
    /\ UNCHANGED <<results, exporting, todo, tried, seen>>

----------------------------------------------------------------------------
ExporterStep(e) ==
    \/ Count(e) \/ Launch(e) \/ Finish(e)
    \/ \E i \in Names : JobStep(e, i)

ReaderStep(r) ==
    ImportWorks(r) \/ ImportRetry(r) \/ ImportFails(r) \/ Reply(r)

Next ==
    \/ \E o \in {"Success", "Failed"} : Session(o)
    \/ \E o \in Others : OtherStart(o) \/ OtherEnd(o)
    \/ \E e \in Exporters : Begin(e) \/ ExporterStep(e) \/ Kill(e)
    \/ \E r \in Readers : (\E a \in Asked : Ask(r, a)) \/ ReaderStep(r)

Spec == Init /\ [][Next]_vars

(***************************************************************************)
(* The steps an exporter and its jobs take on their own host are taken:    *)
(* counting processes, starting jobs, copying and removing a file, and     *)
(* Wait-Job once the jobs are completed.  Nothing is assumed about a job   *)
(* that waits for the Veeam server (Connect-VBRServer and the queries have *)
(* no time limit), about when Zabbix starts an exporter, about readers or  *)
(* about kills.                                                            *)
(***************************************************************************)
Fairness ==
    \A e \in Exporters :
        /\ WF_vars(Count(e)) /\ WF_vars(Launch(e)) /\ WF_vars(Finish(e))
        /\ \A i \in Names : WF_vars(FileStep(e, i))

FairSpec == Spec /\ Fairness

----------------------------------------------------------------------------
(* Properties                                                              *)

Exporting(e) == pc[e] \in {"launch", "wait"}

(***************************************************************************)
(* At most one process exports at a time: the temporary files, whose names *)
(* do not tell the exporters apart, belong to one of them.  Zabbix starts  *)
(* the script without waiting, two servers do so, and the process list is  *)
(* read only once.                                                         *)
(***************************************************************************)
OneExporter == \A e, f \in Exporters : Exporting(e) /\ Exporting(f) => e = f

(***************************************************************************)
(* The files never go back in time: whoever imports a file that shows a    *)
(* state of the server gets one at least as new as what was imported       *)
(* before, also after exporters were killed or queries failed.             *)
(***************************************************************************)
AnswersAdvance == [][\A i \in Names : seen[i] <= seen'[i]]_vars

(***************************************************************************)
(* A file is cut off only while a job copies over it, or after an exporter *)
(* was killed in the middle of that copy and before the next copy is done. *)
(***************************************************************************)
TornExplained ==
    \A i \in Names : file[i].st = "torn" =>
        i \in cut \/ \E e \in Exporters : job[e][i] = "copying"

(***************************************************************************)
(* Only the Veeam server can keep an exporter from coming to its end: one  *)
(* of whose jobs none waits for the server for ever ends, whether queries  *)
(* fail, copies are refused by readers, or another exporter hangs.  Later  *)
(* exporters count it until then and export nothing, and Wait-Job has no   *)
(* time limit.                                                             *)
(***************************************************************************)
ExportEnds ==
    \A e \in Exporters :
        (\A i \in Names : []<>(job[e][i] \notin {"query", "export"}))
            => (pc[e] # "off" ~> pc[e] = "off")

(***************************************************************************)
(* ImportXml waits for a running copy (comment, line 176): once a file has *)
(* been imported, and if no exporter is killed, a reader does not answer   *)
(* as if the file were missing.  ResultBackup would say 4, first backup or *)
(* no history (line 370), and ResultBackupSync 2, success.                 *)
(***************************************************************************)
ImportWaitsForCopy ==
    \A r \in Readers : (ask[r] # "" /\ todo[r] = <<>>) =>
        \A k \in DOMAIN Imports(ask[r]) :
            LET i == Imports(ask[r])[k] IN got[r][i] = Null => seen[i] = 0
=============================================================================
