--------------------------- MODULE AgentCatalog ----------------------------
(***************************************************************************)
(* From the mails of the free Veeam agents to the catalog that Zabbix      *)
(* reads.  Every backed-up machine mails its result to one mailbox.  On    *)
(* the Exchange server VeeamAgentFree.ps1 writes the subjects of the last  *)
(* 24 hours to a text file; every 30 minutes Zabbix starts the ExportXml   *)
(* branch of VeeamAgentFreeToZabbix.ps1, which folds that text file into   *)
(* the XML catalog; other calls of the script answer from the catalog.     *)
(* Two Zabbix servers start the same item, so that exports may overlap.    *)
(***************************************************************************)
EXTENDS Catalog

CONSTANTS
    Machines,   \* the machines that run a free Veeam agent
    Outcomes,   \* what a backup may report: Success, Warning, Failed
    Exporters,  \* ExportXml processes that may run at the same time
    Keep,       \* days a job stays in the catalog without a report: 7
    MaxDay,     \* bound: the last day of a behaviour
    OtherNames, \* what other mail may carry in the place of a machine's name
    OtherDates, \* and in the place of the date, if there is one
    MaxForeign, \* bound: other mail comes while fewer names have come with it
    MaxInbox,   \* bound: other mail comes while the window has fewer subjects
    Delays,     \* may a mail arrive a day late?
    Partial,    \* may an export read the text file while it is written?
    Kills       \* may a process be killed (restart of the host)?

ASSUME SizesAssumption == Keep \in Nat \ {0} /\ MaxDay \in Keep + 1 .. DefaultDate - 1
ASSUME MachinesAssumption == "default" \notin Machines /\ "" \notin Machines
ASSUME OutcomesAssumption == Outcomes \subseteq {"Success", "Warning", "Failed"}
ASSUME OtherMailAssumption ==
    "" \notin OtherNames /\ OtherDates \cup {MaxForeign, MaxInbox} \subseteq Nat
ASSUME SwitchesAssumption == {Delays, Partial, Kills} \subseteq BOOLEAN

VARIABLES
    today,      \* the clock, in days
    inbox,      \* the subjects in the tracking log of the last 24 hours
    reported,   \* history: the outcome every machine reported for every day
    foreign,    \* history: the names that other mail has carried
    txt,        \* VeeamFreeAgent.txt
    fstate,     \* VeeamFreeAgent.xml: absent, ok, or torn (cut off)
    file,       \* the jobs in VeeamFreeAgent.xml when it was last ok
    pc,         \* phase of every exporter
    mails,      \* $Mails of every exporter
    next,       \* index of the message its loop handles next
    cutoff,     \* $TodeleteDate
    loaded,     \* has $xml a value?
    doc,        \* $xml.Catalog.job
    machine,    \* $Machine, kept from one iteration to the next
    date        \* $Date, kept from one iteration to the next

vars == <<today, inbox, reported, foreign, txt, fstate, file, pc, mails, next,
          cutoff, loaded, doc, machine, date>>
world == <<today, inbox, reported, foreign, txt>>
locals == <<mails, next, cutoff, loaded, doc, machine, date>>

----------------------------------------------------------------------------
Days == Keep .. MaxDay
NoName == ""

\* A subject line: what the two splits on "-" find in it (the one of the name
\* and the one of the date succeed or fail independently), and the day the
\* mail came in, by which the tracking log is ordered and searched.
Subject(m, d, at) == [name |-> m, date |-> d, at |-> at]

Init ==
    /\ today = Keep + 1
    /\ inbox = <<>>
    /\ reported = [m \in Machines |-> [d \in Days |-> "none"]]
    /\ foreign = {}
    /\ txt = <<>>
    /\ fstate = "absent"
    /\ file = <<>>
    /\ pc = [p \in Exporters |-> "idle"]
    /\ mails = [p \in Exporters |-> <<>>]
    /\ next = [p \in Exporters |-> 1]
    /\ cutoff = [p \in Exporters |-> 0]
    /\ loaded = [p \in Exporters |-> FALSE]
    /\ doc = [p \in Exporters |-> <<>>]
    /\ machine = [p \in Exporters |-> NoName]
    /\ date = [p \in Exporters |-> NoDate]

----------------------------------------------------------------------------
(* The mailbox and the Exchange script                                     *)

\* The agent of m has finished a backup and its mail is delivered.  One
\* report per machine and day (a bound).
Report(m, o, d) ==
    /\ d = today \/ (Delays /\ d = today - 1)
    /\ reported[m][d] = "none"
    /\ reported' = [reported EXCEPT ![m][d] = o]
    /\ inbox' = Append(inbox, Subject(m, d, today))
    /\ UNCHANGED <<today, foreign, txt, fstate, file, pc, locals>>

\* Another mail to the mailbox: the filter of the Exchange script lets every
\* subject through.  Without a hyphen there is neither a name nor a date; with
\* one, or with hyphens in the host's name, there is a name and no date; or
\* there are both.  The name may be that of a machine, or the word default.
OtherMail ==
    /\ Len(inbox) < MaxInbox /\ Cardinality(foreign) < MaxForeign
    /\ \E n \in OtherNames \cup {NoName}, d \in OtherDates \cup {NoDate} :
        /\ n = NoName => d = NoDate
        /\ inbox' = Append(inbox, Subject(n, d, today))
        /\ foreign' = foreign \cup ({n} \ {NoName})
    /\ UNCHANGED <<today, reported, txt, fstate, file, pc, locals>>

\* A day passes; what is older than 24 hours leaves the tracking log window.
NextDay ==
    /\ today < MaxDay
    /\ today' = today + 1
    /\ inbox' = SelectPlaces(inbox, {k \in DOMAIN inbox : inbox[k].at >= today})
    /\ UNCHANGED <<reported, foreign, txt, fstate, file, pc, locals>>

\* Wrong variant: the text file may be cut short at any time.
CollectCut ==
    /\ \E n \in 0 .. Len(inbox) : txt' = SubSeq(inbox, 1, n)
    /\ UNCHANGED <<today, inbox, reported, foreign, fstate, file, pc, locals>>

\* VeeamAgentFree.ps1 writes the subjects line by line in the order of the
\* log: while it writes the file holds a prefix of them.
Collect ==
    /\ \E n \in IF Partial THEN 0 .. Len(inbox) ELSE {Len(inbox)} :
            txt' = SubSeq(inbox, 1, n)
    /\ UNCHANGED <<today, inbox, reported, foreign, fstate, file, pc, locals>>

----------------------------------------------------------------------------
(* ExportXml.  Errors are silent: every statement that fails leaves its    *)
(* variable as it was.                                                     *)

\* The script starts and reads the catalog, the mails and the clock.
Open(p) ==
    /\ pc[p] = "idle"
    /\ pc' = [pc EXCEPT ![p] = "open"]
    /\ loaded' = [loaded EXCEPT ![p] = fstate = "ok"]
    /\ doc' = [doc EXCEPT ![p] = IF fstate = "ok" THEN file ELSE <<>>]
    /\ mails' = [mails EXCEPT ![p] = txt]
    /\ cutoff' = [cutoff EXCEPT ![p] = today - Keep]
    /\ UNCHANGED <<world, fstate, file, next, machine, date>>

\* Wrong variant: a file that cannot be read is replaced as if it were absent.
LoadRepair(p) ==
    /\ pc[p] = "open"
    /\ pc' = [pc EXCEPT ![p] = "loop"]
    /\ file' = IF fstate # "ok" THEN Template ELSE file
    /\ fstate' = "ok"
    /\ loaded' = [loaded EXCEPT ![p] = TRUE]
    /\ doc' = [doc EXCEPT ![p] = file']
    /\ UNCHANGED <<world, mails, next, cutoff, machine, date>>

\* A missing file is created from the template, then the file is read again;
\* if it is torn the document read first is kept, if any.
Load(p) ==
    /\ pc[p] = "open"
    /\ pc' = [pc EXCEPT ![p] = "loop"]
    /\ file' = IF fstate = "absent" THEN Template ELSE file
    /\ fstate' = IF fstate = "absent" THEN "ok" ELSE fstate
    /\ IF fstate = "torn" THEN UNCHANGED <<loaded, doc>>
       ELSE /\ loaded' = [loaded EXCEPT ![p] = TRUE]
            /\ doc' = [doc EXCEPT ![p] = file']
    /\ UNCHANGED <<world, mails, next, cutoff, machine, date>>

\* Wrong variant: the date of a message is not read.
HandleUndated(p) ==
    /\ pc[p] = "loop" /\ next[p] <= Len(mails[p])
    /\ LET s == mails[p][next[p]] IN
        machine' = [machine EXCEPT ![p] = IF s.name = NoName THEN @ ELSE s.name]
    /\ date' = [date EXCEPT ![p] = IF @ = NoDate THEN today ELSE @]
    /\ doc' = [doc EXCEPT ![p] =
                  IF loaded[p] THEN Put(@, machine'[p], "0", date'[p]) ELSE @]
    /\ next' = [next EXCEPT ![p] = @ + 1]
    /\ UNCHANGED <<world, fstate, file, pc, mails, cutoff, loaded>>

\* One iteration over the messages.  The condition -or "*Warning*" is always
\* true and ifelse is no keyword: the result is "0" whatever was reported.
\* What cannot be split off a subject keeps its value from the last message.
Handle(p) ==
    /\ pc[p] = "loop" /\ next[p] <= Len(mails[p])
    /\ LET s == mails[p][next[p]] IN
        /\ machine' = [machine EXCEPT ![p] = IF s.name = NoName THEN @ ELSE s.name]
        /\ date' = [date EXCEPT ![p] = IF s.date = NoDate THEN @ ELSE s.date]
    /\ doc' = [doc EXCEPT ![p] =
                  IF loaded[p] THEN Put(@, machine'[p], "0", date'[p]) ELSE @]
    /\ next' = [next EXCEPT ![p] = @ + 1]
    /\ UNCHANGED <<world, fstate, file, pc, mails, cutoff, loaded>>

\* The process is gone, and its variables with it.
Exit(p) ==
    /\ pc' = [pc EXCEPT ![p] = "idle"]
    /\ mails' = [mails EXCEPT ![p] = <<>>]
    /\ next' = [next EXCEPT ![p] = 1]
    /\ cutoff' = [cutoff EXCEPT ![p] = 0]
    /\ loaded' = [loaded EXCEPT ![p] = FALSE]
    /\ doc' = [doc EXCEPT ![p] = <<>>]
    /\ machine' = [machine EXCEPT ![p] = NoName]
    /\ date' = [date EXCEPT ![p] = NoDate]

CanSave(p) == loaded[p] /\ \A q \in Exporters : pc[q] # "save"

\* The document is cleaned and Save truncates the file.
SaveBegin(p) ==
    /\ pc[p] = "loop" /\ next[p] > Len(mails[p])
    /\ CanSave(p)
    /\ pc' = [pc EXCEPT ![p] = "save"]
    /\ doc' = [doc EXCEPT ![p] = Clean(@, cutoff[p])]
    /\ fstate' = "torn"
    /\ UNCHANGED <<world, file, mails, next, cutoff, loaded, machine, date>>

\* There is no document, or another process has the file open: the call of
\* Save fails silently.
SaveFails(p) ==
    /\ pc[p] = "loop" /\ next[p] > Len(mails[p])
    /\ ~CanSave(p)
    /\ Exit(p)
    /\ UNCHANGED <<world, fstate, file>>

SaveEnd(p) ==
    /\ pc[p] = "save"
    /\ file' = doc[p]
    /\ fstate' = "ok"
    /\ Exit(p)
    /\ UNCHANGED world

\* The host restarts or the operator ends the process.
Kill(p) ==
    /\ Kills
    /\ pc[p] # "idle"
    /\ Exit(p)
    /\ UNCHANGED <<world, fstate, file>>

----------------------------------------------------------------------------
(* What Zabbix asks for                                                    *)

\* One job's result as a number of the sum.  The results of two or more jobs
\* are an array of strings; of a single job they are one string, and [0] is
\* its first character: its code is added.
Value(r) == IF r = "1" THEN 1 ELSE 0

AllResult ==
    IF Len(file) = 1 THEN 48 + Value(file[1].result)
    ELSE FoldFunctionOnSet(+, 0, [k \in DOMAIN file |-> Value(file[k].result)],
                           DOMAIN file)

----------------------------------------------------------------------------
ExporterStep(p) ==
    Open(p) \/ Load(p) \/ Handle(p) \/ SaveBegin(p) \/ SaveFails(p) \/ SaveEnd(p)

Next ==
    \/ \E m \in Machines, o \in Outcomes, d \in Days : Report(m, o, d)
    \/ OtherMail
    \/ NextDay
    \/ Collect
    \/ \E p \in Exporters : ExporterStep(p) \/ Kill(p)

Spec == Init /\ [][Next]_vars

----------------------------------------------------------------------------
(* Properties                                                              *)

(***************************************************************************)
(* A machine has one job in the catalog: the test for the name before      *)
(* addxml and the removal of duplicates leave at most one, also when       *)
(* exports overlap or are killed.  The template's jobs never stand beside   *)
(* the job of a machine in a saved catalog.                                *)
(***************************************************************************)
NamesUnique ==
    \/ file = Template
    \/ /\ \A i, j \in DOMAIN file : file[i].name = file[j].name => i = j
       /\ "default" \notin NamesOf(file)

(***************************************************************************)
(* The damage that other mail does stays with the name it carries: every   *)
(* job of the catalog, unless other mail has carried its name, is of a     *)
(* machine that reported, with a day for which it reported.  So a subject  *)
(* without a name, which is handled with the name and the date of the      *)
(* message before, leaves nothing behind, and a subject with a name and no *)
(* date, which gets the date of the message before, touches no other job.  *)
(***************************************************************************)
OnlyReporters ==
    file = Template \/ \A e \in Range(file) :
        e.name \notin foreign => e.name \in Machines /\ reported[e.name][e.date] # "none"

\* The lines of machine m come in the order of their dates.
InOrder(lines, m) ==
    \A i, j \in DOMAIN lines :
        i < j /\ lines[i].name = m /\ lines[j].name = m => lines[i].date <= lines[j].date

\* The export that is saving has read a late mail of m behind a newer one.
LateMail(m) == \E p \in Exporters : pc[p] = "save" /\ ~InOrder(mails[p], m)

(***************************************************************************)
(* A machine leaves the catalog only when it has not reported for more     *)
(* than Keep days, when a late mail is handled behind a newer one, or when *)
(* other mail has carried its name: no export drops any other job that is  *)
(* still fresh.                                                            *)
(***************************************************************************)
NotForgotten ==
    [][\A e \in Range(file) : e.name \in Machines \ (NamesOf(file') \cup foreign)
            => e.date < today - Keep \/ LateMail(e.name)]_vars

(***************************************************************************)
(* The catalog goes back only if a mail was late or other mail has carried *)
(* the name: an export replaces any other report of a machine by an older  *)
(* one only when the lines it has read hold the older report behind the    *)
(* newer (text file read whole, exports one at a time).                    *)
(***************************************************************************)
DatesAdvance ==
    [][\A e \in Range(file), f \in Range(file') :
            e.name = f.name /\ f.date < e.date
                => e.name \in foreign \/ LateMail(e.name)]_vars

\* An export that saves is listing machine m, unless a mail of m was late.
Listing(p, m) ==
    pc[p] = "save" /\ pc'[p] = "idle" /\ fstate' = "ok" /\ InOrder(mails[p], m)
        => \A s \in Range(mails[p]) :
                s.name = m /\ s.date >= cutoff[p] => m \in NamesOf(file')

(***************************************************************************)
(* Every machine whose report an export has read is in the catalog it      *)
(* saves (comment, line 139: a job that is not in the document is made),   *)
(* if the catalog had two jobs to begin with: addxml clones the second job *)
(* (line 118), and with fewer the new machine is silently not listed.      *)
(***************************************************************************)
ListedIfClonable ==
    [][Len(file) >= 2 => \A p \in Exporters, m \in Machines : Listing(p, m)]_vars

(***************************************************************************)
(* Damage lasts: a file cut off by a kill in mid-save is neither recreated *)
(* nor repaired by any later export, because it exists and cannot be       *)
(* loaded.                                                                 *)
(***************************************************************************)
DamageLasts ==
    [][(fstate = "torn" /\ \A p \in Exporters : ~loaded[p]) => fstate' = "torn"]_vars

(***************************************************************************)
(* The trigger "Error in VeeamAgentFree jobs" (AllResult > 0) fires when   *)
(* the last known report of a machine in the catalog is a failed backup.   *)
(***************************************************************************)
FailureRaisesAlarm ==
    (\E e \in Range(file) : e.name \in Machines \ foreign
                            /\ reported[e.name][e.date] = "Failed")
        => AllResult > 0
=============================================================================
