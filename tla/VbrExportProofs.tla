-------------------------- MODULE VbrExportProofs ---------------------------
(***************************************************************************)
(* Theorems about VbrExport, for any number of exporters, of other         *)
(* processes and of readers, with or without kills and failing queries.    *)
(***************************************************************************)
EXTENDS VbrExport, SequenceTheorems, TLAPS

----------------------------------------------------------------------------
(***************************************************************************)
(* One exporter.  The count of processes is a flag protocol: an exporter   *)
(* is in the process list from its first step on, so that another one that *)
(* exports is seen.  Only the program counters matter.                     *)
(***************************************************************************)
PcOK == pc \in [Exporters -> {"off", "begin", "launch", "wait"}]

\* No step starts a second export or leaves the phases of the script: the
\* process list that Count reads names every exporter that has begun.
LEMMA OneExporterStep == PcOK /\ OneExporter /\ [Next]_vars => (PcOK /\ OneExporter)'
  <1> SUFFICES ASSUME PcOK, OneExporter, [Next]_vars PROVE (PcOK /\ OneExporter)'
    OBVIOUS
  <1> USE DEF PcOK, OneExporter, Exporting
  <1>0. ASSUME UNCHANGED pc PROVE (PcOK /\ OneExporter)'
    BY <1>0
  <1>e. ASSUME NEW e \in Exporters, End(e) PROVE (PcOK /\ OneExporter)'
    BY <1>e DEF End
  <1>1. ASSUME NEW e \in Exporters, Begin(e) PROVE (PcOK /\ OneExporter)'
    BY <1>1 DEF Begin
  <1>2. ASSUME NEW e \in Exporters, Count(e) PROVE (PcOK /\ OneExporter)'
    <2>1. CASE Running = {e}
      <3>1. \A f \in Exporters : f # e => pc[f] = "off"
        BY <2>1 DEF Running
      <3>2. QED
        BY <1>2, <3>1 DEF Count
    <2>2. CASE Running # {e}
      BY <1>2, <2>2 DEF Count
    <2>3. QED
      BY <2>1, <2>2
  <1>3. ASSUME NEW e \in Exporters, Launch(e) PROVE (PcOK /\ OneExporter)'
    BY <1>3 DEF Launch
  <1>4. ASSUME NEW e \in Exporters, Finish(e) \/ Kill(e) PROVE (PcOK /\ OneExporter)'
    BY <1>4, <1>e DEF Finish, Kill
  <1>5. ASSUME NEW e \in Exporters, NEW i \in Names, JobStep(e, i)
        PROVE  (PcOK /\ OneExporter)'
    BY <1>5, <1>0 DEF JobStep, ServerStep, FileStep, JobGoto, Query, Export, CopyBegin, CopyEnd,
                      CopyRefused, Remove
  <1>6. ASSUME NEW o, Session(o) \/ OtherStart(o) \/ OtherEnd(o)
        PROVE  (PcOK /\ OneExporter)'
    BY <1>6, <1>0 DEF Session, OtherStart, OtherEnd, exporting
  <1>7. ASSUME NEW r \in Readers, (\E a \in Asked : Ask(r, a)) \/ ReaderStep(r)
        PROVE  (PcOK /\ OneExporter)'
    BY <1>7, <1>0 DEF Ask, ReaderStep, ImportWorks, ImportRetry, ImportFails,
                      Imported, Reply, exporting
  <1>8. CASE UNCHANGED vars
    BY <1>8, <1>0 DEF vars
  <1>9. QED
    BY <1>1, <1>2, <1>3, <1>4, <1>5, <1>6, <1>7, <1>8 DEF Next, ExporterStep

(***************************************************************************)
(* At most one process exports at a time, however many are started.        *)
(***************************************************************************)
THEOREM SingleExporter == Spec => []OneExporter
  <1>1. Init => PcOK /\ OneExporter
    BY DEF Init, PcOK, OneExporter, Exporting
  <1>2. QED
    BY <1>1, OneExporterStep, PTL DEF Spec

----------------------------------------------------------------------------
(***************************************************************************)
(* Types.                                                                  *)
(***************************************************************************)

\* A content carries the number of a state of the server.
LEMMA ContentFacts ==
    /\ Absent \in Contents /\ Torn \in Contents /\ Empty \in Contents
    /\ \A v \in Versions : Whole(v) \in Contents
    /\ \A c \in Contents : c.ver \in Versions
  <1>1. 0 \in Versions
    BY BoundsAssumption DEF Versions
  <1>2. Absent \in Contents /\ Torn \in Contents /\ Empty \in Contents
    BY DEF Contents
  <1>3. \A v \in Versions : Whole(v) \in Contents
    BY DEF Contents
  <1>4. Absent.ver = 0 /\ Torn.ver = 0 /\ Empty.ver = 0
    BY DEF Absent, Torn, Empty
  <1>5. \A v \in Versions : Whole(v).ver = v
    BY DEF Whole
  <1>6. ASSUME NEW c \in Contents PROVE c.ver \in Versions
    <2>1. CASE c \in {Absent, Torn, Empty}
      BY <2>1, <1>4, <1>1
    <2>2. CASE \E v \in Versions : c = Whole(v)
      BY <2>2, <1>5
    <2>3. QED
      BY <2>1, <2>2 DEF Contents
  <1>7. QED
    BY <1>2, <1>3, <1>6

\* The items have names, and what is asked for imports some of them.
LEMMA NameFacts ==
    /\ Len(Items) \in Nat /\ Len(Items) > 0
    /\ \A k \in 1 .. Len(Items) : Items[k] \in Names
    /\ \A k, l \in 1 .. Len(Items) : Items[k] = Items[l] => k = l
    /\ \A a \in Asked : Imports(a) \in Seq(Names)
  <1>1. Len(Items) \in Nat /\ Len(Items) > 0 /\ DOMAIN Items = 1 .. Len(Items)
    BY ItemsAssumption
  <1>2. \A k \in 1 .. Len(Items) : Items[k] \in Names
    BY <1>1 DEF Names
  <1>3. ASSUME NEW a \in Asked PROVE Imports(a) \in Seq(Names)
    <2>1. CASE a = "ResultBackup"
      <3>1. Imports(a) = <<"backuptaskswithretry">>
        BY <2>1 DEF Imports
      <3>2. Imports(a)[1] \in Names
        BY <3>1 DEF Asked
      <3>3. QED
        BY <3>1, <3>2
    <2>2. CASE a = "ResultBackupSync"
      <3>1. Imports(a) = <<"backupjob", "backuptaskswithretry">>
        BY <2>2 DEF Imports
      <3>2. Imports(a)[1] \in Names /\ Imports(a)[2] \in Names
        BY <3>1 DEF Asked
      <3>3. QED
        BY <3>1, <3>2
    <2>3. QED
      BY <2>1, <2>2 DEF Asked
  <1>4. QED
    BY <1>1, <1>2, <1>3, ItemsAssumption

\* Jobs exist only in a process that has passed the count, and only the ones
\* it has started.
Started ==
    \A e \in Exporters :
        /\ pc[e] \in {"off", "begin"} =>
                started[e] = 0 /\ \A i \in Names : job[e][i] = "none"
        /\ pc[e] = "launch" =>
                /\ started[e] < Len(Items)
                /\ \A k \in started[e] + 1 .. Len(Items) : job[e][Items[k]] = "none"

TypeInv == TypeOK /\ Started

\* The variables of the exporters, and those of the readers, alone.
ExportTypes ==
    /\ pc \in [Exporters -> {"off", "begin", "launch", "wait"}]
    /\ others \subseteq Others
    /\ started \in [Exporters -> 0 .. Len(Items)]
    /\ job \in [Exporters -> [Names -> {"none", "query", "export", "copy",
                                        "copying", "remove", "done"}]]
    /\ data \in [Exporters -> [Names -> Contents]]
    /\ temp \in [Names -> Contents]
    /\ file \in [Names -> Contents]
    /\ cut \subseteq Names
    /\ Started

ReadTypes ==
    /\ ask \in [Readers -> {""} \cup Asked]
    /\ todo \in [Readers -> Seq(Names)]
    /\ tried \in [Readers -> BOOLEAN]
    /\ got \in [Readers -> [Names -> Contents \cup {Null}]]
    /\ seen \in [Names -> Versions]

ServerTypes == results \in Seq({"Success", "Failed"}) /\ Len(results) <= MaxSessions

\* The type invariant is the conjunction of its three parts.
LEMMA TypeParts == TypeInv <=> ServerTypes /\ ExportTypes /\ ReadTypes
  BY DEF TypeInv, TypeOK, Started, ServerTypes, ExportTypes, ReadTypes

\* Every step of an exporter or of one of its jobs keeps the types.
LEMMA ExportTypeStep ==
  ASSUME ServerTypes, ExportTypes, NEW e \in Exporters,
         Begin(e) \/ ExporterStep(e) \/ Kill(e)
  PROVE  ExportTypes'
  <1> USE NameFacts, ContentFacts DEF ExportTypes
  <1>e. ASSUME End(e), cut' \subseteq Names PROVE ExportTypes'
    <2>1. Started'
      BY <1>e DEF End, Started
    <2>2. QED
      BY <1>e, <2>1 DEF End
  <1>1. CASE Begin(e)
    BY <1>1 DEF Begin, Started
  <1>2. CASE Count(e)
    <2>1. Started'
      BY <1>2 DEF Count, Started
    <2>2. QED
      BY <1>2, <2>1 DEF Count
  <1>3. CASE Launch(e)
    <2>1. started[e] + 1 \in 1 .. Len(Items) /\ started'[e] = started[e] + 1
      BY <1>3 DEF Launch, Started
    <2>2. Items[started'[e]] \in Names
      BY <2>1
    <2>3. Started'
      <3> SUFFICES ASSUME NEW f \in Exporters
                   PROVE  /\ pc'[f] \in {"off", "begin"} =>
                                started'[f] = 0 /\ \A i \in Names : job'[f][i] = "none"
                          /\ pc'[f] = "launch" =>
                                /\ started'[f] < Len(Items)
                                /\ \A k \in started'[f] + 1 .. Len(Items) :
                                        job'[f][Items[k]] = "none"
        BY DEF Started
      <3>1. CASE f = e
        <4>1. pc'[f] = IF started'[e] = Len(Items) THEN "wait" ELSE "launch"
          BY <1>3, <3>1 DEF Launch
        <4>2. ASSUME NEW k \in started'[f] + 1 .. Len(Items)
              PROVE  job'[f][Items[k]] = "none"
          <5>1. k \in started[e] + 1 .. Len(Items) /\ Items[k] # Items[started'[e]]
            BY <2>1, <3>1, <4>2
          <5>2. job[e][Items[k]] = "none"
            BY <5>1, <1>3 DEF Launch, Started
          <5>3. job'[f][Items[k]] = job[e][Items[k]]
            BY <5>1, <3>1, <1>3, <2>1, <2>2 DEF Launch
          <5>4. QED
            BY <5>2, <5>3
        <4>3. QED
          BY <4>1, <4>2, <2>1, <3>1
      <3>2. CASE f # e
        BY <1>3, <3>2 DEF Launch, Started
      <3>3. QED
        BY <3>1, <3>2
    <2>4. started' \in [Exporters -> 0 .. Len(Items)]
      BY <1>3, <2>1 DEF Launch
    <2>5. job' \in [Exporters -> [Names -> {"none", "query", "export", "copy",
                                            "copying", "remove", "done"}]]
      BY <1>3, <2>2 DEF Launch
    <2>6. QED
      BY <1>3, <2>3, <2>4, <2>5 DEF Launch
  <1>4. CASE Finish(e)
    BY <1>4, <1>e DEF Finish
  <1>5. CASE Kill(e)
    BY <1>5, <1>e DEF Kill
  <1>6. ASSUME NEW i \in Names, JobStep(e, i) PROVE ExportTypes'
    <2>j. ASSUME NEW from \in {"query", "export", "copy", "copying", "remove"},
                 NEW to \in {"export", "copy", "copying", "remove", "done"},
                 JobGoto(e, i, from, to)
          PROVE  /\ Started'
                 /\ pc' = pc /\ others' = others /\ started' = started
                 /\ job' \in [Exporters -> [Names -> {"none", "query", "export", "copy",
                                                      "copying", "remove", "done"}]]
      <3>1. /\ job[e][i] # "none"
            /\ pc' = pc /\ others' = others /\ started' = started
            /\ job' = [job EXCEPT ![e][i] = to]
        BY <2>j DEF JobGoto
      <3>2. \A f \in Exporters, n \in Names : job[f][n] = "none" => job'[f][n] = "none"
        BY <3>1
      <3>3. Started'
        BY <3>1, <3>2 DEF Started
      <3>4. QED
        BY <3>1, <3>3
    <2>1. CASE Query(e, i)
      <3>1. Whole(Len(results)) \in Contents
        BY BoundsAssumption DEF ServerTypes, Versions
      <3>c. \E c \in Contents : data' = [data EXCEPT ![e][i] = c]
        BY <2>1, <3>1 DEF Query
      <3>2. data' \in [Exporters -> [Names -> Contents]]
        BY <3>c
      <3>3. QED
        BY <2>1, <2>j, <3>2 DEF Query
    <2>2. CASE Export(e, i)
      BY <2>2, <2>j DEF Export
    <2>3. CASE CopyBegin(e, i)
      BY <2>3, <2>j DEF CopyBegin
    <2>4. CASE CopyEnd(e, i)
      BY <2>4, <2>j DEF CopyEnd
    <2>5. CASE CopyRefused(e, i)
      BY <2>5, <2>j DEF CopyRefused
    <2>6. CASE Remove(e, i)
      BY <2>6, <2>j DEF Remove
    <2>7. QED
      BY <1>6, <2>1, <2>2, <2>3, <2>4, <2>5, <2>6 DEF JobStep, ServerStep, FileStep
  <1>7. QED
    BY <1>1, <1>2, <1>3, <1>4, <1>5, <1>6 DEF ExporterStep

\* Every step of a reader keeps the types.
LEMMA ReadTypeStep ==
  ASSUME ServerTypes, ExportTypes, ReadTypes, NEW r \in Readers,
         (\E a \in Asked : Ask(r, a)) \/ ReaderStep(r)
  PROVE  ReadTypes'
  <1> USE DEF ReadTypes
  <1>f. file \in [Names -> Contents]
    BY DEF ExportTypes
  <1>h. ASSUME todo[r] # <<>>
        PROVE  Head(todo[r]) \in Names /\ Tail(todo[r]) \in Seq(Names)
    <2>1. todo[r] \in Seq(Names)
      OBVIOUS
    <2>2. QED
      BY <2>1, <1>h, HeadTailProperties
  <1>i. ASSUME NEW c \in Contents \cup {Null}, todo[r] # <<>>, Imported(r, c)
        PROVE  /\ got' \in [Readers -> [Names -> Contents \cup {Null}]]
               /\ todo' \in [Readers -> Seq(Names)]
               /\ tried' \in [Readers -> BOOLEAN]
               /\ ask' = ask
    <2>1. got' \in [Readers -> [Names -> Contents \cup {Null}]]
      BY <1>i, <1>h DEF Imported
    <2>2. QED
      BY <2>1, <1>i, <1>h DEF Imported
  <1>1. ASSUME NEW a \in Asked, Ask(r, a) PROVE ReadTypes'
    BY <1>1, NameFacts DEF Ask
  <1>2. CASE ImportWorks(r)
    <2>1. /\ todo[r] # <<>>
          /\ Imported(r, file[Head(todo[r])])
          /\ \/ seen' = [seen EXCEPT ![Head(todo[r])] = file[Head(todo[r])].ver]
             \/ seen' = seen
      BY <1>2 DEF ImportWorks
    <2>2. file[Head(todo[r])] \in Contents
      BY <2>1, <1>h, <1>f
    <2>3. file[Head(todo[r])].ver \in Versions
      BY <2>2, ContentFacts
    <2>4. seen' \in [Names -> Versions]
      BY <2>1, <2>3, <1>h
    <2>5. QED
      BY <2>1, <2>2, <2>4, <1>i
  <1>3. CASE ImportRetry(r)
    BY <1>3 DEF ImportRetry
  <1>4. CASE ImportFails(r)
    BY <1>4, <1>i DEF ImportFails
  <1>5. CASE Reply(r)
    BY <1>5 DEF Reply
  <1>6. QED
    BY <1>1, <1>2, <1>3, <1>4, <1>5 DEF ReaderStep

\* No step leaves the types: the server and other processes change only
\* their own variable, exporters do not touch the readers', nor readers theirs.
LEMMA TypeInvStep == TypeInv /\ [Next]_vars => TypeInv'
  <1> SUFFICES ASSUME ServerTypes, ExportTypes, ReadTypes, [Next]_vars
               PROVE  ServerTypes' /\ ExportTypes' /\ ReadTypes'
    BY DEF TypeInv, TypeOK, Started, ServerTypes, ExportTypes, ReadTypes
  <1>s. ASSUME UNCHANGED results PROVE ServerTypes'
    BY <1>s DEF ServerTypes
  <1>r. ASSUME UNCHANGED reading PROVE ReadTypes'
    BY <1>r DEF ReadTypes, reading
  <1>x. ASSUME UNCHANGED <<pc, started, job, data, temp, file, cut>>,
               others' \subseteq Others
        PROVE  ExportTypes'
    BY <1>x DEF ExportTypes, Started
  <1>1. ASSUME NEW o \in {"Success", "Failed"}, Session(o)
        PROVE  ServerTypes' /\ ExportTypes' /\ ReadTypes'
    <2>1. ServerTypes'
      BY <1>1, BoundsAssumption DEF Session, ServerTypes
    <2>2. ExportTypes'
      BY <1>1, <1>x DEF Session, exporting, ExportTypes
    <2>3. QED
      BY <1>1, <2>1, <2>2, <1>r DEF Session
  <1>2. ASSUME NEW o \in Others, OtherStart(o) \/ OtherEnd(o)
        PROVE  ServerTypes' /\ ExportTypes' /\ ReadTypes'
    <2>1. others' \subseteq Others
      BY <1>2 DEF OtherStart, OtherEnd, ExportTypes
    <2>2. QED
      BY <1>2, <2>1, <1>s, <1>r, <1>x DEF OtherStart, OtherEnd
  <1>3. ASSUME NEW e \in Exporters, Begin(e) \/ ExporterStep(e) \/ Kill(e)
        PROVE  ServerTypes' /\ ExportTypes' /\ ReadTypes'
    <2>1. UNCHANGED results /\ UNCHANGED reading
      BY <1>3 DEF Begin, ExporterStep, Count, Launch, Finish, Kill, End, JobStep, ServerStep, FileStep,
                  Query, Export, CopyBegin, CopyEnd, CopyRefused, Remove, JobGoto
    <2>2. QED
      BY <1>3, <2>1, <1>s, <1>r, ExportTypeStep
  <1>4. ASSUME NEW r \in Readers, (\E a \in Asked : Ask(r, a)) \/ ReaderStep(r)
        PROVE  ServerTypes' /\ ExportTypes' /\ ReadTypes'
    <2>1. UNCHANGED results /\ UNCHANGED exporting
      BY <1>4 DEF Ask, ReaderStep, ImportWorks, ImportRetry, ImportFails, Imported, Reply
    <2>2. ExportTypes'
      BY <2>1, <1>x DEF exporting, ExportTypes
    <2>3. QED
      BY <1>4, <2>1, <2>2, <1>s, ReadTypeStep
  <1>5. CASE UNCHANGED vars
    BY <1>5, <1>s, <1>r, <1>x DEF vars, reading, ExportTypes
  <1>6. QED
    BY <1>1, <1>2, <1>3, <1>4, <1>5 DEF Next

\* Nothing runs, and the files are absent.
LEMMA TypeInit == Init => TypeInv
  <1> SUFFICES ASSUME Init PROVE TypeInv
    OBVIOUS
  <1>1. ServerTypes
    <2>1. results = <<>>
      BY DEF Init
    <2>2. results \in Seq({"Success", "Failed"}) /\ Len(results) = 0
      BY <2>1, EmptySeq
    <2>3. QED
      BY <2>2, BoundsAssumption DEF ServerTypes
  <1>2. Started
    BY NameFacts DEF Init, Started
  <1>3. data \in [Exporters -> [Names -> Contents]]
    BY ContentFacts DEF Init
  <1>4. ExportTypes
    <2>1. /\ pc \in [Exporters -> {"off", "begin", "launch", "wait"}]
          /\ job \in [Exporters -> [Names -> {"none", "query", "export", "copy",
                                              "copying", "remove", "done"}]]
      BY DEF Init
    <2>2. started \in [Exporters -> 0 .. Len(Items)]
      <3>1. 0 \in 0 .. Len(Items)
        BY NameFacts
      <3>2. QED
        BY <3>1 DEF Init
    <2>3. temp \in [Names -> Contents] /\ file \in [Names -> Contents]
      BY ContentFacts DEF Init
    <2>4. others \subseteq Others /\ cut \subseteq Names
      BY DEF Init
    <2>5. QED
      BY <1>2, <1>3, <2>1, <2>2, <2>3, <2>4 DEF ExportTypes
  <1>5. 0 \in Versions
    BY BoundsAssumption DEF Versions
  <1>6. todo \in [Readers -> Seq(Names)]
    <2>1. <<>> \in Seq(Names)
      BY EmptySeq
    <2>2. QED
      BY <2>1 DEF Init
  <1>7. got \in [Readers -> [Names -> Contents \cup {Null}]]
    BY DEF Init
  <1>8. ReadTypes
    BY <1>5, <1>6, <1>7 DEF Init, ReadTypes
  <1>9. QED
    BY <1>1, <1>4, <1>8, TypeParts

(***************************************************************************)
(* Type correctness of the files, the jobs and the readers; a process that *)
(* has ended leaves no job behind.                                         *)
(***************************************************************************)
THEOREM TypeCorrect == Spec => []TypeOK
  <1>1. TypeInv => TypeOK
    BY DEF TypeInv
  <1>2. QED
    BY <1>1, TypeInit, TypeInvStep, PTL DEF Spec

----------------------------------------------------------------------------
(***************************************************************************)
(* Torn files.  Only CopyBegin cuts a file off: what a job has from the    *)
(* server, and the temporary file, is never torn, so that a copy that ends *)
(* makes the file whole.                                                   *)
(***************************************************************************)
SourcesWhole ==
    /\ \A e \in Exporters, i \in Names : data[e][i].st # "torn"
    /\ \A i \in Names : temp[i].st # "torn"

TornInv == SourcesWhole /\ TornExplained

\* A step of an exporter leaves no torn file behind unexplained.
LEMMA TornExportStep ==
  ASSUME TypeInv, TornInv, NEW e \in Exporters, Begin(e) \/ ExporterStep(e) \/ Kill(e)
  PROVE  TornInv'
  <1>ty. /\ job \in [Exporters -> [Names -> {"none", "query", "export", "copy",
                                             "copying", "remove", "done"}]]
         /\ data \in [Exporters -> [Names -> Contents]]
         /\ temp \in [Names -> Contents] /\ file \in [Names -> Contents]
    BY DEF TypeInv, TypeOK
  <1>st. Absent.st # "torn" /\ Empty.st # "torn" /\ \A v : Whole(v).st # "torn"
    BY DEF Absent, Empty, Whole
  <1> USE <1>ty DEF TornInv
  <1>0. ASSUME UNCHANGED <<job, data, temp, file, cut>> PROVE TornInv'
    BY <1>0 DEF SourcesWhole, TornExplained
  <1>1. CASE Begin(e) \/ Count(e)
    BY <1>0, <1>1 DEF Begin, Count
  <1>2. CASE Launch(e)
    <2>1. /\ job' = [job EXCEPT ![e][Items[started[e] + 1]] = "query"]
          /\ job[e][Items[started[e] + 1]] = "none"
          /\ UNCHANGED <<data, temp, file, cut>>
      <3>1. /\ started[e] \in Nat /\ started[e] < Len(Items) /\ Len(Items) \in Nat
            /\ started'[e] = started[e] + 1
            /\ \A k \in started[e] + 1 .. Len(Items) : job[e][Items[k]] = "none"
        <4>1. pc[e] = "launch" /\ started' = [started EXCEPT ![e] = @ + 1]
          BY <1>2 DEF Launch
        <4>2. started \in [Exporters -> 0 .. Len(Items)] /\ Started
          BY DEF TypeInv, TypeOK
        <4>3. QED
          BY <4>1, <4>2, NameFacts DEF Started
      <3>2. started[e] + 1 \in started[e] + 1 .. Len(Items)
        BY <3>1
      <3>3. QED
        BY <1>2, <3>1, <3>2 DEF Launch
    <2>2. \A f \in Exporters, i \in Names : job[f][i] = "copying" => job'[f][i] = "copying"
      BY <2>1
    <2>3. QED
      BY <2>1, <2>2 DEF SourcesWhole, TornExplained
  <1>e. ASSUME End(e),
               \A i \in Names : job[e][i] = "copying" => i \in cut',
               cut \subseteq cut'
        PROVE  TornInv'
    <2>1. SourcesWhole'
      BY <1>e, <1>st DEF End, SourcesWhole
    <2>2. \A f \in Exporters, i \in Names :
              job[f][i] = "copying" => i \in cut' \/ job'[f][i] = "copying"
      BY <1>e DEF End
    <2>3. TornExplained'
      BY <1>e, <2>2 DEF End, TornExplained
    <2>4. QED
      BY <2>1, <2>3
  <1>3. CASE Finish(e)
    BY <1>3, <1>e DEF Finish
  <1>4. CASE Kill(e)
    BY <1>4, <1>e DEF Kill
  <1>5. ASSUME NEW i \in Names, JobStep(e, i) PROVE TornInv'
    <2>j. ASSUME NEW from, NEW to, from # "copying", JobGoto(e, i, from, to)
          PROVE  \A f \in Exporters, n \in Names :
                    job[f][n] = "copying" => job'[f][n] = "copying"
      BY <2>j DEF JobGoto
    <2>1. CASE Query(e, i)
      <3>1. PICK c : c.st # "torn" /\ data' = [data EXCEPT ![e][i] = c]
        BY <2>1, <1>st DEF Query
      <3>2. SourcesWhole'
        BY <3>1, <2>1 DEF Query, SourcesWhole
      <3>3. TornExplained'
        BY <2>1, <2>j DEF Query, TornExplained
      <3>4. QED
        BY <3>2, <3>3
    <2>2. CASE Export(e, i)
      <3>1. SourcesWhole'
        BY <2>2, <1>st DEF Export, SourcesWhole
      <3>2. TornExplained'
        BY <2>2, <2>j DEF Export, TornExplained
      <3>3. QED
        BY <3>1, <3>2
    <2>3. CASE CopyBegin(e, i)
      <3>1. job'[e][i] = "copying"
        BY <2>3 DEF CopyBegin, JobGoto
      <3>2. TornExplained'
        BY <2>3, <2>j, <3>1 DEF CopyBegin, TornExplained
      <3>3. QED
        BY <2>3, <3>2 DEF CopyBegin, SourcesWhole
    <2>4. CASE CopyEnd(e, i)
      <3>1. \A f \in Exporters, n \in Names :
                n # i /\ job[f][n] = "copying" => job'[f][n] = "copying"
        BY <2>4 DEF CopyEnd, JobGoto
      <3>2. file'[i].st # "torn" /\ \A n \in Names : n # i => file'[n] = file[n]
        BY <2>4 DEF CopyEnd, SourcesWhole
      <3>3. \A n \in Names : n # i /\ n \in cut => n \in cut'
        BY <2>4 DEF CopyEnd
      <3>4. TornExplained'
        BY <3>1, <3>2, <3>3 DEF TornExplained
      <3>5. QED
        BY <2>4, <3>4 DEF CopyEnd, SourcesWhole
    <2>5. CASE CopyRefused(e, i)
      BY <2>5, <2>j DEF CopyRefused, SourcesWhole, TornExplained
    <2>6. CASE Remove(e, i)
      <3>1. SourcesWhole'
        BY <2>6, <1>st DEF Remove, SourcesWhole
      <3>2. TornExplained'
        BY <2>6, <2>j DEF Remove, TornExplained
      <3>3. QED
        BY <3>1, <3>2
    <2>7. QED
      BY <1>5, <2>1, <2>2, <2>3, <2>4, <2>5, <2>6 DEF JobStep, ServerStep, FileStep
  <1>6. QED
    BY <1>1, <1>2, <1>3, <1>4, <1>5 DEF ExporterStep

\* Nobody but an exporter touches the files.
LEMMA TornStep == TypeInv /\ TornInv /\ [Next]_vars => TornInv'
  <1> SUFFICES ASSUME TypeInv, TornInv, [Next]_vars PROVE TornInv'
    OBVIOUS
  <1>0. ASSUME UNCHANGED <<job, data, temp, file, cut>> PROVE TornInv'
    BY <1>0 DEF TornInv, SourcesWhole, TornExplained
  <1>1. ASSUME NEW o, Session(o) \/ OtherStart(o) \/ OtherEnd(o) PROVE TornInv'
    BY <1>1, <1>0 DEF Session, OtherStart, OtherEnd, exporting
  <1>2. ASSUME NEW r \in Readers, (\E a \in Asked : Ask(r, a)) \/ ReaderStep(r)
        PROVE  TornInv'
    BY <1>2, <1>0 DEF Ask, ReaderStep, ImportWorks, ImportRetry, ImportFails,
                      Imported, Reply, exporting
  <1>3. CASE UNCHANGED vars
    BY <1>3, <1>0 DEF vars
  <1>4. QED
    BY <1>1, <1>2, <1>3, TornExportStep DEF Next

(***************************************************************************)
(* A file is cut off only while a job copies over it or since an exporter  *)
(* was killed in the middle of that copy.                                  *)
(***************************************************************************)
THEOREM TornFilesExplained == Spec => []TornExplained
  <1>1. Init => TypeInv
    BY TypeInit
  <1>2. Init => TornInv
    <2>1. Absent.st # "torn"
      BY DEF Absent
    <2>2. ASSUME Init
          PROVE  /\ \A e \in Exporters, i \in Names : data[e][i] = Absent
                 /\ \A i \in Names : temp[i] = Absent /\ file[i] = Absent
      BY <2>2 DEF Init
    <2>3. QED
      BY <2>1, <2>2 DEF TornInv, SourcesWhole, TornExplained
  <1>3. TornInv => TornExplained
    BY DEF TornInv
  <1>4. QED
    BY <1>1, <1>2, <1>3, TypeInvStep, TornStep, PTL DEF Spec

----------------------------------------------------------------------------
(***************************************************************************)
(* Files do not go back.  Along the way from the server to the item's file *)
(* every content is at least as new as what lies ahead of it: what was     *)
(* imported last, the file, the temporary file from which a job is about   *)
(* to copy, and what a job is about to export.                             *)
(***************************************************************************)

\* The content c may replace the file of item i.
Newer(c, i) ==
    c.st = "ok" => /\ seen[i] <= c.ver /\ c.ver <= Len(results)
                   /\ file[i].st = "ok" => file[i].ver <= c.ver

Fresh ==
    /\ \A i \in Names : seen[i] <= Len(results) /\ Newer(file[i], i)
    /\ \A e \in Exporters, i \in Names :
        /\ job[e][i] = "export" => Newer(data[e][i], i)
        /\ job[e][i] \in {"copy", "copying"} => Newer(temp[i], i)

\* Whoever has a job is exporting, and so alone.
LEMMA Alone ==
  ASSUME TypeInv, OneExporter, NEW e \in Exporters, NEW f \in Exporters,
         NEW i \in Names, NEW j \in Names, job[e][i] # "none", job[f][j] # "none"
  PROVE  e = f
  <1>1. Exporting(e) /\ Exporting(f)
    BY DEF TypeInv, TypeOK, Started, Exporting
  <1>2. QED
    BY <1>1 DEF OneExporter

\* The types that the proofs about Fresh need.
LEMMA FreshTypes ==
  ASSUME TypeInv
  PROVE  /\ Len(results) \in Versions /\ Versions \subseteq Int
         /\ job \in [Exporters -> [Names -> {"none", "query", "export", "copy",
                                             "copying", "remove", "done"}]]
         /\ data \in [Exporters -> [Names -> Contents]]
         /\ temp \in [Names -> Contents] /\ file \in [Names -> Contents]
         /\ seen \in [Names -> Versions]
         /\ \A e \in Exporters, i \in Names : data[e][i].ver \in Versions
         /\ \A i \in Names : temp[i].ver \in Versions /\ file[i].ver \in Versions
  <1>1. Len(results) \in Versions /\ Versions \subseteq Int
    <2>1. results \in Seq({"Success", "Failed"}) /\ Len(results) <= MaxSessions
      BY DEF TypeInv, TypeOK
    <2>2. Len(results) \in Nat
      BY <2>1, LenProperties
    <2>3. QED
      BY <2>1, <2>2, BoundsAssumption DEF Versions
  <1>2. /\ job \in [Exporters -> [Names -> {"none", "query", "export", "copy",
                                            "copying", "remove", "done"}]]
        /\ data \in [Exporters -> [Names -> Contents]]
        /\ temp \in [Names -> Contents] /\ file \in [Names -> Contents]
        /\ seen \in [Names -> Versions]
    BY DEF TypeInv, TypeOK
  <1>3. QED
    BY <1>1, <1>2, ContentFacts

\* A step of an exporter passes contents on without overtaking newer ones.
LEMMA FreshExportStep ==
  ASSUME TypeInv, OneExporter, Fresh, NEW e \in Exporters,
         Begin(e) \/ ExporterStep(e) \/ Kill(e)
  PROVE  Fresh' /\ UNCHANGED seen
  <1> USE FreshTypes
  <1>u. UNCHANGED <<seen, results>>
    BY DEF Begin, ExporterStep, Count, Launch, Finish, Kill, End, JobStep, ServerStep, FileStep, Query,
           Export, CopyBegin, CopyEnd, CopyRefused, Remove, JobGoto, reading
  <1> SUFFICES Fresh'
    BY <1>u
  <1>0. ASSUME UNCHANGED <<data, temp, file>>,
               \A f \in Exporters, i \in Names :
                   job'[f][i] \in {"export", "copy", "copying"} => job'[f][i] = job[f][i]
        PROVE  Fresh'
    BY <1>0, <1>u DEF Fresh, Newer
  <1>1. CASE Begin(e) \/ Count(e)
    BY <1>1, <1>0 DEF Begin, Count
  <1>2. CASE Launch(e)
    <2>1. \E n : job' = [job EXCEPT ![e][n] = "query"]
      BY <1>2 DEF Launch
    <2>2. QED
      BY <1>2, <2>1, <1>0 DEF Launch
  <1>e. ASSUME End(e) PROVE Fresh'
    <2>1. \A f \in Exporters, i \in Names :
            /\ f = e => job'[f][i] = "none"
            /\ f # e => job'[f][i] = job[f][i] /\ data'[f][i] = data[f][i]
      BY <1>e DEF End
    <2>2. temp' = temp /\ file' = file
      BY <1>e DEF End
    <2>3. ASSUME NEW i \in Names PROVE (seen[i] <= Len(results) /\ Newer(file[i], i))'
      BY <2>2, <1>u DEF Fresh, Newer
    <2>4. ASSUME NEW f \in Exporters, NEW i \in Names
          PROVE  (/\ job[f][i] = "export" => Newer(data[f][i], i)
                  /\ job[f][i] \in {"copy", "copying"} => Newer(temp[i], i))'
      <3>1. CASE f = e
        BY <3>1, <2>1
      <3>2. CASE f # e
        <4>1. job'[f][i] = job[f][i] /\ data'[f][i] = data[f][i]
          BY <3>2, <2>1
        <4>2. QED
          BY <4>1, <2>2, <1>u DEF Fresh, Newer
      <3>3. QED
        BY <3>1, <3>2
    <2>5. QED
      BY <2>3, <2>4 DEF Fresh
  <1>3. CASE Finish(e) \/ Kill(e)
    BY <1>3, <1>e DEF Finish, Kill
  <1>4. ASSUME NEW i \in Names, JobStep(e, i) PROVE Fresh'
    <2>j. ASSUME NEW from \in {"query", "export", "copy", "copying", "remove"}, NEW to,
                 JobGoto(e, i, from, to)
          PROVE  /\ job[e][i] = from /\ job'[e][i] = to
                 /\ \A f \in Exporters, n \in Names :
                        f # e \/ n # i => job'[f][n] = job[f][n]
                 /\ \A f \in Exporters : f # e => job[f][i] = "none" /\ job'[f][i] = "none"
      <3>1. /\ job[e][i] = from /\ job'[e][i] = to
            /\ \A f \in Exporters, n \in Names :
                    f # e \/ n # i => job'[f][n] = job[f][n]
        BY <2>j DEF JobGoto
      <3>2. \A f \in Exporters : f # e => job[f][i] = "none"
        BY <3>1, Alone
      <3>3. QED
        BY <3>1, <3>2
    <2>1. CASE Query(e, i)
      <3>1. /\ temp' = temp /\ file' = file
            /\ \A f \in Exporters, n \in Names : f # e \/ n # i => data'[f][n] = data[f][n]
        BY <2>1 DEF Query
      <3>2. Newer(data'[e][i], i)
        <4>1. data'[e][i] = Whole(Len(results)) \/ data'[e][i] = Empty
          BY <2>1 DEF Query
        <4>2. Newer(Empty, i)
          BY DEF Newer, Empty
        <4>3. Newer(Whole(Len(results)), i)
          <5>1. Whole(Len(results)).ver = Len(results)
            BY DEF Whole
          <5>2. seen[i] <= Len(results) /\ (file[i].st = "ok" => file[i].ver <= Len(results))
            BY DEF Fresh, Newer
          <5>3. QED
            BY <5>1, <5>2 DEF Newer
        <4>4. QED
          BY <4>1, <4>2, <4>3
      <3>3. QED
        BY <2>1, <2>j, <3>1, <3>2, <1>u DEF Query, Fresh, Newer
    <2>2. CASE Export(e, i)
      <3>1. /\ file' = file /\ temp'[i] = data[e][i]
            /\ \A n \in Names : n # i => temp'[n] = temp[n]
            /\ \A f \in Exporters, n \in Names : f # e \/ n # i => data'[f][n] = data[f][n]
        BY <2>2 DEF Export
      <3>2. Newer(temp'[i], i)
        BY <3>1, <2>2, <2>j DEF Export, Fresh
      <3>3. QED
        BY <2>2, <2>j, <3>1, <3>2, <1>u DEF Export, Fresh, Newer
    <2>3. CASE CopyBegin(e, i)
      <3>1. /\ data' = data /\ temp' = temp /\ file'[i].st # "ok"
            /\ \A n \in Names : n # i => file'[n] = file[n]
        BY <2>3 DEF CopyBegin, Torn
      <3>2. QED
        BY <2>3, <2>j, <3>1, <1>u DEF CopyBegin, Fresh, Newer
    <2>4. CASE CopyEnd(e, i)
      <3>1. /\ data' = data /\ temp' = temp /\ file'[i] = temp[i]
            /\ \A n \in Names : n # i => file'[n] = file[n]
        BY <2>4 DEF CopyEnd
      <3>2. Newer(temp[i], i)
        BY <2>4, <2>j DEF CopyEnd, Fresh
      <3>3. QED
        BY <2>4, <2>j, <3>1, <3>2, <1>u DEF CopyEnd, Fresh, Newer
    <2>5. CASE CopyRefused(e, i)
      BY <2>5, <2>j, <1>0 DEF CopyRefused
    <2>6. CASE Remove(e, i)
      <3>1. /\ data' = data /\ file' = file
            /\ \A n \in Names : n # i => temp'[n] = temp[n]
        BY <2>6 DEF Remove
      <3>2. QED
        BY <2>6, <2>j, <3>1, <1>u DEF Remove, Fresh, Newer
    <2>7. QED
      BY <1>4, <2>1, <2>2, <2>3, <2>4, <2>5, <2>6 DEF JobStep, ServerStep, FileStep
  <1>5. QED
    BY <1>1, <1>2, <1>3, <1>4 DEF ExporterStep

\* A reader that imports a file sees nothing older than before.
LEMMA FreshReadStep ==
  ASSUME TypeInv, Fresh, NEW r \in Readers,
         (\E a \in Asked : Ask(r, a)) \/ ReaderStep(r)
  PROVE  Fresh' /\ \A i \in Names : seen[i] <= seen'[i]
  <1> USE FreshTypes
  <1>u. UNCHANGED <<results, job, data, temp, file>>
    BY DEF Ask, ReaderStep, ImportWorks, ImportRetry, ImportFails, Imported, Reply,
           exporting
  <1>0. ASSUME UNCHANGED seen PROVE Fresh' /\ \A i \in Names : seen[i] <= seen'[i]
    BY <1>0, <1>u DEF Fresh, Newer
  <1>1. CASE ImportWorks(r)
    <2>1. CASE UNCHANGED seen
      BY <2>1, <1>0
    <2>2. CASE ~ UNCHANGED seen
      <3>1. PICK i : file[i].st = "ok" /\ seen' = [seen EXCEPT ![i] = file[i].ver]
        BY <1>1, <2>2 DEF ImportWorks
      <3>2. i \in Names
        BY <3>1, <2>2
      <3>3. /\ seen'[i] = file[i].ver /\ seen[i] <= file[i].ver /\ file[i].ver <= Len(results)
            /\ \A n \in Names : n # i => seen'[n] = seen[n]
        BY <3>1, <3>2 DEF Fresh, Newer
      <3>4. QED
        BY <3>1, <3>2, <3>3, <1>u DEF Fresh, Newer
    <2>3. QED
      BY <2>1, <2>2
  <1>2. CASE (\E a \in Asked : Ask(r, a)) \/ ImportRetry(r) \/ ImportFails(r) \/ Reply(r)
    BY <1>2, <1>0 DEF Ask, ImportRetry, ImportFails, Reply
  <1>3. QED
    BY <1>1, <1>2 DEF ReaderStep

\* No step overtakes, and none lets a reader see something older.
LEMMA FreshStep ==
    TypeInv /\ OneExporter /\ Fresh /\ [Next]_vars
        => Fresh' /\ \A i \in Names : seen[i] <= seen'[i]
  <1> SUFFICES ASSUME TypeInv, OneExporter, Fresh, [Next]_vars
               PROVE  Fresh' /\ \A i \in Names : seen[i] <= seen'[i]
    OBVIOUS
  <1> USE FreshTypes
  <1>0. ASSUME UNCHANGED <<results, job, data, temp, file, seen>>
        PROVE  Fresh' /\ \A i \in Names : seen[i] <= seen'[i]
    BY <1>0 DEF Fresh, Newer
  <1>1. ASSUME NEW o \in {"Success", "Failed"}, Session(o)
        PROVE  Fresh' /\ \A i \in Names : seen[i] <= seen'[i]
    <2>1. UNCHANGED <<job, data, temp, file, seen>>
      BY <1>1 DEF Session, exporting, reading
    <2>2. Len(results') = Len(results) + 1
      <3>1. results \in Seq({"Success", "Failed"}) /\ results' = Append(results, o)
        BY <1>1 DEF Session, TypeInv, TypeOK
      <3>2. QED
        BY <3>1, AppendProperties
    <2>3. \A v \in Versions : v <= Len(results) => v <= Len(results')
      BY <2>2
    <2>4. QED
      BY <2>1, <2>3 DEF Fresh, Newer
  <1>2. ASSUME NEW o \in Others, OtherStart(o) \/ OtherEnd(o)
        PROVE  Fresh' /\ \A i \in Names : seen[i] <= seen'[i]
    BY <1>2, <1>0 DEF OtherStart, OtherEnd, reading
  <1>3. ASSUME NEW e \in Exporters, Begin(e) \/ ExporterStep(e) \/ Kill(e)
        PROVE  Fresh' /\ \A i \in Names : seen[i] <= seen'[i]
    BY <1>3, FreshExportStep
  <1>4. ASSUME NEW r \in Readers, (\E a \in Asked : Ask(r, a)) \/ ReaderStep(r)
        PROVE  Fresh' /\ \A i \in Names : seen[i] <= seen'[i]
    BY <1>4, FreshReadStep
  <1>5. CASE UNCHANGED vars
    BY <1>5, <1>0 DEF vars
  <1>6. QED
    BY <1>1, <1>2, <1>3, <1>4, <1>5 DEF Next

(***************************************************************************)
(* The files never go back in time: an import never gets an older state of *)
(* the server than an earlier import of the same file, although exporters  *)
(* are killed, queries fail and copies are refused.                        *)
(***************************************************************************)
THEOREM FilesAdvance == Spec => AnswersAdvance
  <1>1. Init => Fresh
    <2> SUFFICES ASSUME Init PROVE Fresh
      OBVIOUS
    <2>1. Len(results) = 0
      BY DEF Init
    <2>2. Absent.st # "ok"
      BY DEF Absent
    <2>3. /\ \A i \in Names : seen[i] = 0 /\ file[i] = Absent
          /\ \A e \in Exporters, i \in Names : job[e][i] = "none"
      BY DEF Init
    <2>4. QED
      BY <2>1, <2>2, <2>3 DEF Fresh, Newer
  <1>2. TypeInv /\ OneExporter /\ Fresh /\ [Next]_vars
            => [\A i \in Names : seen[i] <= seen'[i]]_vars
    BY FreshStep
  <1>3. QED
    BY <1>1, <1>2, TypeInit, TypeInvStep, SingleExporter, FreshStep, PTL
       DEF Spec, AnswersAdvance
=============================================================================
