------------------------- MODULE AgentCatalogProofs -------------------------
(***************************************************************************)
(* Theorems about AgentCatalog, for any machines, outcomes, retention and  *)
(* days.  With any exporters that overlap and are killed: a torn catalog   *)
(* stays torn once no export holds a document, a machine has one job, and  *)
(* other mail changes the job of no name but the one it carries.  With one *)
(* exporter and a text file read whole, for the machines whose names other *)
(* mail has not carried: no fresh job is dropped, dates go back only for a *)
(* late mail.  And a new machine is listed if there is a job to clone.     *)
(***************************************************************************)
EXTENDS AgentCatalog, SelectionProofs

(***************************************************************************)
(* An export in mid-save has a document: only then may a finished save     *)
(* make the file whole again.                                              *)
(***************************************************************************)
SavesLoaded ==
    /\ pc \in [Exporters -> {"idle", "open", "loop", "save"}]
    /\ loaded \in [Exporters -> BOOLEAN]
    /\ \A p \in Exporters : pc[p] = "save" => loaded[p]

\* Before the first export nothing is being saved.
LEMMA SavesLoadedInit == Init => SavesLoaded
  BY DEF Init, SavesLoaded

\* An export that ends has neither a document nor a save under way.
LEMMA ExitKeeps ==
  ASSUME SavesLoaded, NEW p \in Exporters, Exit(p)
  PROVE  SavesLoaded'
  BY DEF SavesLoaded, Exit

\* No step of the mailbox, of an export or of a kill breaks it.
LEMMA SavesLoadedStep == SavesLoaded /\ [Next]_vars => SavesLoaded'
  <1> SUFFICES ASSUME SavesLoaded, [Next]_vars PROVE SavesLoaded'
    OBVIOUS
  <1>1. ASSUME \/ \E m \in Machines, o \in Outcomes, d \in Days : Report(m, o, d)
               \/ OtherMail \/ NextDay \/ Collect \/ UNCHANGED vars
        PROVE  SavesLoaded'
    BY <1>1 DEF Report, OtherMail, NextDay, Collect, vars, locals, SavesLoaded
  <1>2. ASSUME NEW p \in Exporters, Open(p) PROVE SavesLoaded'
    <2>1. (fstate = "ok") \in BOOLEAN
      OBVIOUS
    <2>2. /\ pc[p] = "idle" /\ pc' = [pc EXCEPT ![p] = "open"]
          /\ loaded' = [loaded EXCEPT ![p] = (fstate = "ok")]
      BY <1>2 DEF Open
    <2>3. loaded' \in [Exporters -> BOOLEAN] /\ \A q \in Exporters : q # p => loaded'[q] = loaded[q]
      BY <2>1, <2>2, Zenon DEF SavesLoaded
    <2>4. pc' \in [Exporters -> {"idle", "open", "loop", "save"}]
          /\ \A q \in Exporters : pc'[q] = "save" => q # p /\ pc[q] = "save"
      BY <2>2 DEF SavesLoaded
    <2>5. QED
      BY <2>3, <2>4 DEF SavesLoaded
  <1>3. ASSUME NEW p \in Exporters, Load(p) PROVE SavesLoaded'
    BY <1>3 DEF Load, SavesLoaded
  <1>4. ASSUME NEW p \in Exporters, Handle(p) PROVE SavesLoaded'
    BY <1>4 DEF Handle, SavesLoaded
  <1>5. ASSUME NEW p \in Exporters, SaveBegin(p) PROVE SavesLoaded'
    BY <1>5 DEF SaveBegin, CanSave, SavesLoaded
  <1>6. ASSUME NEW p \in Exporters, SaveFails(p) \/ SaveEnd(p) \/ Kill(p) PROVE SavesLoaded'
    BY <1>6, ExitKeeps DEF SaveFails, SaveEnd, Kill
  <1>7. QED
    BY <1>1, <1>2, <1>3, <1>4, <1>5, <1>6 DEF Next, ExporterStep

\* Only Load of an absent file and a finished save make the file ok.
LEMMA TornStays ==
  ASSUME SavesLoaded, [Next]_vars, fstate = "torn", \A p \in Exporters : ~ loaded[p]
  PROVE  fstate' = "torn"
  <1>1. ASSUME \/ \E m \in Machines, o \in Outcomes, d \in Days : Report(m, o, d)
               \/ OtherMail \/ NextDay \/ Collect \/ UNCHANGED vars
        PROVE  fstate' = "torn"
    BY <1>1 DEF Report, OtherMail, NextDay, Collect, vars
  <1>2. ASSUME NEW p \in Exporters, Open(p) \/ Load(p) \/ Handle(p) \/ SaveFails(p) \/ Kill(p)
        PROVE  fstate' = "torn"
    BY <1>2 DEF Open, Load, Handle, SaveFails, Kill
  <1>3. ASSUME NEW p \in Exporters, SaveBegin(p) PROVE fstate' = "torn"
    BY <1>3 DEF SaveBegin
  <1>4. ASSUME NEW p \in Exporters, SaveEnd(p) PROVE FALSE
    BY <1>4 DEF SaveEnd, SavesLoaded
  <1>5. QED
    BY <1>1, <1>2, <1>3, <1>4 DEF Next, ExporterStep

(***************************************************************************)
(* A catalog cut off by a kill in mid-save is never repaired by a later    *)
(* export (VeeamAgentFreeToZabbix.ps1: the file exists, so it is not made  *)
(* anew, and it cannot be loaded, so there is nothing to save).            *)
(***************************************************************************)
THEOREM TornForGood == Spec => DamageLasts
  <1>1. SavesLoaded /\ [Next]_vars =>
          [(fstate = "torn" /\ \A p \in Exporters : ~ loaded[p]) => fstate' = "torn"]_vars
    BY TornStays
  <1>2. QED
    BY <1>1, SavesLoadedInit, SavesLoadedStep, PTL DEF Spec, DamageLasts

-----------------------------------------------------------------------------
(* What a document holds, also when exports overlap or are killed.           *)

Names == Machines \cup {NoName} \cup OtherNames
Line == [name : Names, date : Nat, at : Nat]
JobType == [name : Names \cup {"default"}, result : {"0", "default"}, date : Nat]

\* Who has reported for which day, and what a name on other mail may lead to.
Reports == {r \in Machines \X Days : reported[r[1]][r[2]] # "none"} \cup (foreign \X Nat)

\* What a line says, or the variables of the loop: nothing, or one of the reports R.
Plain(m, d, R) == (m = NoName /\ d = NoDate) \/ <<m, d>> \in R

\* No name but that of the template's jobs occurs twice.
Distinct(d) == \A i, j \in DOMAIN d : d[i].name = d[j].name /\ d[i].name # "default" => i = j

\* A job of the template, or one that a line has led to.
Known(e, R) == e = Job("default", "default", DefaultDate) \/ Plain(e.name, e.date, R)

\* A document that an export edits, and one that it saves.
Draft(d, R) == d \in Seq(JobType) /\ Distinct(d) /\ \A k \in DOMAIN d : Known(d[k], R)
Saved(d, R) == Draft(d, R) /\ \A k \in DOMAIN d : d[k].name \notin {"default", NoName}

Lines(s, R) == s \in Seq(Line) /\ \A k \in DOMAIN s : Plain(s[k].name, s[k].date, R)

\* The names of a document are those at its places.
LEMMA NamesAt ==
  ASSUME NEW d, NEW m
  PROVE  m \in NamesOf(d) <=> \E k \in DOMAIN d : d[k].name = m
  BY DEF NamesOf, Range

\* The job that a line makes.
LEMMA JobFacts ==
  ASSUME NEW n \in Names, NEW t \in Nat
  PROVE  Job(n, "0", t) \in JobType /\ Job(n, "0", t).name = n /\ Job(n, "0", t).date = t
  BY DEF Job, JobType

\* The edits of one line: the jobs of its name get its date, and there is one more job
\* only where there was none of the name and one to clone.
LEMMA PutFacts ==
  ASSUME NEW d \in Seq(JobType), NEW n \in Names, NEW t \in Nat,
         NEW e, e = Put(d, n, "0", t)
  PROVE  /\ e \in Seq(JobType) /\ Len(d) <= Len(e)
         /\ \A k \in DOMAIN d : /\ k \in DOMAIN e
                                /\ e[k] = IF d[k].name = n THEN Job(n, "0", t) ELSE d[k]
         /\ \A k \in DOMAIN e : \/ k \in DOMAIN d
                                \/ /\ k = Len(d) + 1 /\ e[k] = Job(n, "0", t)
                                   /\ n \notin NamesOf(d) /\ Len(d) >= 2
         /\ Len(d) >= 2 => n \in NamesOf(e)
  <1>j. PICK j \in JobType : j = Job(n, "0", t) /\ j.name = n
    BY JobFacts
  <1>a. PICK a : a = IF n \in NamesOf(d) THEN d ELSE addxml(d, n, "0", t)
    OBVIOUS
  <1>1. e = [k \in DOMAIN a |-> IF a[k].name = n THEN j ELSE a[k]]
    BY <1>a, <1>j DEF Put, Update
  <1>2. ASSUME NEW x \in Seq(JobType), x = a
        PROVE  /\ e \in Seq(JobType) /\ DOMAIN e = DOMAIN x /\ Len(e) = Len(x)
               /\ \A k \in DOMAIN x : e[k] = IF x[k].name = n THEN j ELSE x[k]
    BY <1>1, <1>2
  <1>3. CASE a = d
    <2>1. /\ e \in Seq(JobType) /\ DOMAIN e = DOMAIN d /\ Len(e) = Len(d)
          /\ \A k \in DOMAIN d : e[k] = IF d[k].name = n THEN j ELSE d[k]
      BY <1>2, <1>3
    <2>2. Len(d) >= 2 => n \in NamesOf(d)
      <3>1. SUFFICES ASSUME Len(d) >= 2, n \notin NamesOf(d) PROVE FALSE
        OBVIOUS
      <3>2. d = Append(d, j)
        BY <1>a, <1>j, <1>3, <3>1 DEF addxml
      <3>3. Len(d) = Len(d) + 1 /\ Len(d) \in Nat
        BY <3>2
      <3>4. QED
        BY <3>3
    <2>3. n \in NamesOf(d) => n \in NamesOf(e)
      BY <1>j, <2>1, NamesAt
    <2>l. Len(d) <= Len(e)
      BY <2>1
    <2>4. QED
      BY <1>j, <2>1, <2>2, <2>3, <2>l
  <1>4. CASE a # d
    <2>1. n \notin NamesOf(d) /\ Len(d) >= 2 /\ a = Append(d, j)
      BY <1>a, <1>j, <1>4 DEF addxml
    <2>2. /\ a \in Seq(JobType) /\ Len(a) = Len(d) + 1 /\ DOMAIN a = 1 .. Len(d) + 1
          /\ DOMAIN d = 1 .. Len(d) /\ Len(d) \in Nat
          /\ a[Len(d) + 1] = j /\ \A k \in 1 .. Len(d) : a[k] = d[k]
      BY <2>1
    <2>3. /\ e \in Seq(JobType) /\ DOMAIN e = DOMAIN a /\ Len(e) = Len(a)
          /\ \A k \in DOMAIN a : e[k] = IF a[k].name = n THEN j ELSE a[k]
      BY <1>2, <2>2
    <2>4. e[Len(d) + 1] = j /\ Len(d) + 1 \in DOMAIN e
      BY <1>j, <2>2, <2>3
    <2>5. n \in NamesOf(e)
      BY <1>j, <2>4, NamesAt
    <2>6. \A k \in DOMAIN e : k \in DOMAIN d \/ k = Len(d) + 1
      BY <2>2, <2>3
    <2>7. \A k \in DOMAIN d : k \in DOMAIN e
      BY <2>2, <2>3
    <2>8. Len(d) <= Len(e)
      BY <2>2, <2>3
    <2>9. \A k \in DOMAIN d : e[k] = IF d[k].name = n THEN j ELSE d[k]
      BY <2>2, <2>3, <2>7
    <2>10. QED
      BY <1>j, <2>1, <2>3, <2>4, <2>5, <2>6, <2>7, <2>8, <2>9
  <1>5. QED
    BY <1>3, <1>4

\* A line leaves a draft a draft.
LEMMA PutDraft ==
  ASSUME NEW R, NEW d, Draft(d, R), NEW n \in Names, NEW t \in Nat, Plain(n, t, R)
  PROVE  Draft(Put(d, n, "0", t), R)
  <1>j. PICK j \in JobType : j = Job(n, "0", t) /\ j.name = n /\ j.date = t
    BY JobFacts
  <1>e. PICK e : e = Put(d, n, "0", t)
    OBVIOUS
  <1>d. d \in Seq(JobType) /\ Len(d) \in Nat /\ DOMAIN d = 1 .. Len(d)
    BY DEF Draft
  <1>1. /\ e \in Seq(JobType)
        /\ \A k \in DOMAIN d : e[k] = IF d[k].name = n THEN j ELSE d[k]
        /\ \A k \in DOMAIN e : \/ k \in DOMAIN d
                               \/ k = Len(d) + 1 /\ e[k] = j /\ n \notin NamesOf(d)
    BY <1>d, <1>e, <1>j, PutFacts
  <1>2. \A k \in DOMAIN d : e[k].name = d[k].name /\ (e[k] = d[k] \/ e[k] = j)
    BY <1>1, <1>j
  <1>3. Known(j, R)
    BY <1>j DEF Known
  <1>4. \A k \in DOMAIN e : Known(e[k], R)
    BY <1>1, <1>2, <1>3 DEF Draft
  <1>5. ASSUME NEW x \in DOMAIN e, NEW y \in DOMAIN e, e[x].name = e[y].name, e[x].name # "default"
        PROVE  x = y
    <2>1. CASE x \in DOMAIN d /\ y \in DOMAIN d
      BY <1>2, <1>5, <2>1 DEF Draft, Distinct
    <2>2. ASSUME NEW k \in DOMAIN d PROVE d[k].name = n => n \in NamesOf(d)
      BY NamesAt
    <2>3. CASE x \in DOMAIN d /\ y \notin DOMAIN d
      BY <1>1, <1>2, <1>5, <1>j, <2>2, <2>3
    <2>4. CASE x \notin DOMAIN d /\ y \in DOMAIN d
      BY <1>1, <1>2, <1>5, <1>j, <2>2, <2>4
    <2>5. CASE x \notin DOMAIN d /\ y \notin DOMAIN d
      BY <1>1, <2>5
    <2>6. QED
      BY <2>1, <2>3, <2>4, <2>5
  <1>6. Distinct(e)
    BY <1>5 DEF Distinct
  <1>7. QED
    BY <1>1, <1>4, <1>6, <1>e DEF Draft

\* So does the removal of jobs.
LEMMA SelectDraft ==
  ASSUME NEW R, NEW d, Draft(d, R), NEW places, places \subseteq DOMAIN d
  PROVE  /\ Draft(SelectPlaces(d, places), R)
         /\ \A k \in DOMAIN SelectPlaces(d, places) : \E n \in places : SelectPlaces(d, places)[k] = d[n]
         /\ \A n \in places : \E k \in DOMAIN SelectPlaces(d, places) : SelectPlaces(d, places)[k] = d[n]
  <1>s. PICK s : s = SelectPlaces(d, places)
    OBVIOUS
  <1>d. d \in Seq(JobType)
    BY DEF Draft
  <1>1. s \in Seq(JobType) /\ DOMAIN s = 1 .. Cardinality(places)
    BY <1>s, <1>d, SelectedPlaces
  <1>p. PICK place : TakenFrom(s, d, places, place)
    BY <1>s, <1>d, SelectedPlaces
  <1>2. /\ place \in [1 .. Cardinality(places) -> places]
        /\ \A k \in 1 .. Cardinality(places) : s[k] = d[place[k]]
        /\ \A j, k \in 1 .. Cardinality(places) : place[j] = place[k] => j = k
        /\ \A n \in places : \E k \in 1 .. Cardinality(places) : place[k] = n
    BY <1>p DEF TakenFrom
  <1>3. ASSUME NEW k \in DOMAIN s PROVE place[k] \in DOMAIN d /\ place[k] \in places /\ s[k] = d[place[k]]
    BY <1>1, <1>2
  <1>4. \A k \in DOMAIN s : Known(s[k], R)
    BY <1>3 DEF Draft
  <1>5. Distinct(s)
    <2>1. SUFFICES ASSUME NEW x \in DOMAIN s, NEW y \in DOMAIN s, s[x].name = s[y].name, s[x].name # "default"
                   PROVE  x = y
      BY DEF Distinct
    <2>2. place[x] = place[y]
      BY <1>3, <2>1 DEF Draft, Distinct
    <2>3. QED
      BY <1>1, <1>2, <2>2
  <1>6. \A n \in places : \E k \in DOMAIN s : s[k] = d[n]
    BY <1>1, <1>2
  <1>7. QED
    BY <1>1, <1>3, <1>4, <1>5, <1>6, <1>s DEF Draft

\* After the last line: the jobs of machines that are as new as the limit stay.
LEMMA CleanFacts ==
  ASSUME NEW R, NEW d, Draft(d, R), NEW c \in Nat \ {0}, R \subseteq (Machines \cup OtherNames) \X Nat,
         NEW e, e = Clean(d, c)
  PROVE  /\ Saved(e, R)
         /\ \A k \in DOMAIN e : \E n \in DOMAIN d : e[k] = d[n]
         /\ \A n \in DOMAIN d : d[n].name \in Machines /\ d[n].date >= c =>
              \E k \in DOMAIN e : e[k] = d[n]
  <1> DEFINE One == {k \in DOMAIN d : \A f \in Range(d) : f.name = d[k].name => f.date <= d[k].date}
  <1>1. PICK x : x = SelectPlaces(d, One)
    OBVIOUS
  <1> DEFINE Two == {k \in DOMAIN x : x[k].name # "default"}
  <1>2. PICK y : y = SelectPlaces(x, Two)
    OBVIOUS
  <1> DEFINE Three == {k \in DOMAIN y : y[k].date >= c}
  <1>3. e = SelectPlaces(y, Three)
    BY <1>1, <1>2 DEF Clean, Expire, DropDefault, Dedupe
  <1>4. /\ Draft(x, R)
        /\ \A k \in DOMAIN x : \E n \in One : x[k] = d[n]
        /\ \A n \in One : \E k \in DOMAIN x : x[k] = d[n]
    <2>1. One \subseteq DOMAIN d
      OBVIOUS
    <2> HIDE DEF One
    <2>2. QED
      BY <1>1, <2>1, SelectDraft
  <1>5. /\ Draft(y, R)
        /\ \A k \in DOMAIN y : \E n \in Two : y[k] = x[n]
        /\ \A n \in Two : \E k \in DOMAIN y : y[k] = x[n]
    <2>1. Two \subseteq DOMAIN x
      OBVIOUS
    <2> HIDE DEF Two
    <2>2. QED
      BY <1>2, <1>4, <2>1, SelectDraft
  <1>6. /\ Draft(e, R)
        /\ \A k \in DOMAIN e : \E n \in Three : e[k] = y[n]
        /\ \A n \in Three : \E k \in DOMAIN e : e[k] = y[n]
    <2>1. Three \subseteq DOMAIN y
      OBVIOUS
    <2> HIDE DEF Three
    <2>2. QED
      BY <1>3, <1>5, <2>1, SelectDraft
  <1>7. ASSUME NEW n \in DOMAIN d, d[n].name \in Machines PROVE n \in One
    <2>1. d \in Seq(JobType) /\ Distinct(d)
      BY DEF Draft
    <2>j. PICK job \in JobType : job = d[n]
      BY <2>1
    <2>2. d[n].date \in Nat /\ d[n].name # "default"
      BY <1>7, <2>j, MachinesAssumption DEF JobType
    <2>3. ASSUME NEW f \in Range(d), f.name = d[n].name PROVE f.date <= d[n].date
      <3>1. PICK k \in DOMAIN d : f = d[k]
        BY DEF Range
      <3>2. k = n
        BY <2>1, <2>2, <2>3, <3>1 DEF Distinct
      <3>3. QED
        BY <2>2, <3>1, <3>2
    <2>4. QED
      BY <2>3
  <1>8. ASSUME NEW n \in DOMAIN d, d[n].name \in Machines, d[n].date >= c
        PROVE  \E k \in DOMAIN e : e[k] = d[n]
    <2>1. PICK k \in DOMAIN x : x[k] = d[n]
      BY <1>4, <1>7, <1>8
    <2>2. k \in Two
      BY <1>8, <2>1, MachinesAssumption
    <2>3. PICK j \in DOMAIN y : y[j] = d[n]
      BY <1>5, <2>1, <2>2
    <2>4. j \in Three
      BY <1>8, <2>3
    <2>5. QED
      BY <1>6, <2>3, <2>4
  <1>9. ASSUME NEW k \in DOMAIN e
        PROVE  /\ e[k].name # "default" /\ e[k].date >= c /\ \E n \in DOMAIN d : e[k] = d[n]
    <2>1. PICK n \in Three : e[k] = y[n]
      BY <1>6
    <2>2. PICK m \in Two : y[n] = x[m]
      BY <1>5
    <2>3. PICK j \in One : x[m] = d[j]
      BY <1>4
    <2>4. QED
      BY <2>1, <2>2, <2>3
  <1>10. ASSUME NEW k \in DOMAIN e PROVE e[k].name \notin {"default", NoName}
    <2>1. Known(e[k], R)
      BY <1>6 DEF Draft
    <2>2. e[k].name # "default" /\ e[k].date # 0
      BY <1>9
    <2>3. Job("default", "default", DefaultDate).name = "default"
      BY DEF Job
    <2>4. <<e[k].name, e[k].date>> \in R
      BY <2>1, <2>2, <2>3 DEF Known, Plain, NoDate
    <2>5. e[k].name # NoName
      BY <2>4, MachinesAssumption, OtherMailAssumption DEF NoName
    <2>6. QED
      BY <2>2, <2>5
  <1>11. Saved(e, R)
    BY <1>6, <1>10 DEF Saved
  <1> HIDE DEF One, Two, Three
  <1>12. QED
    BY <1>8, <1>9, <1>11

-----------------------------------------------------------------------------
(* The invariant of all behaviours.                                          *)

WorldInv ==
    /\ today \in Keep + 1 .. MaxDay
    /\ reported \in [Machines -> [Days -> Outcomes \cup {"none"}]]
    /\ foreign \subseteq OtherNames
    /\ Lines(inbox, Reports) /\ Lines(txt, Reports)
    /\ file = Template \/ Saved(file, Reports)

LocalTypes ==
    /\ mails \in [Exporters -> Seq(Line)] /\ next \in [Exporters -> Nat \ {0}]
    /\ cutoff \in [Exporters -> Nat] /\ doc \in [Exporters -> Seq(JobType)]
    /\ machine \in [Exporters -> Names] /\ date \in [Exporters -> Nat]

ExporterInv(p) ==
    /\ Lines(mails[p], Reports) /\ Plain(machine[p], date[p], Reports)
    /\ Draft(doc[p], Reports)
    /\ pc[p] # "idle" => cutoff[p] \in 1 .. today - Keep
    /\ pc[p] = "save" => Saved(doc[p], Reports)

CatalogInv == SavesLoaded /\ WorldInv /\ LocalTypes /\ \A p \in Exporters : ExporterInv(p)

\* Nothing happens to exporter q.
Same(q) ==
    /\ pc'[q] = pc[q] /\ mails'[q] = mails[q] /\ next'[q] = next[q] /\ cutoff'[q] = cutoff[q]
    /\ loaded'[q] = loaded[q] /\ doc'[q] = doc[q] /\ machine'[q] = machine[q] /\ date'[q] = date[q]

\* The numbers the clock and the limits are.
LEMMA Numbers ==
  ASSUME WorldInv
  PROVE  /\ Keep \in Nat \ {0} /\ MaxDay \in Nat /\ today \in Nat /\ today > Keep /\ today <= MaxDay
         /\ Days \subseteq Nat \ {0} /\ DefaultDate \in Nat
         /\ Reports \subseteq (Machines \cup OtherNames) \X Nat
         /\ \A m, d : <<m, d>> \in Reports /\ m \notin foreign => m \in Machines /\ d \in Days
  <1>1. Keep \in Nat \ {0} /\ DefaultDate \in Nat
    BY SizesAssumption DEF DefaultDate
  <1>2. MaxDay \in Nat
    BY <1>1, SizesAssumption
  <1>3. today \in Nat /\ today > Keep /\ today <= MaxDay
    BY <1>1, <1>2 DEF WorldInv
  <1>4. Days \subseteq Nat \ {0}
    BY <1>1, <1>2 DEF Days
  <1>5. \A m, d : <<m, d>> \in Reports /\ m \notin foreign => m \in Machines /\ d \in Days
    BY DEF Reports
  <1>6. Reports \subseteq (Machines \cup OtherNames) \X Nat
    BY <1>4 DEF Reports, WorldInv
  <1>7. QED
    BY <1>1, <1>2, <1>3, <1>4, <1>5, <1>6

\* The first document is a draft, and so is an empty one.
LEMMA FirstDrafts ==
  ASSUME NEW R
  PROVE  Draft(Template, R) /\ Draft(<<>>, R) /\ Lines(<<>>, R) /\ Saved(<<>>, R)
  <1>d. DefaultDate \in Nat
    BY DEF DefaultDate
  <1>t. Job("default", "default", DefaultDate) \in JobType
        /\ Job("default", "default", DefaultDate).name = "default"
    BY <1>d DEF Job, JobType
  <1>j. PICK j : j = Job("default", "default", DefaultDate) /\ j \in JobType /\ j.name = "default"
    BY <1>t
  <1>1. Template = <<j, j>>
    BY <1>j DEF Template
  <1>2. <<j, j>> \in Seq(JobType) /\ \A k \in DOMAIN <<j, j>> : <<j, j>>[k] = j
    BY <1>j
  <1>3. Known(j, R)
    BY <1>j DEF Known
  <1>4. Draft(<<j, j>>, R)
    BY <1>2, <1>3, <1>j DEF Draft, Distinct
  <1>5. <<>> \in Seq(JobType) /\ <<>> \in Seq(Line) /\ DOMAIN <<>> = {}
    OBVIOUS
  <1>6. QED
    BY <1>1, <1>4, <1>5 DEF Draft, Distinct, Lines, Saved

\* More reports do no harm.
LEMMA MoreReports ==
  ASSUME NEW R, NEW Q, R \subseteq Q, NEW d
  PROVE  /\ Draft(d, R) => Draft(d, Q)
         /\ Saved(d, R) => Saved(d, Q)
         /\ Lines(d, R) => Lines(d, Q)
         /\ \A m, t : Plain(m, t, R) => Plain(m, t, Q)
  BY DEF Draft, Saved, Lines, Known, Plain

\* An exporter that nothing happens to keeps its part of the invariant.
LEMMA SameExporter ==
  ASSUME NEW p \in Exporters, ExporterInv(p), Same(p), Reports \subseteq Reports',
         Keep \in Nat, today \in Nat, today' \in Nat, today <= today'
  PROVE  ExporterInv(p)'
  <1>i. \A a, b, k \in Nat : a <= b => \A c \in 1 .. a - k : c \in 1 .. b - k
    OBVIOUS
  <1>1. \A c \in 1 .. today - Keep : c \in 1 .. today' - Keep
    BY <1>i, Zenon
  <1>2. /\ Lines(mails'[p], Reports') /\ Plain(machine'[p], date'[p], Reports')
        /\ Draft(doc'[p], Reports')
        /\ pc[p] = "save" => Saved(doc'[p], Reports')
    BY MoreReports DEF ExporterInv, Same
  <1>3. QED
    BY <1>1, <1>2 DEF ExporterInv, Same

\* The same for all.
LEMMA SameExporters ==
  ASSUME CatalogInv, UNCHANGED <<pc, mails, next, cutoff, loaded, doc, machine, date>>,
         Reports \subseteq Reports', WorldInv', today <= today', SavesLoaded'
  PROVE  CatalogInv'
  <1>1. LocalTypes'
    BY DEF CatalogInv, LocalTypes
  <1>n. Keep \in Nat /\ today \in Nat /\ today' \in Nat
    <2>1. Keep \in Nat /\ MaxDay \in Nat /\ today \in Nat
      BY Numbers DEF CatalogInv
    <2>2. QED
      BY <2>1 DEF WorldInv
  <1>2. ASSUME NEW p \in Exporters PROVE ExporterInv(p)'
    BY <1>n, SameExporter DEF CatalogInv, Same
  <1>3. QED
    BY <1>1, <1>2 DEF CatalogInv

\* One more line.
LEMMA LineAdded ==
  ASSUME NEW R, NEW s, Lines(s, R), NEW m \in Names, NEW d \in Nat, NEW t \in Nat, Plain(m, d, R)
  PROVE  Lines(Append(s, Subject(m, d, t)), R)
  <1>x. Subject(m, d, t) \in Line /\ Subject(m, d, t).name = m /\ Subject(m, d, t).date = d
    BY DEF Subject, Line
  <1>1. PICK x \in Line : x = Subject(m, d, t) /\ x.name = m /\ x.date = d
    BY <1>x
  <1>2. s \in Seq(Line) /\ \A k \in DOMAIN s : Plain(s[k].name, s[k].date, R)
    BY DEF Lines
  <1>3. Append(s, x) \in Seq(Line)
        /\ \A k \in DOMAIN Append(s, x) : Append(s, x)[k] = x \/ (k \in DOMAIN s /\ Append(s, x)[k] = s[k])
    BY <1>2
  <1>4. QED
    BY <1>1, <1>2, <1>3 DEF Lines

\* Some of the lines.
LEMMA LinesLeft ==
  ASSUME NEW R, NEW s, Lines(s, R)
  PROVE  /\ \A places \in SUBSET DOMAIN s : Lines(SelectPlaces(s, places), R)
         /\ \A n \in 0 .. Len(s) : Lines(SubSeq(s, 1, n), R)
  <1>1. s \in Seq(Line) /\ \A k \in DOMAIN s : Plain(s[k].name, s[k].date, R)
    BY DEF Lines
  <1>2. ASSUME NEW places \in SUBSET DOMAIN s PROVE Lines(SelectPlaces(s, places), R)
    <2>1. PICK t : t = SelectPlaces(s, places)
      OBVIOUS
    <2>2. t \in Seq(Line) /\ \A k \in DOMAIN t : \E n \in places : t[k] = s[n]
      BY <1>1, <2>1, SelectedElements
    <2>3. \A k \in DOMAIN t : Plain(t[k].name, t[k].date, R)
      BY <1>1, <2>2
    <2>4. QED
      BY <2>1, <2>2, <2>3 DEF Lines
  <1>3. ASSUME NEW n \in 0 .. Len(s) PROVE Lines(SubSeq(s, 1, n), R)
    <2>1. /\ SubSeq(s, 1, n) \in Seq(Line)
          /\ \A k \in DOMAIN SubSeq(s, 1, n) : k \in DOMAIN s /\ SubSeq(s, 1, n)[k] = s[k]
      BY <1>1
    <2>2. QED
      BY <1>1, <2>1 DEF Lines
  <1>4. QED
    BY <1>2, <1>3

\* A report is one more report and one more line.
LEMMA ReportAdds ==
  ASSUME WorldInv, NEW m \in Machines, NEW o \in Outcomes, NEW d \in Days, Report(m, o, d)
  PROVE  /\ WorldInv' /\ Reports' = Reports \cup {<<m, d>>}
         /\ inbox' = Append(inbox, Subject(m, d, today))
         /\ d = today \/ d = today - 1
         /\ UNCHANGED <<today, foreign, txt, fstate, file, pc, locals>>
  <1>1. /\ reported' = [reported EXCEPT ![m][d] = o] /\ inbox' = Append(inbox, Subject(m, d, today))
        /\ d = today \/ d = today - 1
        /\ UNCHANGED <<today, foreign, txt, fstate, file, pc, locals>>
    BY DEF Report
  <1>2. /\ reported' \in [Machines -> [Days -> Outcomes \cup {"none"}]] /\ reported'[m][d] = o
        /\ \A n \in Machines, t \in Days : <<n, t>> # <<m, d>> => reported'[n][t] = reported[n][t]
    BY <1>1 DEF WorldInv
  <1>3. o # "none"
    BY OutcomesAssumption
  <1>4. Reports' = Reports \cup {<<m, d>>}
    <2> DEFINE Old == {r \in Machines \X Days : reported[r[1]][r[2]] # "none"}
               New == {r \in Machines \X Days : reported'[r[1]][r[2]] # "none"}
    <2>1. ASSUME NEW n \in Machines, NEW t \in Days
          PROVE  <<n, t>> \in New <=> <<n, t>> \in Old \cup {<<m, d>>}
      BY <1>2, <1>3
    <2>2. Old \subseteq Machines \X Days /\ New \subseteq Machines \X Days
      OBVIOUS
    <2>3. New = Old \cup {<<m, d>>}
      BY <2>1, <2>2
    <2>4. Reports = Old \cup (foreign \X Nat) /\ Reports' = New \cup (foreign \X Nat)
      BY <1>1 DEF Reports
    <2>5. QED
      BY <2>3, <2>4
  <1>5. Reports \subseteq Reports' /\ Plain(m, d, Reports')
    BY <1>4 DEF Plain
  <1>6. Lines(inbox', Reports')
    <2>1. m \in Names /\ d \in Nat /\ today \in Nat
      BY Numbers DEF Names
    <2>2. Lines(inbox, Reports')
      BY <1>5, MoreReports DEF WorldInv
    <2>3. QED
      BY <1>1, <1>5, <2>1, <2>2, LineAdded
  <1>7. Lines(txt', Reports') /\ (file' = Template \/ Saved(file', Reports'))
    BY <1>1, <1>5, MoreReports DEF WorldInv
  <1>8. WorldInv'
    BY <1>1, <1>2, <1>6, <1>7 DEF WorldInv
  <1>9. QED
    BY <1>1, <1>4, <1>8

\* What another mail adds: a line that is empty or carries a foreign name.
LEMMA OtherAdds ==
  ASSUME WorldInv, OtherMail
  PROVE  \E n \in Names, d \in Nat :
           /\ inbox' = Append(inbox, Subject(n, d, today)) /\ Plain(n, d, Reports')
           /\ n = NoName \/ n \in foreign'
           /\ foreign \subseteq foreign' /\ foreign' \subseteq OtherNames
           /\ UNCHANGED <<today, reported, txt, fstate, file, pc, locals>>
  <1>1. PICK n \in OtherNames \cup {NoName}, d \in OtherDates \cup {NoDate} :
           /\ n = NoName => d = NoDate
           /\ inbox' = Append(inbox, Subject(n, d, today))
           /\ foreign' = foreign \cup ({n} \ {NoName})
           /\ UNCHANGED <<today, reported, txt, fstate, file, pc, locals>>
    BY DEF OtherMail
  <1>o. OtherDates \subseteq Nat /\ 0 \in Nat
    BY OtherMailAssumption
  <1>2. n \in Names /\ d \in Nat
    BY <1>o DEF Names, NoDate
  <1>3. foreign \subseteq foreign' /\ foreign' \subseteq OtherNames /\ (n = NoName \/ n \in foreign')
    BY <1>1 DEF WorldInv
  <1>4. Plain(n, d, Reports')
    BY <1>1, <1>2, <1>3 DEF Plain, Reports
  <1>5. QED
    BY <1>1, <1>2, <1>3, <1>4

\* Another mail, a new day and the collection of the subjects.
LEMMA MailboxKeeps ==
  ASSUME WorldInv, OtherMail \/ NextDay \/ Collect \/ UNCHANGED vars
  PROVE  WorldInv' /\ Reports \subseteq Reports' /\ today <= today'
  <1>1. UNCHANGED <<reported, file>> /\ foreign \subseteq foreign' /\ foreign' \subseteq OtherNames
    <2>1. CASE OtherMail
      BY <2>1, OtherAdds
    <2>2. CASE NextDay \/ Collect \/ UNCHANGED vars
      BY <2>2 DEF NextDay, Collect, vars, WorldInv
    <2>3. QED
      BY <2>1, <2>2
  <1>2. Reports \subseteq Reports'
    BY <1>1 DEF Reports
  <1>3. \/ /\ today' = today /\ UNCHANGED txt
           /\ \E n \in Names, d \in Nat :
                inbox' = Append(inbox, Subject(n, d, today)) /\ Plain(n, d, Reports')
        \/ /\ today < MaxDay /\ today' = today + 1 /\ UNCHANGED txt
           /\ inbox' = SelectPlaces(inbox, {k \in DOMAIN inbox : inbox[k].at >= today})
        \/ /\ today' = today /\ UNCHANGED inbox
           /\ \E n \in 0 .. Len(inbox) : txt' = SubSeq(inbox, 1, n)
        \/ UNCHANGED <<today, inbox, txt>>
    <2>1. inbox \in Seq(Line)
      BY DEF WorldInv, Lines
    <2>2. Len(inbox) \in 0 .. Len(inbox)
      BY <2>1
    <2>3. CASE OtherMail
      BY <2>3, OtherAdds
    <2>4. CASE NextDay \/ Collect \/ UNCHANGED vars
      BY <2>2, <2>4 DEF NextDay, Collect, vars
    <2>5. QED
      BY <2>3, <2>4
  <1>4. today' \in Keep + 1 .. MaxDay /\ today <= today'
    BY <1>3, Numbers DEF WorldInv
  <1>5. Lines(inbox', Reports') /\ Lines(txt', Reports')
    <2>1. Lines(inbox, Reports') /\ Lines(txt, Reports') /\ today \in Nat
      BY <1>2, Numbers, MoreReports DEF WorldInv
    <2>2. \A n \in Names, d \in Nat : Plain(n, d, Reports') =>
            Lines(Append(inbox, Subject(n, d, today)), Reports')
      BY <2>1, LineAdded
    <2>3. Lines(SelectPlaces(inbox, {k \in DOMAIN inbox : inbox[k].at >= today}), Reports')
      BY <2>1, LinesLeft
    <2>4. \A n \in 0 .. Len(inbox) : Lines(SubSeq(inbox, 1, n), Reports')
      BY <2>1, LinesLeft
    <2>5. QED
      BY <1>3, <2>1, <2>2, <2>3, <2>4
  <1>6. file' = Template \/ Saved(file', Reports')
    BY <1>1, <1>2, MoreReports DEF WorldInv
  <1>7. WorldInv'
    BY <1>1, <1>4, <1>5, <1>6 DEF WorldInv
  <1>8. QED
    BY <1>2, <1>4, <1>7

-----------------------------------------------------------------------------
(* What the steps of an exporter do, spelled out for every exporter.         *)

\* The start.
LEMMA OpenValues ==
  ASSUME SavesLoaded, LocalTypes, NEW p \in Exporters, Open(p)
  PROVE  /\ pc[p] = "idle" /\ pc'[p] = "open" /\ mails'[p] = txt /\ cutoff'[p] = today - Keep
         /\ doc'[p] = IF fstate = "ok" THEN file ELSE <<>>
         /\ loaded'[p] => fstate = "ok"
         /\ next'[p] = next[p] /\ machine'[p] = machine[p] /\ date'[p] = date[p]
         /\ \A q \in Exporters : q # p => Same(q)
         /\ UNCHANGED <<world, fstate, file, next, machine, date>>
  <1>1. /\ pc[p] = "idle" /\ pc' = [pc EXCEPT ![p] = "open"]
        /\ loaded' = [loaded EXCEPT ![p] = (fstate = "ok")]
        /\ doc' = [doc EXCEPT ![p] = IF fstate = "ok" THEN file ELSE <<>>]
        /\ mails' = [mails EXCEPT ![p] = txt] /\ cutoff' = [cutoff EXCEPT ![p] = today - Keep]
        /\ UNCHANGED <<world, fstate, file, next, machine, date>>
    BY DEF Open
  <1>2. /\ loaded'[p] = (fstate = "ok")
        /\ \A q \in Exporters : q # p => loaded'[q] = loaded[q]
    BY <1>1, Zenon DEF SavesLoaded
  <1>3. loaded'[p] => fstate = "ok"
    BY <1>2, Zenon
  <1>4. /\ pc'[p] = "open" /\ mails'[p] = txt /\ cutoff'[p] = today - Keep
        /\ doc'[p] = IF fstate = "ok" THEN file ELSE <<>>
    BY <1>1 DEF SavesLoaded, LocalTypes
  <1>5. \A q \in Exporters : q # p =>
          /\ pc'[q] = pc[q] /\ mails'[q] = mails[q] /\ cutoff'[q] = cutoff[q] /\ doc'[q] = doc[q]
    BY <1>1 DEF SavesLoaded, LocalTypes
  <1>6. \A q \in Exporters : q # p => Same(q)
    BY <1>1, <1>2, <1>5 DEF Same
  <1>7. QED
    BY <1>1, <1>3, <1>4, <1>6

\* The second reading of the catalog.
LEMMA LoadValues ==
  ASSUME SavesLoaded, LocalTypes, NEW p \in Exporters, Load(p)
  PROVE  /\ pc[p] = "open" /\ pc'[p] = "loop"
         /\ file' = IF fstate = "absent" THEN Template ELSE file
         /\ fstate' = IF fstate = "absent" THEN "ok" ELSE fstate
         /\ doc'[p] = IF fstate = "torn" THEN doc[p] ELSE file'
         /\ fstate = "torn" => loaded'[p] = loaded[p]
         /\ mails'[p] = mails[p] /\ next'[p] = next[p] /\ cutoff'[p] = cutoff[p]
         /\ machine'[p] = machine[p] /\ date'[p] = date[p]
         /\ \A q \in Exporters : q # p => Same(q)
         /\ UNCHANGED <<world, mails, next, cutoff, machine, date>>
         /\ doc' = [doc EXCEPT ![p] = doc'[p]]
  <1>1. /\ pc[p] = "open" /\ pc' = [pc EXCEPT ![p] = "loop"]
        /\ file' = IF fstate = "absent" THEN Template ELSE file
        /\ fstate' = IF fstate = "absent" THEN "ok" ELSE fstate
        /\ \/ fstate = "torn" /\ UNCHANGED <<loaded, doc>>
           \/ /\ fstate # "torn" /\ loaded' = [loaded EXCEPT ![p] = TRUE]
              /\ doc' = [doc EXCEPT ![p] = file']
        /\ UNCHANGED <<world, mails, next, cutoff, machine, date>>
    BY DEF Load
  <1>2. \A q \in Exporters : q # p => pc'[q] = pc[q] /\ loaded'[q] = loaded[q] /\ doc'[q] = doc[q]
    BY <1>1 DEF SavesLoaded, LocalTypes
  <1>3. \A q \in Exporters : q # p => Same(q)
    BY <1>1, <1>2 DEF Same
  <1>4. /\ pc'[p] = "loop" /\ doc'[p] = IF fstate = "torn" THEN doc[p] ELSE file'
        /\ fstate = "torn" => loaded'[p] = loaded[p]
        /\ doc' = [doc EXCEPT ![p] = doc'[p]]
    BY <1>1 DEF SavesLoaded, LocalTypes
  <1>5. QED
    BY <1>1, <1>3, <1>4

\* One line.
LEMMA HandleValues ==
  ASSUME SavesLoaded, LocalTypes, NEW p \in Exporters, Handle(p)
  PROVE  /\ pc[p] = "loop" /\ next[p] <= Len(mails[p])
         /\ machine'[p] = IF mails[p][next[p]].name = NoName THEN machine[p] ELSE mails[p][next[p]].name
         /\ date'[p] = IF mails[p][next[p]].date = NoDate THEN date[p] ELSE mails[p][next[p]].date
         /\ doc'[p] = IF loaded[p] THEN Put(doc[p], machine'[p], "0", date'[p]) ELSE doc[p]
         /\ next'[p] = next[p] + 1
         /\ \A q \in Exporters : q # p => Same(q)
         /\ UNCHANGED <<world, fstate, file, pc, mails, cutoff, loaded>>
         /\ machine' = [machine EXCEPT ![p] = machine'[p]]
         /\ date' = [date EXCEPT ![p] = date'[p]]
         /\ doc' = [doc EXCEPT ![p] = doc'[p]]
         /\ next' = [next EXCEPT ![p] = next'[p]]
  <1>s. PICK s : s = mails[p][next[p]]
    OBVIOUS
  <1>1. /\ pc[p] = "loop" /\ next[p] <= Len(mails[p])
        /\ machine' = [machine EXCEPT ![p] = IF s.name = NoName THEN machine[p] ELSE s.name]
        /\ date' = [date EXCEPT ![p] = IF s.date = NoDate THEN date[p] ELSE s.date]
        /\ doc' = [doc EXCEPT ![p] =
                     IF loaded[p] THEN Put(doc[p], machine'[p], "0", date'[p]) ELSE doc[p]]
        /\ next' = [next EXCEPT ![p] = next[p] + 1]
        /\ UNCHANGED <<world, fstate, file, pc, mails, cutoff, loaded>>
    BY <1>s DEF Handle
  <1>2. \A q \in Exporters : q # p =>
          machine'[q] = machine[q] /\ date'[q] = date[q] /\ doc'[q] = doc[q] /\ next'[q] = next[q]
    BY <1>1 DEF LocalTypes
  <1>3. \A q \in Exporters : q # p => Same(q)
    BY <1>1, <1>2 DEF Same
  <1>4. /\ machine'[p] = IF s.name = NoName THEN machine[p] ELSE s.name
        /\ date'[p] = IF s.date = NoDate THEN date[p] ELSE s.date
        /\ next'[p] = next[p] + 1
    BY <1>1 DEF LocalTypes
  <1>5. doc'[p] = IF loaded[p] THEN Put(doc[p], machine'[p], "0", date'[p]) ELSE doc[p]
    BY <1>1 DEF LocalTypes
  <1>6. QED
    BY <1>1, <1>3, <1>4, <1>5, <1>s

\* The clean-up, and the beginning of the save.
LEMMA SaveValues ==
  ASSUME SavesLoaded, LocalTypes, NEW p \in Exporters, SaveBegin(p)
  PROVE  /\ pc[p] = "loop" /\ pc'[p] = "save" /\ next[p] > Len(mails[p]) /\ loaded[p]
         /\ doc'[p] = Clean(doc[p], cutoff[p]) /\ fstate' = "torn"
         /\ mails'[p] = mails[p] /\ next'[p] = next[p] /\ cutoff'[p] = cutoff[p]
         /\ machine'[p] = machine[p] /\ date'[p] = date[p] /\ loaded'[p] = loaded[p]
         /\ \A q \in Exporters : q # p => Same(q)
         /\ UNCHANGED <<world, file, mails, next, cutoff, loaded, machine, date>>
         /\ doc' = [doc EXCEPT ![p] = doc'[p]]
  <1>1. /\ pc[p] = "loop" /\ pc' = [pc EXCEPT ![p] = "save"] /\ next[p] > Len(mails[p]) /\ loaded[p]
        /\ doc' = [doc EXCEPT ![p] = Clean(doc[p], cutoff[p])] /\ fstate' = "torn"
        /\ UNCHANGED <<world, file, mails, next, cutoff, loaded, machine, date>>
    BY DEF SaveBegin, CanSave
  <1>2. /\ \A q \in Exporters : q # p => pc'[q] = pc[q] /\ doc'[q] = doc[q]
        /\ pc'[p] = "save" /\ doc'[p] = Clean(doc[p], cutoff[p])
    BY <1>1 DEF SavesLoaded, LocalTypes
  <1>3. \A q \in Exporters : q # p => Same(q)
    BY <1>1, <1>2 DEF Same
  <1>4. doc' = [doc EXCEPT ![p] = doc'[p]]
    BY <1>1, <1>2
  <1>5. QED
    BY <1>1, <1>2, <1>3, <1>4

\* The end of the process.
LEMMA ExitValues ==
  ASSUME SavesLoaded, LocalTypes, NEW p \in Exporters, Exit(p)
  PROVE  /\ pc'[p] = "idle" /\ mails'[p] = <<>> /\ next'[p] = 1 /\ cutoff'[p] = 0
         /\ doc'[p] = <<>> /\ machine'[p] = NoName /\ date'[p] = NoDate
         /\ \A q \in Exporters : q # p => Same(q)
         /\ LocalTypes'
  <1>1. /\ pc' = [pc EXCEPT ![p] = "idle"] /\ mails' = [mails EXCEPT ![p] = <<>>]
        /\ next' = [next EXCEPT ![p] = 1] /\ cutoff' = [cutoff EXCEPT ![p] = 0]
        /\ loaded' = [loaded EXCEPT ![p] = FALSE] /\ doc' = [doc EXCEPT ![p] = <<>>]
        /\ machine' = [machine EXCEPT ![p] = NoName] /\ date' = [date EXCEPT ![p] = NoDate]
    BY DEF Exit
  <1>2. /\ pc'[p] = "idle" /\ mails'[p] = <<>> /\ next'[p] = 1 /\ cutoff'[p] = 0
        /\ doc'[p] = <<>> /\ machine'[p] = NoName /\ date'[p] = NoDate
    BY <1>1 DEF SavesLoaded, LocalTypes
  <1>3. \A q \in Exporters : q # p =>
          /\ pc'[q] = pc[q] /\ mails'[q] = mails[q] /\ next'[q] = next[q] /\ cutoff'[q] = cutoff[q]
          /\ loaded'[q] = loaded[q]
    BY <1>1 DEF SavesLoaded, LocalTypes
  <1>4. \A q \in Exporters : q # p =>
          doc'[q] = doc[q] /\ machine'[q] = machine[q] /\ date'[q] = date[q]
    BY <1>1 DEF LocalTypes
  <1>5. <<>> \in Seq(Line) /\ <<>> \in Seq(JobType) /\ NoName \in Names /\ NoDate \in Nat
        /\ 1 \in Nat \ {0} /\ 0 \in Nat
    BY DEF Names, NoDate
  <1>6. LocalTypes'
    BY <1>1, <1>5 DEF LocalTypes
  <1>7. QED
    BY <1>2, <1>3, <1>4, <1>6 DEF Same

-----------------------------------------------------------------------------
(* Every step keeps the invariant.                                           *)

\* A step of one exporter, given what it does to its own part.
LEMMA OneExporterMoves ==
  ASSUME CatalogInv, NEW p \in Exporters, UNCHANGED world, SavesLoaded', LocalTypes',
         file' = Template \/ Saved(file', Reports), ExporterInv(p)',
         \A q \in Exporters : q # p => Same(q)
  PROVE  CatalogInv'
  <1>1. UNCHANGED <<today, inbox, reported, foreign, txt>>
    BY DEF world
  <1>2. Reports' = Reports
    BY <1>1 DEF Reports
  <1>3. WorldInv'
    BY <1>1, <1>2 DEF CatalogInv, WorldInv
  <1>4. Keep \in Nat /\ today \in Nat /\ today' \in Nat /\ today <= today'
    BY <1>1, Numbers DEF CatalogInv
  <1>5. ASSUME NEW q \in Exporters, q # p PROVE ExporterInv(q)'
    BY <1>2, <1>4, <1>5, SameExporter DEF CatalogInv
  <1>6. QED
    BY <1>3, <1>5 DEF CatalogInv

\* The initial state.
LEMMA CatalogInitially == Init => CatalogInv
  <1> SUFFICES ASSUME Init PROVE CatalogInv
    OBVIOUS
  <1>k. Keep \in Nat \ {0} /\ MaxDay \in Keep + 1 .. DefaultDate - 1 /\ DefaultDate \in Nat
    BY SizesAssumption DEF DefaultDate
  <1>1. WorldInv
    <2>1. today \in Keep + 1 .. MaxDay
      BY <1>k DEF Init
    <2>2. Lines(<<>>, Reports) /\ Saved(<<>>, Reports)
      BY FirstDrafts
    <2>3. QED
      BY <2>1, <2>2 DEF Init, WorldInv
  <1>2. LocalTypes
    <2>1. <<>> \in Seq(Line) /\ <<>> \in Seq(JobType) /\ NoName \in Names /\ NoDate \in Nat
          /\ 1 \in Nat \ {0} /\ 0 \in Nat
      BY DEF Names, NoDate
    <2>2. QED
      BY <2>1 DEF Init, LocalTypes
  <1>3. ASSUME NEW p \in Exporters PROVE ExporterInv(p)
    BY FirstDrafts DEF Init, ExporterInv, Plain
  <1>4. QED
    BY <1>1, <1>2, <1>3, SavesLoadedInit DEF CatalogInv

\* The mailbox and the collection.
LEMMA MailboxInv ==
  ASSUME CatalogInv, SavesLoaded',
         \/ \E m \in Machines, o \in Outcomes, d \in Days : Report(m, o, d)
         \/ OtherMail \/ NextDay \/ Collect \/ UNCHANGED vars
  PROVE  CatalogInv'
  <1>1. UNCHANGED <<pc, mails, next, cutoff, loaded, doc, machine, date>>
    BY DEF Report, OtherMail, NextDay, Collect, vars, locals
  <1>2. WorldInv' /\ Reports \subseteq Reports' /\ today <= today'
    <2>1. ASSUME NEW m \in Machines, NEW o \in Outcomes, NEW d \in Days, Report(m, o, d)
          PROVE  WorldInv' /\ Reports \subseteq Reports' /\ today <= today'
      <3>1. WorldInv' /\ Reports' = Reports \cup {<<m, d>>} /\ today' = today
        BY <2>1, ReportAdds DEF CatalogInv
      <3>2. today \in Nat
        BY Numbers DEF CatalogInv
      <3>3. QED
        BY <3>1, <3>2
    <2>2. CASE OtherMail \/ NextDay \/ Collect \/ UNCHANGED vars
      BY <2>2, MailboxKeeps DEF CatalogInv
    <2>3. QED
      BY <2>1, <2>2
  <1>3. QED
    BY <1>1, <1>2, SameExporters

\* The start of an export.
LEMMA OpenInv ==
  ASSUME CatalogInv, SavesLoaded', NEW p \in Exporters, Open(p)
  PROVE  CatalogInv'
  <1>1. /\ pc'[p] = "open" /\ mails'[p] = txt /\ cutoff'[p] = today - Keep
        /\ doc'[p] = IF fstate = "ok" THEN file ELSE <<>>
        /\ machine'[p] = machine[p] /\ date'[p] = date[p]
        /\ \A q \in Exporters : q # p => Same(q)
        /\ UNCHANGED <<world, fstate, file, next, machine, date>>
    BY OpenValues DEF CatalogInv
  <1>2. UNCHANGED <<today, reported, foreign>> /\ UNCHANGED world
    BY <1>1 DEF world
  <1>3. Reports' = Reports
    BY <1>2 DEF Reports
  <1>4. Draft(file, Reports) /\ Draft(<<>>, Reports) /\ Lines(txt, Reports)
    BY FirstDrafts DEF CatalogInv, WorldInv, Saved
  <1>5. Draft(doc'[p], Reports)
    BY <1>1, <1>4
  <1>6. today - Keep \in 1 .. today - Keep /\ today - Keep \in Nat
    <2>1. Keep \in Nat /\ today \in Nat /\ today > Keep
      BY Numbers DEF CatalogInv
    <2>2. QED
      BY <2>1
  <1>7. ExporterInv(p)'
    BY <1>1, <1>2, <1>3, <1>4, <1>5, <1>6 DEF ExporterInv, CatalogInv
  <1>8. LocalTypes'
    <2>1. doc'[p] \in Seq(JobType) /\ txt \in Seq(Line)
      BY <1>4, <1>5 DEF Draft, Lines
    <2>2. /\ mails' = [mails EXCEPT ![p] = txt] /\ cutoff' = [cutoff EXCEPT ![p] = today - Keep]
          /\ doc' = [doc EXCEPT ![p] = IF fstate = "ok" THEN file ELSE <<>>]
      BY DEF Open
    <2>3. QED
      BY <1>1, <1>6, <2>1, <2>2 DEF CatalogInv, LocalTypes
  <1>9. file' = Template \/ Saved(file', Reports)
    BY <1>1 DEF CatalogInv, WorldInv
  <1>10. QED
    BY <1>1, <1>2, <1>7, <1>8, <1>9, OneExporterMoves

\* The catalog is read again.
LEMMA LoadInv ==
  ASSUME CatalogInv, SavesLoaded', NEW p \in Exporters, Load(p)
  PROVE  CatalogInv'
  <1>1. /\ pc[p] = "open" /\ pc'[p] = "loop"
        /\ file' = IF fstate = "absent" THEN Template ELSE file
        /\ doc'[p] = IF fstate = "torn" THEN doc[p] ELSE file'
        /\ \A q \in Exporters : q # p => Same(q)
        /\ UNCHANGED <<world, mails, next, cutoff, machine, date>>
        /\ doc' = [doc EXCEPT ![p] = doc'[p]]
    BY LoadValues DEF CatalogInv
  <1>2. UNCHANGED <<today, reported, foreign>> /\ UNCHANGED world
    BY <1>1 DEF world
  <1>3. Reports' = Reports
    BY <1>2 DEF Reports
  <1>4. file' = Template \/ Saved(file', Reports)
    BY <1>1 DEF CatalogInv, WorldInv
  <1>5. Draft(doc'[p], Reports)
    BY <1>1, <1>4, FirstDrafts DEF CatalogInv, ExporterInv, Saved
  <1>6. ExporterInv(p)'
    BY <1>1, <1>2, <1>3, <1>5 DEF ExporterInv, CatalogInv
  <1>7. LocalTypes'
    <2>1. doc'[p] \in Seq(JobType)
      BY <1>5 DEF Draft
    <2>2. QED
      BY <1>1, <2>1 DEF CatalogInv, LocalTypes
  <1>8. QED
    BY <1>1, <1>2, <1>4, <1>6, <1>7, OneExporterMoves

\* The name and the date after line n are those of the line, as far as it has them.
Follows(s, n, m, t, mm, tt) ==
    \/ s[n].name = NoName /\ mm = m /\ tt = t
    \/ /\ s[n].name # NoName /\ mm = s[n].name
       /\ tt = s[n].date \/ s[n].date = NoDate

\* The variables of the loop hold what some line said, or nothing.
LEMMA LinePlain ==
  ASSUME CatalogInv, NEW p \in Exporters, Handle(p)
  PROVE  /\ next[p] \in DOMAIN mails[p]
         /\ machine'[p] \in Names /\ date'[p] \in Nat /\ Plain(machine'[p], date'[p], Reports)
         /\ Follows(mails[p], next[p], machine[p], date[p], machine'[p], date'[p])
  <1>1. /\ next[p] <= Len(mails[p])
        /\ machine'[p] = IF mails[p][next[p]].name = NoName THEN machine[p] ELSE mails[p][next[p]].name
        /\ date'[p] = IF mails[p][next[p]].date = NoDate THEN date[p] ELSE mails[p][next[p]].date
    BY HandleValues DEF CatalogInv
  <1>2. /\ mails[p] \in Seq(Line) /\ next[p] \in Nat \ {0} /\ machine[p] \in Names /\ date[p] \in Nat
        /\ Lines(mails[p], Reports) /\ Plain(machine[p], date[p], Reports)
    BY DEF CatalogInv, LocalTypes, ExporterInv
  <1>3. next[p] \in DOMAIN mails[p]
    <2>1. PICK list \in Seq(Line) : list = mails[p]
      BY <1>2
    <2>2. next[p] \in DOMAIN list
      BY <1>1, <1>2, <2>1
    <2>3. QED
      BY <2>1, <2>2
  <1>4. PICK s \in Line : s = mails[p][next[p]]
    BY <1>2, <1>3
  <1>5. s.name \in Names /\ s.date \in Nat /\ Plain(s.name, s.date, Reports)
    BY <1>2, <1>3, <1>4 DEF Line, Lines
  <1>6. s.name = NoName => s.date = NoDate
    <2>1. Reports \subseteq (Machines \cup OtherNames) \X Nat
      BY Numbers DEF CatalogInv
    <2>2. ASSUME <<s.name, s.date>> \in Reports PROVE s.name # NoName
      BY <2>1, <2>2, MachinesAssumption, OtherMailAssumption DEF NoName
    <2>3. QED
      BY <1>5, <2>2 DEF Plain
  <1>7. machine'[p] \in Names /\ date'[p] \in Nat
    BY <1>1, <1>2, <1>4, <1>5
  <1>8. Follows(mails[p], next[p], machine[p], date[p], machine'[p], date'[p])
    BY <1>1, <1>4, <1>6 DEF Follows
  <1>9. Plain(machine'[p], date'[p], Reports)
    <2>1. CASE s.name = NoName
      BY <1>1, <1>2, <1>4, <1>6, <2>1
    <2>2. CASE s.date # NoDate
      BY <1>1, <1>4, <1>5, <1>6, <2>2
    <2>3. CASE s.name # NoName /\ s.date = NoDate
      <3>1. <<s.name, NoDate>> \in Reports
        BY <1>5, <2>3 DEF Plain
      <3>2. NoDate \notin Days
        BY Numbers DEF NoDate, CatalogInv
      <3>3. s.name \in foreign
        BY <3>1, <3>2, Numbers DEF CatalogInv
      <3>4. <<s.name, date'[p]>> \in Reports
        BY <1>7, <3>3 DEF Reports
      <3>5. QED
        BY <1>1, <1>4, <2>3, <3>4 DEF Plain
    <2>4. QED
      BY <2>1, <2>2, <2>3
  <1>10. QED
    BY <1>3, <1>7, <1>8, <1>9

\* One line.
LEMMA HandleInv ==
  ASSUME CatalogInv, SavesLoaded', NEW p \in Exporters, Handle(p)
  PROVE  CatalogInv'
  <1>1. /\ pc[p] = "loop"
        /\ doc'[p] = IF loaded[p] THEN Put(doc[p], machine'[p], "0", date'[p]) ELSE doc[p]
        /\ next'[p] = next[p] + 1
        /\ \A q \in Exporters : q # p => Same(q)
        /\ UNCHANGED <<world, fstate, file, pc, mails, cutoff, loaded>>
        /\ machine' = [machine EXCEPT ![p] = machine'[p]]
        /\ date' = [date EXCEPT ![p] = date'[p]]
        /\ doc' = [doc EXCEPT ![p] = doc'[p]]
        /\ next' = [next EXCEPT ![p] = next'[p]]
    BY HandleValues DEF CatalogInv
  <1>2. UNCHANGED <<today, reported, foreign>> /\ UNCHANGED world
    BY <1>1 DEF world
  <1>3. Reports' = Reports
    BY <1>2 DEF Reports
  <1>4. machine'[p] \in Names /\ date'[p] \in Nat /\ Plain(machine'[p], date'[p], Reports)
    BY LinePlain
  <1>5. Draft(doc'[p], Reports)
    <2>1. Draft(doc[p], Reports)
      BY DEF CatalogInv, ExporterInv
    <2>2. Draft(Put(doc[p], machine'[p], "0", date'[p]), Reports)
      BY <1>4, <2>1, PutDraft
    <2>3. QED
      BY <1>1, <2>1, <2>2
  <1>6. ExporterInv(p)'
    BY <1>1, <1>2, <1>3, <1>4, <1>5 DEF ExporterInv, CatalogInv
  <1>7. LocalTypes'
    <2>1. doc'[p] \in Seq(JobType)
      BY <1>5 DEF Draft
    <2>2. next'[p] \in Nat \ {0}
      BY <1>1 DEF CatalogInv, LocalTypes
    <2>3. QED
      BY <1>1, <1>4, <2>1, <2>2 DEF CatalogInv, LocalTypes
  <1>8. file' = Template \/ Saved(file', Reports)
    BY <1>1 DEF CatalogInv, WorldInv
  <1>9. QED
    BY <1>1, <1>2, <1>6, <1>7, <1>8, OneExporterMoves

\* The clean-up.
LEMMA SaveBeginInv ==
  ASSUME CatalogInv, SavesLoaded', NEW p \in Exporters, SaveBegin(p)
  PROVE  CatalogInv'
  <1>1. /\ pc[p] = "loop" /\ doc'[p] = Clean(doc[p], cutoff[p])
        /\ \A q \in Exporters : q # p => Same(q)
        /\ UNCHANGED <<world, file, mails, next, cutoff, loaded, machine, date>>
        /\ doc' = [doc EXCEPT ![p] = doc'[p]]
    BY SaveValues DEF CatalogInv
  <1>2. UNCHANGED <<today, reported, foreign>> /\ UNCHANGED world
    BY <1>1 DEF world
  <1>3. Reports' = Reports
    BY <1>2 DEF Reports
  <1>4. Draft(doc[p], Reports) /\ cutoff[p] \in 1 .. today - Keep /\ cutoff[p] \in Nat
    BY <1>1 DEF CatalogInv, ExporterInv, LocalTypes
  <1>5. cutoff[p] \in Nat \ {0} /\ Reports \subseteq (Machines \cup OtherNames) \X Nat
    BY <1>4, Numbers DEF CatalogInv
  <1>6. Saved(doc'[p], Reports)
    BY <1>1, <1>4, <1>5, CleanFacts
  <1>7. Draft(doc'[p], Reports) /\ doc'[p] \in Seq(JobType)
    BY <1>6 DEF Saved, Draft
  <1>8. ExporterInv(p)'
    BY <1>1, <1>2, <1>3, <1>4, <1>6, <1>7 DEF ExporterInv, CatalogInv
  <1>9. LocalTypes'
    BY <1>1, <1>7 DEF CatalogInv, LocalTypes
  <1>10. file' = Template \/ Saved(file', Reports)
    BY <1>1 DEF CatalogInv, WorldInv
  <1>11. QED
    BY <1>1, <1>2, <1>8, <1>9, <1>10, OneExporterMoves

\* The end of an export, with or without a new catalog.
LEMMA EndInv ==
  ASSUME CatalogInv, SavesLoaded', NEW p \in Exporters, SaveFails(p) \/ SaveEnd(p) \/ Kill(p)
  PROVE  CatalogInv'
  <1>1. Exit(p) /\ UNCHANGED world
    BY DEF SaveFails, SaveEnd, Kill
  <1>2. file' = file \/ (pc[p] = "save" /\ file' = doc[p])
    BY DEF SaveFails, SaveEnd, Kill
  <1>3. file' = Template \/ Saved(file', Reports)
    BY <1>2 DEF CatalogInv, WorldInv, ExporterInv
  <1>4. /\ pc'[p] = "idle" /\ mails'[p] = <<>> /\ doc'[p] = <<>>
        /\ machine'[p] = NoName /\ date'[p] = NoDate
        /\ \A q \in Exporters : q # p => Same(q)
        /\ LocalTypes'
    BY <1>1, ExitValues DEF CatalogInv
  <1>5. Draft(<<>>, Reports') /\ Lines(<<>>, Reports')
    BY FirstDrafts
  <1>6. ExporterInv(p)'
    BY <1>4, <1>5 DEF ExporterInv, Plain
  <1>7. QED
    BY <1>1, <1>3, <1>4, <1>6, OneExporterMoves

\* All steps.
LEMMA CatalogStep == CatalogInv /\ [Next]_vars => CatalogInv'
  <1> SUFFICES ASSUME CatalogInv, [Next]_vars PROVE CatalogInv'
    OBVIOUS
  <1>1. SavesLoaded'
    BY SavesLoadedStep DEF CatalogInv
  <1>2. CASE \/ \E m \in Machines, o \in Outcomes, d \in Days : Report(m, o, d)
             \/ OtherMail \/ NextDay \/ Collect \/ UNCHANGED vars
    BY <1>1, <1>2, MailboxInv
  <1>3. ASSUME NEW p \in Exporters, ExporterStep(p) \/ Kill(p) PROVE CatalogInv'
    BY <1>1, <1>3, OpenInv, LoadInv, HandleInv, SaveBeginInv, EndInv DEF ExporterStep
  <1>4. QED
    BY <1>2, <1>3 DEF Next

-----------------------------------------------------------------------------

(***************************************************************************)
(* A machine has one job in the catalog, and the template's jobs do not    *)
(* stand beside it, for any exporters that overlap and are killed: the     *)
(* test before addxml keeps a document free of doubles however old the     *)
(* catalog is that it was loaded from.                                     *)
(***************************************************************************)
THEOREM OneJobPerMachine == Spec => []NamesUnique
  <1>1. CatalogInv => NamesUnique
    <2> SUFFICES ASSUME CatalogInv, file # Template PROVE NamesUnique
      BY DEF NamesUnique
    <2>1. Distinct(file)
      BY DEF CatalogInv, WorldInv, Saved, Draft
    <2>2. \A k \in DOMAIN file : file[k].name # "default"
      BY DEF CatalogInv, WorldInv, Saved
    <2>3. "default" \notin NamesOf(file)
      BY <2>2, NamesAt
    <2>4. QED
      BY <2>1, <2>2, <2>3 DEF NamesUnique, Distinct
  <1>2. QED
    BY <1>1, CatalogInitially, CatalogStep, PTL DEF Spec

(***************************************************************************)
(* Every job of the catalog is of a machine that reported, with a day for  *)
(* which it reported, or of a name that other mail has carried: a subject  *)
(* without a name or without a date, whose place the message before takes  *)
(* (VeeamAgentFreeToZabbix.ps1, lines 135-137), changes no other job.      *)
(***************************************************************************)
THEOREM ReportersOnly == Spec => []OnlyReporters
  <1>1. CatalogInv => OnlyReporters
    <2> SUFFICES ASSUME CatalogInv, file # Template, NEW e \in Range(file), e.name \notin foreign
                 PROVE  e.name \in Machines /\ reported[e.name][e.date] # "none"
      BY DEF OnlyReporters
    <2>1. PICK k \in DOMAIN file : e = file[k]
      BY DEF Range
    <2>2. e.name \notin {"default", NoName} /\ Known(e, Reports)
      BY <2>1 DEF CatalogInv, WorldInv, Saved, Draft
    <2>3. Job("default", "default", DefaultDate).name = "default"
      BY DEF Job
    <2>4. <<e.name, e.date>> \in Reports
      BY <2>2, <2>3 DEF Known, Plain
    <2>5. QED
      BY <2>4 DEF Reports
  <1>2. QED
    BY <1>1, CatalogInitially, CatalogStep, PTL DEF Spec

-----------------------------------------------------------------------------
(* One exporter, and a text file that is read whole: what is promised of the *)
(* catalog when exports do not overlap.  That a mail may be late, that other *)
(* mail comes in and that an export may be killed is still allowed.          *)

Alone == ~ Partial /\ \A p, q \in Exporters : p = q

\* The machines whose names no other mail has carried.
Sure == Machines \ foreign

\* The reports R of the machines M have a date.
Sound(M, R) == M \subseteq Machines /\ \A m, d : m \in M /\ <<m, d>> \in R => d # NoDate

\* If the lines s hold an older report of m than that of day d, they hold one that is not older.
Covers(s, m, d) ==
    (\E k \in DOMAIN s : s[k].name = m /\ s[k].date < d) =>
        \E j \in DOMAIN s : s[j].name = m /\ s[j].date >= d

\* The same for the machines M of a document, or of other lines.
CoversAll(s, d, M) ==
    \A k \in DOMAIN d : d[k].name \in M => Covers(s, d[k].name, d[k].date)

\* The tracking log: its lines are of yesterday and today, those of machines a day late at
\* most, and the reports for yesterday and today are there.
Recent ==
    /\ \A k \in DOMAIN inbox :
         /\ inbox[k].at \in today - 1 .. today
         /\ inbox[k].name \in Sure => inbox[k].date \in inbox[k].at - 1 .. inbox[k].at
    /\ \A m \in Sure, d \in Days : <<m, d>> \in Reports /\ d >= today - 1 =>
         \E k \in DOMAIN inbox : inbox[k].name = m /\ inbox[k].date = d

\* Of the lines before n, k is the last one about m.
LastLine(s, n, m, k) ==
    /\ k \in DOMAIN s /\ k < n /\ s[k].name = m
    /\ \A j \in DOMAIN s : j < n /\ s[j].name = m => j <= k

Mentioned(s, n, m) == \E k \in DOMAIN s : k < n /\ s[k].name = m

\* The date t of a job of m in mid-loop is that of the last line about m, if it has one, or
\* that of the file.
Dated(f, s, n, m, t) ==
    /\ \A k \in DOMAIN s : LastLine(s, n, m, k) /\ s[k].date # NoDate => t = s[k].date
    /\ ~ Mentioned(s, n, m) => \A k \in DOMAIN f : f[k].name = m => t = f[k].date

\* The document d that was loaded from the file f, before line n is handled.
Editing(f, d, s, n) ==
    /\ Len(d) >= Len(f)
    /\ \A k \in DOMAIN d : d[k].name \in Machines => Dated(f, s, n, d[k].name, d[k].date)
    /\ \A m \in Machines : m \in NamesOf(f) => m \in NamesOf(d)
    /\ \A m \in Machines : Len(f) >= 2 /\ Mentioned(s, n, m) => m \in NamesOf(d)

\* The variables of the loop hold what the last line about their machine said.
Pointer(s, n, m, t) ==
    m \in Machines => \E k \in DOMAIN s : LastLine(s, n, m, k) /\ s[k].date \in {t, NoDate}

\* The document e will replace the file f: nothing fresh of the machines M is dropped,
\* nothing of them goes back, everything read is listed, unless a mail was late.
Saving(f, e, s, c, M) ==
    /\ \A k \in DOMAIN f : f[k].name \in M /\ f[k].name \notin NamesOf(e) =>
         f[k].date < c \/ ~ InOrder(s, f[k].name)
    /\ \A k \in DOMAIN f, j \in DOMAIN e :
         f[k].name \in M /\ f[k].name = e[j].name /\ e[j].date < f[k].date =>
         ~ InOrder(s, f[k].name)
    /\ Len(f) >= 2 => \A m \in Machines : InOrder(s, m) =>
         \A k \in DOMAIN s : s[k].name = m /\ s[k].date >= c => m \in NamesOf(e)

\* Nothing on its way into the catalog is ahead of the text file, nor the catalog of the lines read.
Ahead(p) ==
    /\ CoversAll(txt, mails[p], Sure) /\ CoversAll(txt, doc[p], Sure)
    /\ pc[p] # "idle" => CoversAll(mails[p], file, Sure)

Stage(p) ==
    /\ pc[p] \in {"idle", "open"} => next[p] = 1 /\ machine[p] = NoName
    /\ pc[p] = "open" /\ loaded[p] => fstate = "ok"
    /\ pc[p] = "loop" /\ loaded[p] =>
         Editing(file, doc[p], mails[p], next[p]) /\ Pointer(mails[p], next[p], machine[p], date[p])
    /\ pc[p] = "save" => fstate = "torn" /\ Saving(file, doc[p], mails[p], cutoff[p], Sure)

AloneInv ==
    /\ CatalogInv /\ Recent /\ CoversAll(txt, file, Sure)
    /\ fstate = "absent" => file = <<>>
    /\ \A p \in Exporters : Ahead(p) /\ Stage(p)

\* What lines and jobs hold.
LEMMA LineFields ==
  ASSUME NEW R, NEW s, Lines(s, R), NEW k \in DOMAIN s
  PROVE  s[k].name \in Names /\ s[k].date \in Nat /\ s[k].at \in Nat
  <1>1. PICK x \in Line : x = s[k]
    BY DEF Lines
  <1>2. x.name \in Names /\ x.date \in Nat /\ x.at \in Nat
    BY DEF Line
  <1>3. QED
    BY <1>1, <1>2

\* The same of jobs.
LEMMA JobFields ==
  ASSUME NEW R, NEW d, Draft(d, R), NEW k \in DOMAIN d
  PROVE  d[k].name \in Names \cup {"default"} /\ d[k].date \in Nat
  <1>1. PICK x \in JobType : x = d[k]
    BY DEF Draft
  <1>2. x.name \in Names \cup {"default"} /\ x.date \in Nat
    BY DEF JobType
  <1>3. QED
    BY <1>1, <1>2

\* The reports of the machines that other mail has not named have a date.
LEMMA SureIsSound ==
  ASSUME WorldInv
  PROVE  Sound(Sure, Reports)
  <1>1. NoDate \notin Days
    BY Numbers DEF NoDate
  <1>2. QED
    BY <1>1, Numbers DEF Sound, Sure

\* What is promised for some machines is promised for fewer.
LEMMA FewerMachines ==
  ASSUME NEW M, NEW L, L \subseteq M
  PROVE  /\ \A s, d : CoversAll(s, d, M) => CoversAll(s, d, L)
         /\ \A f, e, s, c : Saving(f, e, s, c, M) => Saving(f, e, s, c, L)
  BY DEF CoversAll, Saving

\* Lines cover themselves, and there is nothing to cover in an empty document or the template.
LEMMA CoversItself ==
  ASSUME NEW s, NEW R, Lines(s, R)
  PROVE  CoversAll(s, s, Sure) /\ CoversAll(s, <<>>, Sure) /\ CoversAll(s, Template, Sure)
  <1>1. ASSUME NEW k \in DOMAIN s PROVE Covers(s, s[k].name, s[k].date)
    <2>1. s[k].date \in Nat
      BY LineFields
    <2>2. s[k].date >= s[k].date
      BY <2>1
    <2>3. QED
      BY <2>2 DEF Covers
  <1>2. \A k \in DOMAIN Template : Template[k].name = "default"
    BY DEF Template, Job
  <1>3. CoversAll(s, s, Sure)
    BY <1>1 DEF CoversAll
  <1>4. CoversAll(s, <<>>, Sure)
    BY DEF CoversAll
  <1>5. CoversAll(s, Template, Sure)
    BY <1>2, MachinesAssumption DEF CoversAll, Sure
  <1>6. QED
    BY <1>3, <1>4, <1>5

\* The tracking log covers every report: a report older than the window is not newer than any line.
LEMMA InboxCovers ==
  ASSUME WorldInv, Recent, NEW m \in Sure, NEW d, <<m, d>> \in Reports
  PROVE  Covers(inbox, m, d)
  <1>1. d \in Days /\ d \in Nat /\ today \in Nat
    BY Numbers DEF Sure
  <1>2. SUFFICES ASSUME NEW k \in DOMAIN inbox, inbox[k].name = m, inbox[k].date < d
                 PROVE  \E j \in DOMAIN inbox : inbox[j].name = m /\ inbox[j].date >= d
    BY DEF Covers
  <1>3. inbox[k].date \in Nat /\ inbox[k].at \in Nat
    BY LineFields DEF WorldInv
  <1>5. inbox[k].at \in today - 1 .. today /\ inbox[k].date \in inbox[k].at - 1 .. inbox[k].at
    BY <1>2 DEF Recent
  <1>6. d >= today - 1
    BY <1>1, <1>2, <1>3, <1>5
  <1>7. PICK j \in DOMAIN inbox : inbox[j].name = m /\ inbox[j].date = d
    BY <1>1, <1>6 DEF Recent
  <1>8. QED
    BY <1>1, <1>7

\* Hence it covers every document and all lines.
LEMMA InboxCoversAll ==
  ASSUME WorldInv, Recent, NEW d
  PROVE  (Draft(d, Reports) \/ Lines(d, Reports)) => CoversAll(inbox, d, Sure)
  <1>1. SUFFICES ASSUME Draft(d, Reports) \/ Lines(d, Reports),
                        NEW k \in DOMAIN d, d[k].name \in Sure
                 PROVE  Covers(inbox, d[k].name, d[k].date)
    BY DEF CoversAll
  <1>2. d[k].name # "default" /\ d[k].name # NoName
    BY <1>1, MachinesAssumption DEF NoName, Sure
  <1>3. Job("default", "default", DefaultDate).name = "default"
    BY DEF Job
  <1>4. <<d[k].name, d[k].date>> \in Reports
    BY <1>1, <1>2, <1>3 DEF Draft, Lines, Known, Plain
  <1>5. QED
    BY <1>1, <1>4, InboxCovers

-----------------------------------------------------------------------------
(* What the loop and the clean-up do to a document.                          *)

\* Before the first line the document is the file.
LEMMA EditStart ==
  ASSUME NEW R, NEW f, Draft(f, R), NEW s, NEW r, Lines(s, r)
  PROVE  Editing(f, f, s, 1)
  <1>1. ASSUME NEW k \in DOMAIN s PROVE ~ (k < 1)
    BY DEF Lines
  <1>2. ASSUME NEW k \in DOMAIN f, NEW j \in DOMAIN f, f[k].name \in Machines, f[j].name = f[k].name
        PROVE  f[k].date = f[j].date
    <2>1. f[k].name # "default"
      BY <1>2, MachinesAssumption
    <2>2. k = j
      BY <1>2, <2>1 DEF Draft, Distinct
    <2>3. QED
      BY <2>2
  <1>3. ASSUME NEW k \in DOMAIN f, f[k].name \in Machines
        PROVE  Dated(f, s, 1, f[k].name, f[k].date)
    BY <1>1, <1>2, <1>3 DEF Dated, LastLine
  <1>4. Len(f) >= Len(f)
    BY DEF Draft
  <1>5. \A m : ~ Mentioned(s, 1, m)
    BY <1>1 DEF Mentioned
  <1>6. QED
    BY <1>3, <1>4, <1>5 DEF Editing

\* What a line about another machine changes: nothing.
LEMMA OtherLine ==
  ASSUME NEW R, NEW s, Lines(s, R), NEW n \in DOMAIN s, NEW m, s[n].name # m
  PROVE  /\ Mentioned(s, n + 1, m) <=> Mentioned(s, n, m)
         /\ \A k \in DOMAIN s : LastLine(s, n + 1, m, k) <=> LastLine(s, n, m, k)
  <1>1. DOMAIN s \subseteq Nat
    BY DEF Lines
  <1>2. \A k \in DOMAIN s : s[k].name = m => (k < n + 1 <=> k < n)
    BY <1>1
  <1>3. QED
    BY <1>2 DEF Mentioned, LastLine

\* There is at most one last line.
LEMMA OneLastLine ==
  ASSUME NEW R, NEW s, Lines(s, R), NEW n \in Nat, NEW m,
         NEW k \in DOMAIN s, LastLine(s, n, m, k), NEW j \in DOMAIN s, LastLine(s, n, m, j)
  PROVE  k = j
  <1>1. DOMAIN s \subseteq Nat
    BY DEF Lines
  <1>2. k <= j /\ j <= k
    BY DEF LastLine
  <1>3. QED
    BY <1>1, <1>2

\* After a line the variables hold what the last line about their machine said.
LEMMA PointerStep ==
  ASSUME NEW R, NEW s, Lines(s, R), NEW n \in DOMAIN s, NEW m, NEW t, Pointer(s, n, m, t),
         NEW mm, NEW tt, Follows(s, n, m, t, mm, tt)
  PROVE  Pointer(s, n + 1, mm, tt)
  <1>1. DOMAIN s \subseteq Nat
    BY DEF Lines
  <1>2. CASE s[n].name = NoName
    <2>1. SUFFICES ASSUME m \in Machines PROVE \E k \in DOMAIN s : LastLine(s, n + 1, m, k) /\ s[k].date \in {t, NoDate}
      BY <1>2 DEF Follows, Pointer
    <2>2. PICK k \in DOMAIN s : LastLine(s, n, m, k) /\ s[k].date \in {t, NoDate}
      BY <2>1 DEF Pointer
    <2>3. s[n].name # m
      BY <1>2, <2>1, MachinesAssumption DEF NoName
    <2>4. LastLine(s, n + 1, m, k)
      BY <2>2, <2>3, OtherLine
    <2>5. QED
      BY <2>2, <2>4
  <1>3. CASE s[n].name # NoName
    <2>1. mm = s[n].name /\ s[n].date \in {tt, NoDate}
      BY <1>3 DEF Follows
    <2>2. \A j \in DOMAIN s : j < n + 1 => j <= n
      BY <1>1
    <2>3. n < n + 1
      BY <1>1
    <2>4. LastLine(s, n + 1, mm, n)
      BY <2>1, <2>2, <2>3 DEF LastLine
    <2>5. QED
      BY <2>1, <2>4 DEF Pointer
  <1>4. QED
    BY <1>2, <1>3

\* A line leaves every job with the date of the last line about its machine.
LEMMA EditStep ==
  ASSUME NEW R, NEW f, NEW d, Draft(f, R), Draft(d, R), NEW s, Lines(s, R), NEW n \in DOMAIN s,
         Editing(f, d, s, n), NEW m, NEW t, Pointer(s, n, m, t),
         NEW mm \in Names, NEW tt \in Nat, Follows(s, n, m, t, mm, tt),
         NEW e, e = Put(d, mm, "0", tt)
  PROVE  Editing(f, e, s, n + 1)
  <1>j. PICK j \in JobType : j = Job(mm, "0", tt) /\ j.name = mm /\ j.date = tt
    BY JobFacts
  <1>d. d \in Seq(JobType) /\ f \in Seq(JobType)
    BY DEF Draft
  <1>n. n \in Nat /\ n + 1 \in Nat
    BY DEF Lines
  <1>1. /\ e \in Seq(JobType) /\ Len(d) <= Len(e)
        /\ \A k \in DOMAIN d : k \in DOMAIN e /\ e[k] = IF d[k].name = mm THEN j ELSE d[k]
        /\ \A k \in DOMAIN e : k \in DOMAIN d \/ e[k] = j
        /\ Len(d) >= 2 => mm \in NamesOf(e)
    BY <1>d, <1>j, PutFacts
  <1>2. \A k \in DOMAIN e : e[k] = j \/ (k \in DOMAIN d /\ e[k] = d[k] /\ d[k].name # mm)
    BY <1>1
  <1>3. \A k \in DOMAIN d : k \in DOMAIN e /\ e[k].name = d[k].name
    BY <1>1, <1>j
  <1>4. \A x \in Machines : x \in NamesOf(d) => x \in NamesOf(e)
    BY <1>3, NamesAt
  <1>5. Len(e) >= Len(f)
    <2>1. Len(d) >= Len(f)
      BY DEF Editing
    <2>2. Len(d) \in Nat /\ Len(e) \in Nat /\ Len(f) \in Nat
      BY <1>1, <1>d
    <2>3. QED
      BY <1>1, <2>1, <2>2
  <1>6. ASSUME NEW x \in Machines, x # mm PROVE s[n].name # x
    BY <1>6, MachinesAssumption DEF Follows, NoName
  <1>7. ASSUME NEW k \in DOMAIN e, e[k].name \in Machines
        PROVE  Dated(f, s, n + 1, e[k].name, e[k].date)
    <2>1. CASE e[k] = j
      <3>1. e[k].name = mm /\ e[k].date = tt /\ mm \in Machines
        BY <1>7, <1>j, <2>1
      <3>p. Pointer(s, n + 1, mm, tt)
        BY PointerStep
      <3>2. PICK q \in DOMAIN s : LastLine(s, n + 1, mm, q) /\ s[q].date \in {tt, NoDate}
        BY <3>1, <3>p DEF Pointer
      <3>3. Mentioned(s, n + 1, mm)
        BY <3>2 DEF Mentioned, LastLine
      <3>4. ASSUME NEW r \in DOMAIN s, LastLine(s, n + 1, mm, r), s[r].date # NoDate
            PROVE  tt = s[r].date
        <4>1. r = q
          BY <1>n, <3>2, <3>4, OneLastLine
        <4>2. QED
          BY <3>2, <3>4, <4>1
      <3>5. Dated(f, s, n + 1, mm, tt)
        BY <3>3, <3>4 DEF Dated
      <3>6. QED
        BY <3>1, <3>5
    <2>2. CASE e[k] # j
      <3>1. k \in DOMAIN d /\ e[k] = d[k] /\ d[k].name # mm
        BY <1>2, <2>2
      <3>2. Dated(f, s, n, d[k].name, d[k].date)
        BY <1>7, <3>1 DEF Editing
      <3>3. s[n].name # d[k].name
        BY <1>6, <1>7, <3>1
      <3>4. Dated(f, s, n + 1, d[k].name, d[k].date)
        BY <3>2, <3>3, OtherLine DEF Dated
      <3>5. QED
        BY <3>1, <3>4
    <2>3. QED
      BY <2>1, <2>2
  <1>8. ASSUME NEW x \in Machines, Len(f) >= 2, Mentioned(s, n + 1, x) PROVE x \in NamesOf(e)
    <2>1. CASE x = mm
      <3>1. Len(d) >= 2
        <4>1. Len(d) >= Len(f) /\ Len(d) \in Nat /\ Len(f) \in Nat
          BY <1>d DEF Editing
        <4>2. QED
          BY <1>8, <4>1
      <3>2. QED
        BY <1>1, <2>1, <3>1
    <2>2. CASE x # mm
      <3>1. Mentioned(s, n, x)
        BY <1>6, <1>8, <2>2, OtherLine
      <3>2. QED
        BY <1>4, <1>8, <3>1 DEF Editing
    <2>3. QED
      BY <2>1, <2>2
  <1>9. \A x \in Machines : x \in NamesOf(f) => x \in NamesOf(e)
    BY <1>4 DEF Editing
  <1>10. QED
    BY <1>5, <1>7, <1>8, <1>9 DEF Editing

\* A machine that the lines mention has a last line.
LEMMA LastLineExists ==
  ASSUME NEW R, NEW s, Lines(s, R), NEW n \in Nat, NEW m, Mentioned(s, n, m)
  PROVE  \E k \in DOMAIN s : LastLine(s, n, m, k)
  <1> DEFINE About == {k \in DOMAIN s : k < n /\ s[k].name = m}
  <1>1. About # {} /\ About \subseteq 0 .. n
    <2>1. DOMAIN s \subseteq Nat
      BY DEF Lines
    <2>2. QED
      BY <2>1 DEF Mentioned
  <1>2. PICK k \in About : \A j \in About : j <= k
    <2> HIDE DEF About
    <2>1. QED
      BY <1>1, LastPlace
  <1>3. QED
    BY <1>2 DEF LastLine

\* A date goes back only if a line about the machine stands behind a newer one: the lines
\* hold a report that is as new as the file's, and the last one is older.
LEMMA BackOnlyIfLate ==
  ASSUME NEW R, NEW f, NEW d, Draft(f, R), Draft(d, R), NEW s, Lines(s, R), NEW n \in Nat,
         Editing(f, d, s, n), NEW M, Sound(M, R), CoversAll(s, f, M), n > Len(s),
         NEW i \in DOMAIN f, NEW k \in DOMAIN d, f[i].name \in M, d[k].name = f[i].name,
         d[k].date < f[i].date
  PROVE  ~ InOrder(s, f[i].name)
  <1>m. PICK m \in Machines : m = f[i].name /\ m \in M
    BY DEF Sound
  <1>1. Dated(f, s, n, m, d[k].date) /\ Covers(s, m, f[i].date)
    BY <1>m DEF Editing, CoversAll
  <1>2. f[i].date \in Nat /\ d[k].date \in Nat
    BY JobFields
  <1>3. Mentioned(s, n, m)
    <2>1. SUFFICES ASSUME ~ Mentioned(s, n, m) PROVE d[k].date = f[i].date
      BY <1>2
    <2>2. QED
      BY <1>1, <1>m, <2>1 DEF Dated
  <1>4. PICK j \in DOMAIN s : LastLine(s, n, m, j)
    BY <1>3, LastLineExists
  <1>s. s[j].name = m /\ s[j].date # NoDate
    <2>1. s[j].name = m
      BY <1>4 DEF LastLine
    <2>2. m # NoName
      BY MachinesAssumption DEF NoName
    <2>3. <<m, s[j].date>> \in R
      BY <2>1, <2>2 DEF Lines, Plain
    <2>4. QED
      BY <1>m, <2>1, <2>3 DEF Sound
  <1>5. d[k].date = s[j].date /\ s[j].name = m
    BY <1>1, <1>4, <1>s DEF Dated
  <1>6. PICK h \in DOMAIN s : s[h].name = m /\ s[h].date >= f[i].date
    BY <1>1, <1>5 DEF Covers
  <1>7. s[h].date \in Nat /\ s[j].date \in Nat /\ h \in Nat /\ j \in Nat /\ h < n
    <2>1. s[h].date \in Nat /\ s[j].date \in Nat
      BY LineFields
    <2>2. h \in 1 .. Len(s) /\ j \in 1 .. Len(s) /\ Len(s) \in Nat
      BY DEF Lines
    <2>3. QED
      BY <2>1, <2>2
  <1>8. h <= j
    BY <1>4, <1>6, <1>7 DEF LastLine
  <1>9. ~ (s[h].date <= s[j].date)
    BY <1>2, <1>5, <1>6, <1>7
  <1>10. h # j
    BY <1>7, <1>9
  <1>11. h < j
    BY <1>7, <1>8, <1>10
  <1>12. QED
    BY <1>5, <1>6, <1>9, <1>11, <1>m DEF InOrder

\* The clean-up after the last line.
LEMMA EditEnd ==
  ASSUME NEW R, R \subseteq (Machines \cup OtherNames) \X Nat, NEW f, NEW d, Draft(f, R), Draft(d, R),
         NEW s, Lines(s, R), NEW n \in Nat, Editing(f, d, s, n), n > Len(s),
         NEW M, Sound(M, R), CoversAll(s, f, M), NEW c \in Nat \ {0}, NEW e, e = Clean(d, c)
  PROVE  Saving(f, e, s, c, M)
  <1>1. /\ Saved(e, R)
        /\ \A k \in DOMAIN e : \E j \in DOMAIN d : e[k] = d[j]
        /\ \A j \in DOMAIN d : d[j].name \in Machines /\ d[j].date >= c =>
             \E k \in DOMAIN e : e[k] = d[j]
    BY CleanFacts
  <1>2. ASSUME NEW j \in DOMAIN d, d[j].name \in Machines, d[j].date >= c
        PROVE  d[j].name \in NamesOf(e)
    BY <1>1, <1>2, NamesAt
  <1>3. ASSUME NEW k \in DOMAIN f, f[k].name \in M, f[k].name \notin NamesOf(e)
        PROVE  f[k].date < c \/ ~ InOrder(s, f[k].name)
    <2>m. f[k].name \in Machines
      BY <1>3 DEF Sound
    <2>1. f[k].name \in NamesOf(d)
      BY <2>m, NamesAt DEF Editing
    <2>2. PICK j \in DOMAIN d : d[j].name = f[k].name
      BY <2>1, NamesAt
    <2>3. ~ (d[j].date >= c)
      BY <1>2, <1>3, <2>2, <2>m
    <2>4. f[k].date \in Nat /\ d[j].date \in Nat
      BY JobFields
    <2>5. f[k].date < c \/ d[j].date < f[k].date
      BY <2>3, <2>4
    <2>6. QED
      BY <1>3, <2>2, <2>5, BackOnlyIfLate
  <1>4. ASSUME NEW k \in DOMAIN f, NEW j \in DOMAIN e, f[k].name \in M,
               f[k].name = e[j].name, e[j].date < f[k].date
        PROVE  ~ InOrder(s, f[k].name)
    <2>1. PICK i \in DOMAIN d : e[j] = d[i]
      BY <1>1
    <2>2. d[i].name = f[k].name /\ d[i].date < f[k].date
      BY <1>4, <2>1
    <2>3. QED
      BY <1>4, <2>2, BackOnlyIfLate
  <1>5. ASSUME Len(f) >= 2, NEW m \in Machines, InOrder(s, m),
               NEW k \in DOMAIN s, s[k].name = m, s[k].date >= c
        PROVE  m \in NamesOf(e)
    <2>1. DOMAIN s = 1 .. Len(s) /\ Len(s) \in Nat
      BY DEF Lines
    <2>2. k < n /\ k \in Nat
      BY <2>1
    <2>3. Mentioned(s, n, m)
      BY <1>5, <2>2 DEF Mentioned
    <2>4. PICK i \in DOMAIN d : d[i].name = m
      <3>1. m \in NamesOf(d)
        BY <1>5, <2>3 DEF Editing
      <3>2. QED
        BY <3>1, NamesAt
    <2>5. PICK j \in DOMAIN s : LastLine(s, n, m, j)
      BY <2>3, LastLineExists
    <2>7. s[k].date \in Nat /\ s[j].date \in Nat /\ j \in Nat
      BY <2>1, LineFields
    <2>8. k <= j /\ s[j].name = m
      BY <1>5, <2>2, <2>5 DEF LastLine
    <2>9. s[k].date <= s[j].date
      <3>1. CASE k = j
        BY <2>7, <3>1
      <3>2. CASE k < j
        BY <1>5, <2>8, <3>2 DEF InOrder
      <3>3. QED
        BY <2>2, <2>7, <2>8, <3>1, <3>2
    <2>c. s[j].date >= c /\ s[j].date # NoDate
      BY <1>5, <2>7, <2>9 DEF NoDate
    <2>6. d[i].date = s[j].date
      BY <2>4, <2>5, <2>c DEF Editing, Dated
    <2>10. d[i].date >= c
      BY <2>6, <2>c
    <2>11. QED
      BY <1>2, <2>4, <2>10
  <1>6. QED
    BY <1>3, <1>4, <1>5 DEF Saving

-----------------------------------------------------------------------------
(* Every step keeps the invariant, and what it does to the catalog.          *)

\* The initial state.
LEMMA AloneInitially == Init => AloneInv
  <1> SUFFICES ASSUME Init PROVE AloneInv
    OBVIOUS
  <1>1. CatalogInv
    BY CatalogInitially
  <1>2. /\ inbox = <<>> /\ txt = <<>> /\ file = <<>> /\ today = Keep + 1
        /\ reported = [m \in Machines |-> [d \in Days |-> "none"]] /\ foreign = {}
        /\ \A p \in Exporters : /\ pc[p] = "idle" /\ mails[p] = <<>> /\ doc[p] = <<>>
                                /\ next[p] = 1 /\ machine[p] = NoName
    BY DEF Init
  <1>3. Reports = {}
    BY <1>2 DEF Reports
  <1>4. DOMAIN <<>> = {}
    OBVIOUS
  <1>5. Recent
    BY <1>2, <1>3, <1>4 DEF Recent
  <1>6. CoversAll(<<>>, <<>>, Sure)
    BY <1>4 DEF CoversAll
  <1>7. ASSUME NEW p \in Exporters PROVE Ahead(p) /\ Stage(p)
    BY <1>2, <1>6 DEF Ahead, Stage
  <1>8. QED
    BY <1>1, <1>2, <1>5, <1>6, <1>7 DEF AloneInv

\* The tracking log after a report: one more report, one more line of today.
LEMMA RecentReport ==
  ASSUME WorldInv, Recent, NEW m \in Machines, NEW o \in Outcomes, NEW d \in Days, Report(m, o, d)
  PROVE  Recent'
  <1>1. /\ Reports' = Reports \cup {<<m, d>>} /\ inbox' = Append(inbox, Subject(m, d, today))
        /\ d = today \/ d = today - 1
        /\ today' = today /\ Sure' = Sure
    BY ReportAdds DEF Sure
  <1>n. today \in Nat /\ d \in Nat /\ inbox \in Seq(Line) /\ m \in Names
    BY Numbers DEF WorldInv, Lines, Names
  <1>s. Subject(m, d, today) \in Line /\ Subject(m, d, today).name = m
        /\ Subject(m, d, today).date = d /\ Subject(m, d, today).at = today
    BY <1>n DEF Subject, Line
  <1>2. PICK x \in Line : x = Subject(m, d, today) /\ x.name = m /\ x.date = d /\ x.at = today
    BY <1>s
  <1>3. inbox' = Append(inbox, x)
    BY <1>1, <1>2
  <1>4. /\ \A k \in DOMAIN inbox' : inbox'[k] = x \/ (k \in DOMAIN inbox /\ inbox'[k] = inbox[k])
        /\ \A k \in DOMAIN inbox : k \in DOMAIN inbox' /\ inbox'[k] = inbox[k]
        /\ \E k \in DOMAIN inbox' : inbox'[k] = x
    <2>1. \A k \in DOMAIN Append(inbox, x) :
            Append(inbox, x)[k] = x \/ (k \in DOMAIN inbox /\ Append(inbox, x)[k] = inbox[k])
      BY <1>n
    <2>2. \A k \in DOMAIN inbox : k \in DOMAIN Append(inbox, x) /\ Append(inbox, x)[k] = inbox[k]
      BY <1>n
    <2>3. Len(inbox) + 1 \in DOMAIN Append(inbox, x) /\ Append(inbox, x)[Len(inbox) + 1] = x
      BY <1>n
    <2>4. QED
      BY <1>3, <2>1, <2>2, <2>3
  <1>5. today \in today - 1 .. today /\ d \in today - 1 .. today
    BY <1>1, <1>n
  <1>6. ASSUME NEW k \in DOMAIN inbox'
        PROVE  /\ inbox'[k].at \in today' - 1 .. today'
               /\ inbox'[k].name \in Sure' => inbox'[k].date \in inbox'[k].at - 1 .. inbox'[k].at
    <2>1. CASE inbox'[k] = x
      <3>1. inbox'[k].at = today /\ inbox'[k].date = d
        BY <1>2, <2>1
      <3>2. QED
        BY <1>1, <1>5, <3>1
    <2>2. CASE k \in DOMAIN inbox /\ inbox'[k] = inbox[k]
      BY <1>1, <2>2 DEF Recent
    <2>3. QED
      BY <1>4, <2>1, <2>2
  <1>7. ASSUME NEW n \in Sure', NEW t \in Days, <<n, t>> \in Reports', t >= today' - 1
        PROVE  \E k \in DOMAIN inbox' : inbox'[k].name = n /\ inbox'[k].date = t
    <2>1. CASE <<n, t>> \in Reports
      <3>1. PICK k \in DOMAIN inbox : inbox[k].name = n /\ inbox[k].date = t
        BY <1>1, <1>7, <2>1 DEF Recent
      <3>2. QED
        BY <1>4, <3>1
    <2>2. CASE <<n, t>> = <<m, d>>
      BY <1>2, <1>4, <2>2
    <2>3. QED
      BY <1>1, <1>7, <2>1, <2>2
  <1>8. QED
    BY <1>6, <1>7 DEF Recent

\* After another mail: its line is not of a machine that is sure.
LEMMA RecentOther ==
  ASSUME WorldInv, Recent, OtherMail
  PROVE  Recent'
  <1>1. PICK m \in Names, d \in Nat :
          /\ inbox' = Append(inbox, Subject(m, d, today))
          /\ m = NoName \/ m \in foreign'
          /\ foreign \subseteq foreign' /\ today' = today /\ reported' = reported
    BY OtherAdds
  <1>n. today \in Nat /\ inbox \in Seq(Line)
    BY Numbers DEF WorldInv, Lines
  <1>s. Subject(m, d, today) \in Line /\ Subject(m, d, today).name = m
        /\ Subject(m, d, today).at = today
    BY <1>n DEF Subject, Line
  <1>2. PICK x \in Line : x = Subject(m, d, today) /\ x.name = m /\ x.at = today
    BY <1>s
  <1>u. m \notin Sure' /\ Sure' \subseteq Sure
    BY <1>1, MachinesAssumption DEF Sure, NoName
  <1>3. inbox' = Append(inbox, x)
    BY <1>1, <1>2
  <1>4. /\ \A k \in DOMAIN inbox' : inbox'[k] = x \/ (k \in DOMAIN inbox /\ inbox'[k] = inbox[k])
        /\ \A k \in DOMAIN inbox : k \in DOMAIN inbox' /\ inbox'[k] = inbox[k]
    <2>1. \A k \in DOMAIN Append(inbox, x) :
            Append(inbox, x)[k] = x \/ (k \in DOMAIN inbox /\ Append(inbox, x)[k] = inbox[k])
      BY <1>n
    <2>2. \A k \in DOMAIN inbox : k \in DOMAIN Append(inbox, x) /\ Append(inbox, x)[k] = inbox[k]
      BY <1>n
    <2>3. QED
      BY <1>3, <2>1, <2>2
  <1>5. today \in today - 1 .. today
    BY <1>n
  <1>6. ASSUME NEW k \in DOMAIN inbox'
        PROVE  /\ inbox'[k].at \in today' - 1 .. today'
               /\ inbox'[k].name \in Sure' => inbox'[k].date \in inbox'[k].at - 1 .. inbox'[k].at
    <2>1. CASE inbox'[k] = x
      BY <1>1, <1>2, <1>5, <1>u, <2>1
    <2>2. CASE k \in DOMAIN inbox /\ inbox'[k] = inbox[k]
      BY <1>1, <1>u, <2>2 DEF Recent
    <2>3. QED
      BY <1>4, <2>1, <2>2
  <1>7. ASSUME NEW n \in Sure', NEW t \in Days, <<n, t>> \in Reports', t >= today' - 1
        PROVE  \E k \in DOMAIN inbox' : inbox'[k].name = n /\ inbox'[k].date = t
    <2>1. n \in Sure /\ n \notin foreign'
      BY <1>u DEF Sure
    <2>2. <<n, t>> \in Reports
      BY <1>1, <1>7, <2>1 DEF Reports
    <2>3. PICK k \in DOMAIN inbox : inbox[k].name = n /\ inbox[k].date = t
      BY <1>1, <1>7, <2>1, <2>2 DEF Recent
    <2>4. QED
      BY <1>4, <2>3
  <1>8. QED
    BY <1>6, <1>7 DEF Recent

\* After a day: the lines of yesterday leave, and the reports they held are too old to be expected.
LEMMA RecentDay ==
  ASSUME WorldInv, Recent, NextDay
  PROVE  Recent'
  <1> DEFINE fresh == {k \in DOMAIN inbox : inbox[k].at >= today}
  <1>1. /\ inbox' = SelectPlaces(inbox, fresh) /\ today' = today + 1 /\ reported' = reported
        /\ foreign' = foreign /\ Sure' = Sure
    BY DEF NextDay, Sure
  <1>n. today \in Nat /\ inbox \in Seq(Line)
    BY Numbers DEF WorldInv, Lines
  <1>2. /\ \A k \in DOMAIN inbox' : \E n \in fresh : inbox'[k] = inbox[n]
        /\ \A n \in fresh : \E k \in DOMAIN inbox' : inbox'[k] = inbox[n]
    <2>1. fresh \subseteq DOMAIN inbox
      OBVIOUS
    <2> HIDE DEF fresh
    <2>2. QED
      BY <1>1, <1>n, <2>1, SelectedElements
  <1>3. ASSUME NEW k \in DOMAIN inbox'
        PROVE  /\ inbox'[k].at \in today' - 1 .. today'
               /\ inbox'[k].name \in Sure' => inbox'[k].date \in inbox'[k].at - 1 .. inbox'[k].at
    <2>1. PICK n \in fresh : inbox'[k] = inbox[n]
      BY <1>2
    <2>2. inbox[n].at >= today /\ inbox[n].at \in today - 1 .. today
          /\ (inbox[n].name \in Sure => inbox[n].date \in inbox[n].at - 1 .. inbox[n].at)
      BY <2>1 DEF Recent
    <2>3. inbox[n].at \in (today + 1) - 1 .. today + 1
      BY <1>n, <2>2
    <2>4. QED
      BY <1>1, <2>1, <2>2, <2>3
  <1>4. Reports' = Reports
    BY <1>1 DEF Reports
  <1>5. ASSUME NEW m \in Sure', NEW d \in Days, <<m, d>> \in Reports', d >= today' - 1
        PROVE  \E k \in DOMAIN inbox' : inbox'[k].name = m /\ inbox'[k].date = d
    <2>1. d \in Nat /\ d >= today /\ d >= today - 1
      <3>1. d \in Nat
        BY Numbers
      <3>2. QED
        BY <1>1, <1>5, <1>n, <3>1
    <2>2. PICK n \in DOMAIN inbox : inbox[n].name = m /\ inbox[n].date = d
      BY <1>1, <1>4, <1>5, <2>1 DEF Recent
    <2>4. d \in inbox[n].at - 1 .. inbox[n].at /\ inbox[n].at \in Nat
      BY <1>1, <2>2, LineFields DEF Recent, WorldInv
    <2>5. inbox[n].at >= today
      BY <1>n, <2>1, <2>4
    <2>6. n \in fresh
      BY <2>5
    <2>7. QED
      BY <1>2, <2>2, <2>6
  <1>6. QED
    BY <1>3, <1>5 DEF Recent

\* The mailbox, a new day and the collection of the subjects.
LEMMA MailboxAlone ==
  ASSUME Alone, AloneInv, CatalogInv',
         \/ \E m \in Machines, o \in Outcomes, d \in Days : Report(m, o, d)
         \/ OtherMail \/ NextDay \/ Collect \/ UNCHANGED vars
  PROVE  AloneInv'
  <1>w. WorldInv /\ Recent /\ CatalogInv
    BY DEF AloneInv, CatalogInv
  <1>1. UNCHANGED <<fstate, file, pc, mails, next, cutoff, loaded, doc, machine, date>>
    BY DEF Report, OtherMail, NextDay, Collect, vars, locals
  <1>2. Recent'
    <2>1. CASE Collect \/ UNCHANGED vars
      <3>1. UNCHANGED <<inbox, today, reported, foreign>>
        BY <2>1 DEF Collect, vars
      <3>2. Reports' = Reports /\ Sure' = Sure
        BY <3>1 DEF Reports, Sure
      <3>3. QED
        BY <1>w, <3>1, <3>2 DEF Recent
    <2>2. QED
      BY <1>w, <2>1, RecentReport, RecentOther, RecentDay
  <1>3. txt' = txt \/ txt' = inbox
    <2>1. CASE Collect
      <3>1. txt' = SubSeq(inbox, 1, Len(inbox))
        BY <2>1 DEF Collect, Alone
      <3>2. inbox \in Seq(Line)
        BY <1>w DEF WorldInv, Lines
      <3>3. SubSeq(inbox, 1, Len(inbox)) = inbox
        BY <3>2
      <3>4. QED
        BY <3>1, <3>3
    <2>2. CASE ~ Collect
      BY <2>2 DEF Report, OtherMail, NextDay, vars
    <2>3. QED
      BY <2>1, <2>2
  <1>4. Draft(file, Reports)
    BY <1>w, FirstDrafts DEF WorldInv, Saved
  <1>s. Sure' \subseteq Sure
    <2>1. foreign \subseteq foreign'
      <3>1. CASE OtherMail
        BY <1>w, <3>1, OtherAdds
      <3>2. CASE ~ OtherMail
        BY <3>2 DEF Report, NextDay, Collect, vars
      <3>3. QED
        BY <3>1, <3>2
    <2>2. QED
      BY <2>1 DEF Sure
  <1>5. CoversAll(txt', file, Sure')
    <2>1. CoversAll(txt', file, Sure)
      BY <1>3, <1>4, <1>w, InboxCoversAll DEF AloneInv
    <2>2. QED
      BY <1>s, <2>1, FewerMachines
  <1>6. ASSUME NEW p \in Exporters PROVE Ahead(p)' /\ Stage(p)'
    <2>1. Lines(mails[p], Reports) /\ Draft(doc[p], Reports)
      BY <1>w DEF CatalogInv, ExporterInv
    <2>2. CoversAll(inbox, mails[p], Sure) /\ CoversAll(inbox, doc[p], Sure)
      BY <1>w, <2>1, InboxCoversAll
    <2>3. Ahead(p) /\ Stage(p)
      BY DEF AloneInv
    <2>4. /\ CoversAll(txt', mails[p], Sure) /\ CoversAll(txt', doc[p], Sure)
          /\ pc[p] # "idle" => CoversAll(mails[p], file, Sure)
      BY <1>3, <2>2, <2>3 DEF Ahead
    <2>5. /\ CoversAll(txt', mails[p], Sure') /\ CoversAll(txt', doc[p], Sure')
          /\ pc[p] # "idle" => CoversAll(mails[p], file, Sure')
      BY <1>s, <2>4, FewerMachines
    <2>6. Ahead(p)'
      BY <1>1, <2>5 DEF Ahead
    <2>7. pc[p] = "save" => Saving(file, doc[p], mails[p], cutoff[p], Sure')
      BY <1>s, <2>3, FewerMachines DEF Stage
    <2>8. Stage(p)'
      BY <1>1, <2>3, <2>7 DEF Stage
    <2>9. QED
      BY <2>6, <2>8
  <1>7. QED
    BY <1>1, <1>2, <1>5, <1>6 DEF AloneInv

\* A step of the exporter leaves the tracking log and the text file alone.
LEMMA ExporterAlone ==
  ASSUME Alone, AloneInv, CatalogInv', NEW p \in Exporters, UNCHANGED world,
         CoversAll(txt, file', Sure), fstate' = "absent" => file' = <<>>, Ahead(p)', Stage(p)'
  PROVE  AloneInv'
  <1>1. UNCHANGED <<today, inbox, reported, foreign, txt>>
    BY DEF world
  <1>2. Reports' = Reports /\ Sure' = Sure
    BY <1>1 DEF Reports, Sure
  <1>3. Recent'
    BY <1>1, <1>2 DEF AloneInv, Recent
  <1>4. \A q \in Exporters : q = p
    BY DEF Alone
  <1>5. \A q \in Exporters : Ahead(q)' /\ Stage(q)'
    BY <1>4
  <1>6. QED
    BY <1>1, <1>2, <1>3, <1>5 DEF AloneInv

\* The start of an export: the lines are those of the text file.
LEMMA OpenAlone ==
  ASSUME Alone, AloneInv, CatalogInv', NEW p \in Exporters, Open(p)
  PROVE  AloneInv'
  <1>w. WorldInv /\ SavesLoaded /\ LocalTypes
    BY DEF AloneInv, CatalogInv
  <1>1. /\ pc[p] = "idle" /\ pc'[p] = "open" /\ mails'[p] = txt
        /\ doc'[p] = file \/ doc'[p] = <<>>
        /\ loaded'[p] => fstate = "ok"
        /\ next'[p] = next[p] /\ machine'[p] = machine[p]
        /\ UNCHANGED <<world, fstate, file>>
    BY <1>w, OpenValues
  <1>2. UNCHANGED world /\ txt' = txt /\ fstate' = fstate /\ file' = file /\ Sure' = Sure
    BY <1>1 DEF world, Sure
  <1>3. CoversAll(txt, txt, Sure) /\ CoversAll(txt, <<>>, Sure) /\ CoversAll(txt, file, Sure)
    BY <1>w, CoversItself DEF WorldInv, AloneInv
  <1>4. Ahead(p)'
    BY <1>1, <1>2, <1>3 DEF Ahead
  <1>5. Stage(p)'
    BY <1>1, <1>2 DEF Stage, AloneInv
  <1>6. QED
    BY <1>2, <1>3, <1>4, <1>5, ExporterAlone DEF AloneInv

\* The document is the file, or none could be loaded.
LEMMA LoadAlone ==
  ASSUME Alone, AloneInv, CatalogInv', NEW p \in Exporters, Load(p)
  PROVE  AloneInv' /\ (file' = file \/ file = <<>>)
  <1>w. WorldInv /\ SavesLoaded /\ LocalTypes /\ Ahead(p) /\ Stage(p)
    BY DEF AloneInv, CatalogInv
  <1>1. /\ pc[p] = "open" /\ pc'[p] = "loop"
        /\ file' = IF fstate = "absent" THEN Template ELSE file
        /\ fstate' = IF fstate = "absent" THEN "ok" ELSE fstate
        /\ doc'[p] = IF fstate = "torn" THEN doc[p] ELSE file'
        /\ fstate = "torn" => loaded'[p] = loaded[p]
        /\ mails'[p] = mails[p] /\ next'[p] = next[p] /\ machine'[p] = machine[p]
        /\ UNCHANGED world
    BY <1>w, LoadValues
  <1>2. txt' = txt /\ Sure' = Sure
    BY <1>1 DEF world, Sure
  <1>3. CoversAll(txt, Template, Sure) /\ CoversAll(mails[p], Template, Sure) /\ Lines(mails[p], Reports)
    BY <1>w, CoversItself DEF WorldInv, ExporterInv, CatalogInv, AloneInv
  <1>4. CoversAll(txt, file', Sure) /\ CoversAll(mails[p], file', Sure)
    BY <1>1, <1>3, <1>w DEF AloneInv, Ahead
  <1>5. Ahead(p)'
    BY <1>1, <1>2, <1>4, <1>w DEF Ahead
  <1>6. next[p] = 1 /\ machine[p] = NoName /\ (loaded[p] => fstate = "ok")
    BY <1>1, <1>w DEF Stage
  <1>7. Draft(file', Reports')
    BY FirstDrafts DEF CatalogInv, WorldInv, Saved
  <1>8. loaded'[p] => doc'[p] = file'
    BY <1>1, <1>6
  <1>9. Editing(file', file', mails[p], 1)
    BY <1>3, <1>7, EditStart
  <1>10. NoName \notin Machines
    BY MachinesAssumption DEF NoName
  <1>11. Pointer(mails[p], 1, NoName, date'[p])
    BY <1>10 DEF Pointer
  <1>12. Stage(p)'
    BY <1>1, <1>6, <1>8, <1>9, <1>11 DEF Stage
  <1>13. fstate' = "absent" => file' = <<>>
    BY <1>1
  <1>14. QED
    BY <1>1, <1>4, <1>5, <1>12, <1>13, ExporterAlone DEF AloneInv

\* One line.
LEMMA HandleAlone ==
  ASSUME Alone, AloneInv, CatalogInv', NEW p \in Exporters, Handle(p)
  PROVE  AloneInv'
  <1>w. WorldInv /\ SavesLoaded /\ LocalTypes /\ Ahead(p) /\ Stage(p) /\ CatalogInv /\ ExporterInv(p)
    BY DEF AloneInv, CatalogInv
  <1>1. /\ pc[p] = "loop"
        /\ doc'[p] = IF loaded[p] THEN Put(doc[p], machine'[p], "0", date'[p]) ELSE doc[p]
        /\ next'[p] = next[p] + 1
        /\ UNCHANGED <<world, fstate, file, pc, mails, cutoff, loaded>>
    BY <1>w, HandleValues
  <1>2. UNCHANGED world /\ txt' = txt /\ fstate' = fstate /\ file' = file /\ pc' = pc
        /\ mails' = mails /\ loaded' = loaded /\ Sure' = Sure
    BY <1>1 DEF world, Sure
  <1>3. /\ next[p] \in DOMAIN mails[p]
        /\ machine'[p] \in Names /\ date'[p] \in Nat
    BY <1>w, LinePlain
  <1>4. Follows(mails[p], next[p], machine[p], date[p], machine'[p], date'[p])
    BY <1>w, LinePlain
  <1>5. Lines(mails[p], Reports) /\ Draft(doc[p], Reports) /\ Draft(file, Reports)
    BY <1>w, FirstDrafts DEF ExporterInv, WorldInv, Saved
  <1>6. CASE ~ loaded[p]
    <2>1. doc'[p] = doc[p]
      BY <1>1, <1>6
    <2>2. Ahead(p)'
      BY <1>2, <1>w, <2>1 DEF Ahead
    <2>3. Stage(p)'
      BY <1>1, <1>2, <1>6 DEF Stage
    <2>4. QED
      BY <1>2, <2>2, <2>3, ExporterAlone DEF AloneInv
  <1>7. CASE loaded[p]
    <2>1. doc'[p] = Put(doc[p], machine'[p], "0", date'[p])
      BY <1>1, <1>7
    <2>2. Editing(file, doc[p], mails[p], next[p]) /\ Pointer(mails[p], next[p], machine[p], date[p])
      BY <1>1, <1>7, <1>w DEF Stage
    <2>3. Pointer(mails[p], next[p] + 1, machine'[p], date'[p])
      BY <1>3, <1>4, <1>5, <2>2, PointerStep
    <2>4. Editing(file, doc'[p], mails[p], next[p] + 1)
      BY <1>3, <1>4, <1>5, <2>1, <2>2, EditStep
    <2>5. Stage(p)'
      BY <1>1, <1>2, <2>3, <2>4 DEF Stage
    <2>6. machine'[p] \in Sure => Covers(txt, machine'[p], date'[p])
      <3>1. SUFFICES ASSUME machine'[p] \in Sure PROVE Covers(txt, machine'[p], date'[p])
        OBVIOUS
      <3>2. PICK k \in DOMAIN mails[p] :
              /\ LastLine(mails[p], next[p] + 1, machine'[p], k)
              /\ mails[p][k].date \in {date'[p], NoDate}
        BY <2>3, <3>1 DEF Pointer, Sure
      <3>3. mails[p][k].name = machine'[p] /\ machine'[p] # NoName
        BY <3>1, <3>2, MachinesAssumption DEF LastLine, Sure, NoName
      <3>4. <<machine'[p], mails[p][k].date>> \in Reports
        BY <1>5, <3>3 DEF Lines, Plain
      <3>5. mails[p][k].date = date'[p]
        BY <1>w, <3>1, <3>2, <3>4, SureIsSound DEF Sound
      <3>6. QED
        BY <1>w, <3>1, <3>3, <3>5 DEF Ahead, CoversAll
    <2>7. CoversAll(txt, doc'[p], Sure)
      <3>1. SUFFICES ASSUME NEW k \in DOMAIN doc'[p], doc'[p][k].name \in Sure
                     PROVE  Covers(txt, doc'[p][k].name, doc'[p][k].date)
        BY DEF CoversAll
      <3>2. PICK j : /\ j = Job(machine'[p], "0", date'[p])
                     /\ j.name = machine'[p] /\ j.date = date'[p]
        BY <1>3, JobFacts
      <3>3. doc'[p][k] = j \/ (k \in DOMAIN doc[p] /\ doc'[p][k] = doc[p][k])
        <4>1. doc[p] \in Seq(JobType)
          BY <1>5 DEF Draft
        <4>2. /\ \A i \in DOMAIN doc[p] :
                   doc'[p][i] = IF doc[p][i].name = machine'[p] THEN j ELSE doc[p][i]
              /\ \A i \in DOMAIN doc'[p] : i \in DOMAIN doc[p] \/ doc'[p][i] = j
          BY <1>3, <2>1, <3>2, <4>1, PutFacts
        <4>3. QED
          BY <4>2
      <3>4. CASE doc'[p][k] = j
        BY <2>6, <3>1, <3>2, <3>4
      <3>5. CASE k \in DOMAIN doc[p] /\ doc'[p][k] = doc[p][k]
        BY <1>w, <3>1, <3>5 DEF Ahead, CoversAll
      <3>6. QED
        BY <3>3, <3>4, <3>5
    <2>8. Ahead(p)'
      BY <1>2, <1>w, <2>7 DEF Ahead
    <2>9. QED
      BY <1>2, <2>5, <2>8, ExporterAlone DEF AloneInv
  <1>8. QED
    BY <1>6, <1>7

\* The clean-up: what will be saved drops nothing fresh and does not go back.
LEMMA SaveBeginAlone ==
  ASSUME Alone, AloneInv, CatalogInv', NEW p \in Exporters, SaveBegin(p)
  PROVE  AloneInv'
  <1>w. WorldInv /\ SavesLoaded /\ LocalTypes /\ Ahead(p) /\ Stage(p) /\ ExporterInv(p)
    BY DEF AloneInv, CatalogInv
  <1>1. /\ pc[p] = "loop" /\ pc'[p] = "save" /\ next[p] > Len(mails[p]) /\ loaded[p]
        /\ doc'[p] = Clean(doc[p], cutoff[p]) /\ fstate' = "torn"
        /\ UNCHANGED <<world, file, mails, cutoff>>
    BY <1>w, SaveValues
  <1>2. UNCHANGED world /\ txt' = txt /\ file' = file /\ mails' = mails /\ cutoff' = cutoff
        /\ Sure' = Sure
    BY <1>1 DEF world, Sure
  <1>3. Lines(mails[p], Reports) /\ Draft(doc[p], Reports) /\ Draft(file, Reports)
    BY <1>w, FirstDrafts DEF ExporterInv, WorldInv, Saved
  <1>4. /\ cutoff[p] \in Nat \ {0} /\ next[p] \in Nat
        /\ Reports \subseteq (Machines \cup OtherNames) \X Nat
    <2>1. cutoff[p] \in 1 .. today - Keep /\ cutoff[p] \in Nat /\ next[p] \in Nat
      BY <1>1, <1>w DEF ExporterInv, LocalTypes
    <2>2. QED
      BY <1>w, <2>1, Numbers
  <1>5. Editing(file, doc[p], mails[p], next[p]) /\ CoversAll(mails[p], file, Sure)
    BY <1>1, <1>w DEF Stage, Ahead
  <1>6. Saving(file, doc'[p], mails[p], cutoff[p], Sure)
    BY <1>1, <1>3, <1>4, <1>5, <1>w, SureIsSound, EditEnd
  <1>7. Stage(p)'
    BY <1>1, <1>2, <1>6 DEF Stage
  <1>8. \A k \in DOMAIN doc'[p] : \E j \in DOMAIN doc[p] : doc'[p][k] = doc[p][j]
    BY <1>1, <1>3, <1>4, CleanFacts
  <1>9. CoversAll(txt, doc'[p], Sure)
    BY <1>8, <1>w DEF Ahead, CoversAll
  <1>10. Ahead(p)'
    BY <1>1, <1>2, <1>5, <1>9, <1>w DEF Ahead
  <1>11. QED
    BY <1>1, <1>2, <1>7, <1>10, ExporterAlone DEF AloneInv

\* The end of the export.
LEMMA EndAlone ==
  ASSUME Alone, AloneInv, CatalogInv', NEW p \in Exporters, SaveFails(p) \/ SaveEnd(p) \/ Kill(p)
  PROVE  AloneInv'
  <1>w. WorldInv /\ SavesLoaded /\ LocalTypes /\ Ahead(p)
    BY DEF AloneInv, CatalogInv
  <1>1. Exit(p) /\ UNCHANGED world
    BY DEF SaveFails, SaveEnd, Kill
  <1>2. \/ file' = file /\ fstate' = fstate
        \/ file' = doc[p] /\ fstate' = "ok"
    BY DEF SaveFails, SaveEnd, Kill
  <1>3. txt' = txt /\ Sure' = Sure
    BY <1>1 DEF world, Sure
  <1>4. /\ pc'[p] = "idle" /\ mails'[p] = <<>> /\ next'[p] = 1 /\ doc'[p] = <<>> /\ machine'[p] = NoName
    BY <1>1, <1>w, ExitValues
  <1>5. CoversAll(txt, file', Sure)
    BY <1>2, <1>w DEF AloneInv, Ahead
  <1>6. CoversAll(txt, <<>>, Sure)
    BY <1>w, CoversItself DEF WorldInv
  <1>7. Ahead(p)'
    BY <1>3, <1>4, <1>6 DEF Ahead
  <1>8. Stage(p)'
    BY <1>4 DEF Stage
  <1>9. fstate' = "absent" => file' = <<>>
    BY <1>2 DEF AloneInv
  <1>10. QED
    BY <1>1, <1>5, <1>7, <1>8, <1>9, ExporterAlone

\* All steps.
LEMMA AloneStep ==
  ASSUME Alone
  PROVE  AloneInv /\ [Next]_vars => AloneInv'
  <1> SUFFICES ASSUME AloneInv, [Next]_vars PROVE AloneInv'
    OBVIOUS
  <1>1. CatalogInv'
    BY CatalogStep DEF AloneInv
  <1>2. CASE \/ \E m \in Machines, o \in Outcomes, d \in Days : Report(m, o, d)
             \/ OtherMail \/ NextDay \/ Collect \/ UNCHANGED vars
    BY <1>1, <1>2, MailboxAlone
  <1>3. ASSUME NEW p \in Exporters, ExporterStep(p) \/ Kill(p) PROVE AloneInv'
    BY <1>1, <1>3, OpenAlone, LoadAlone, HandleAlone, SaveBeginAlone, EndAlone DEF ExporterStep
  <1>4. QED
    BY <1>2, <1>3 DEF Next

\* The catalog changes when the template replaces no file at all, and when a save ends.
LEMMA FileChanges ==
  ASSUME Alone, AloneInv, [Next]_vars
  PROVE  \/ file' = file
         \/ file = <<>>
         \/ \E p \in Exporters : SaveEnd(p)
  <1>1. CatalogInv'
    BY CatalogStep DEF AloneInv
  <1>2. CASE \/ \E m \in Machines, o \in Outcomes, d \in Days : Report(m, o, d)
             \/ OtherMail \/ NextDay \/ Collect \/ UNCHANGED vars
    BY <1>2 DEF Report, OtherMail, NextDay, Collect, vars
  <1>3. ASSUME NEW p \in Exporters, Open(p) \/ Handle(p) \/ SaveBegin(p) \/ SaveFails(p) \/ Kill(p)
        PROVE  file' = file
    BY <1>3 DEF Open, Handle, SaveBegin, SaveFails, Kill
  <1>4. ASSUME NEW p \in Exporters, Load(p) PROVE file' = file \/ file = <<>>
    BY <1>1, <1>4, LoadAlone
  <1>5. QED
    BY <1>2, <1>3, <1>4 DEF Next, ExporterStep

\* What a save that ends does.
LEMMA SaveEndFacts ==
  ASSUME AloneInv, NEW p \in Exporters, SaveEnd(p)
  PROVE  /\ pc[p] = "save" /\ file' = doc[p] /\ Saving(file, doc[p], mails[p], cutoff[p], Sure)
         /\ cutoff[p] \in Nat /\ today - Keep \in Nat /\ cutoff[p] <= today - Keep
         /\ Draft(file, Reports)
  <1>1. pc[p] = "save" /\ file' = doc[p]
    BY DEF SaveEnd
  <1>2. WorldInv /\ Stage(p) /\ ExporterInv(p)
    BY DEF AloneInv, CatalogInv
  <1>3. cutoff[p] \in 1 .. today - Keep
    BY <1>1, <1>2 DEF ExporterInv
  <1>4. Keep \in Nat /\ today \in Nat /\ today > Keep
    BY <1>2, Numbers
  <1>5. QED
    BY <1>1, <1>2, <1>3, <1>4, FirstDrafts DEF Stage, WorldInv, Saved

(***************************************************************************)
(* With one exporter and a text file read whole a machine leaves the       *)
(* catalog only when it has not reported for more than Keep days, when a   *)
(* late mail was handled behind a newer one, or when other mail carried    *)
(* its name (VeeamAgentFreeToZabbix.ps1, lines 131-174), for any machines, *)
(* retention and days, and wherever an export is killed.                   *)
(***************************************************************************)
THEOREM NothingForgotten == Alone /\ Spec => NotForgotten
  <1> SUFFICES ASSUME Alone PROVE Spec => NotForgotten
    OBVIOUS
  <1>1. AloneInv /\ [Next]_vars =>
          [\A e \in Range(file) : e.name \in Machines \ (NamesOf(file') \cup foreign)
              => e.date < today - Keep \/ LateMail(e.name)]_vars
    <2> SUFFICES ASSUME AloneInv, [Next]_vars, NEW e \in Range(file), e.name \in Sure,
                        e.name \notin NamesOf(file')
                 PROVE  e.date < today - Keep \/ LateMail(e.name)
      BY DEF Sure
    <2>1. PICK k \in DOMAIN file : e = file[k]
      BY DEF Range
    <2>2. file' # file /\ file # <<>>
      BY <2>1, NamesAt
    <2>3. PICK p \in Exporters : SaveEnd(p)
      BY <2>2, FileChanges
    <2>4. /\ pc[p] = "save" /\ file' = doc[p] /\ Saving(file, doc[p], mails[p], cutoff[p], Sure)
          /\ cutoff[p] \in Nat /\ today - Keep \in Nat /\ cutoff[p] <= today - Keep
          /\ Draft(file, Reports)
      BY <2>3, SaveEndFacts
    <2>5. e.date < cutoff[p] \/ ~ InOrder(mails[p], e.name)
      BY <2>1, <2>4 DEF Saving
    <2>6. e.date \in Nat
      BY <2>1, <2>4, JobFields
    <2>7. e.date < cutoff[p] => e.date < today - Keep
      BY <2>4, <2>6
    <2>8. QED
      BY <2>4, <2>5, <2>7 DEF LateMail
  <1>2. QED
    BY <1>1, AloneInitially, AloneStep, PTL DEF Spec, NotForgotten

(***************************************************************************)
(* With one exporter and a text file read whole an export replaces the     *)
(* report of a machine, whose name no other mail has carried, by an older  *)
(* one only when the lines it has read hold the older report behind the    *)
(* newer one: the text file never falls behind the catalog, although it is *)
(* collected anew at any time.                                             *)
(***************************************************************************)
THEOREM DatesGoForward == Alone /\ Spec => DatesAdvance
  <1> SUFFICES ASSUME Alone PROVE Spec => DatesAdvance
    OBVIOUS
  <1>1. AloneInv /\ [Next]_vars =>
          [\A e \in Range(file), f \in Range(file') :
              e.name = f.name /\ f.date < e.date
                => e.name \in foreign \/ LateMail(e.name)]_vars
    <2> SUFFICES ASSUME AloneInv, [Next]_vars, NEW e \in Range(file), NEW f \in Range(file'),
                        e.name = f.name, f.date < e.date, e.name \notin foreign
                 PROVE  LateMail(e.name)
      OBVIOUS
    <2>1. PICK k \in DOMAIN file : e = file[k]
      BY DEF Range
    <2>2. PICK j \in DOMAIN file' : f = file'[j]
      BY DEF Range
    <2>3. file # <<>>
      BY <2>1
    <2>d. Draft(file, Reports) /\ WorldInv
      BY FirstDrafts DEF AloneInv, CatalogInv, WorldInv, Saved
    <2>4. file' # file
      <3>1. SUFFICES ASSUME file' = file PROVE FALSE
        OBVIOUS
      <3>2. e.date \in Nat /\ f.date \in Nat
        BY <2>1, <2>2, <2>d, <3>1, JobFields
      <3>3. e.date # f.date
        BY <3>2
      <3>4. e.name = "default"
        BY <2>1, <2>2, <2>d, <3>1, <3>3 DEF Draft, Distinct
      <3>5. file = Template
        BY <2>1, <3>4 DEF AloneInv, CatalogInv, WorldInv, Saved
      <3>t. \A x \in DOMAIN Template : Template[x].date = DefaultDate
        BY DEF Template, Job
      <3>6. QED
        BY <2>1, <2>2, <3>1, <3>3, <3>5, <3>t
    <2>5. PICK p \in Exporters : SaveEnd(p)
      BY <2>3, <2>4, FileChanges
    <2>6. pc[p] = "save" /\ file' = doc[p] /\ Saving(file, doc[p], mails[p], cutoff[p], Sure)
      BY <2>5, SaveEndFacts
    <2>s. e.name \in Sure
      <3>1. f.name \notin {"default", NoName} /\ Known(f, Reports)
        BY <2>2, <2>6 DEF AloneInv, CatalogInv, ExporterInv, Saved, Draft
      <3>2. Job("default", "default", DefaultDate).name = "default"
        BY DEF Job
      <3>3. <<f.name, f.date>> \in Reports
        BY <3>1, <3>2 DEF Known, Plain
      <3>4. f.name \in Machines
        BY <2>d, <3>3, Numbers
      <3>5. QED
        BY <3>4 DEF Sure
    <2>7. ~ InOrder(mails[p], e.name)
      BY <2>1, <2>2, <2>6, <2>s DEF Saving
    <2>8. QED
      BY <2>6, <2>7 DEF LateMail
  <1>2. QED
    BY <1>1, AloneInitially, AloneStep, PTL DEF Spec, DatesAdvance

(***************************************************************************)
(* With one exporter and a text file read whole every machine whose fresh  *)
(* report an export has read is in the catalog it saves, if the catalog    *)
(* had two jobs to begin with (addxml clones the second one) and no mail   *)
(* of the machine was late.                                                *)
(***************************************************************************)
THEOREM ReportersAreListed == Alone /\ Spec => ListedIfClonable
  <1> SUFFICES ASSUME Alone PROVE Spec => ListedIfClonable
    OBVIOUS
  <1>1. AloneInv /\ [Next]_vars =>
          [Len(file) >= 2 => \A p \in Exporters, m \in Machines : Listing(p, m)]_vars
    <2> SUFFICES ASSUME AloneInv, [Next]_vars, Len(file) >= 2, NEW p \in Exporters, NEW m \in Machines
                 PROVE  Listing(p, m)
      OBVIOUS
    <2>1. SUFFICES ASSUME pc[p] = "save", pc'[p] = "idle", fstate' = "ok", InOrder(mails[p], m),
                          NEW s \in Range(mails[p]), s.name = m, s.date >= cutoff[p]
                   PROVE  m \in NamesOf(file')
      BY DEF Listing
    <2>2. Stage(p) /\ fstate = "torn"
      BY <2>1 DEF AloneInv, Stage
    <2>3. SaveEnd(p)
      <3>1. \A q \in Exporters : q = p
        BY DEF Alone
      <3>2. ~ \/ \E n \in Machines, o \in Outcomes, d \in Days : Report(n, o, d)
              \/ OtherMail \/ NextDay \/ Collect \/ UNCHANGED vars
        BY <2>1, <2>2 DEF Report, OtherMail, NextDay, Collect, vars
      <3>3. ASSUME NEW q \in Exporters, Open(q) \/ Load(q) \/ Handle(q) \/ SaveBegin(q) \/ SaveFails(q)
            PROVE  FALSE
        BY <2>1, <3>1, <3>3 DEF Open, Load, Handle, SaveBegin, SaveFails
      <3>4. ASSUME NEW q \in Exporters, Kill(q) PROVE FALSE
        BY <2>1, <2>2, <3>4 DEF Kill
      <3>5. PICK q \in Exporters : SaveEnd(q)
        BY <3>2, <3>3, <3>4 DEF Next, ExporterStep
      <3>6. QED
        BY <3>1, <3>5
    <2>4. file' = doc[p] /\ Saving(file, doc[p], mails[p], cutoff[p], Sure)
      BY <2>3, SaveEndFacts
    <2>5. PICK k \in DOMAIN mails[p] : s = mails[p][k]
      BY DEF Range
    <2>6. QED
      BY <2>1, <2>4, <2>5 DEF Saving
  <1>2. QED
    BY <1>1, AloneInitially, AloneStep, PTL DEF Spec, ListedIfClonable
=============================================================================
