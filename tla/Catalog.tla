------------------------------ MODULE Catalog -------------------------------
(***************************************************************************)
(* The XML catalog that the Zabbix scripts keep: a list of jobs, each with *)
(* a name, a result and the date of its last report.  A document is the    *)
(* sequence of the job elements in document order.  These operators are    *)
(* the edits that the ExportXml branch of VeeamAgentFreeToZabbix.ps1 makes *)
(* to the document it has loaded.                                          *)
(*                                                                         *)
(* Dates are strings yyyy.MM.dd HH:mm, which -lt compares in time order:   *)
(* here they are days.  NoDate is the empty string, before every date, and *)
(* DefaultDate the word default of the template, behind every date.        *)
(***************************************************************************)
EXTENDS Integers, Sequences, Functions, Selection

NoDate == 0
DefaultDate == 9999

Job(n, r, d) == [name |-> n, result |-> r, date |-> d]

\* The file that is written when there is none: two jobs called default.
Template == <<Job("default", "default", DefaultDate), Job("default", "default", DefaultDate)>>

NamesOf(doc) == {e.name : e \in Range(doc)}

\* Wrong variant: the new job is cloned from the third job.
addxmlThird(doc, n, r, d) ==
    IF Len(doc) < 3 THEN doc ELSE Append(doc, Job(n, r, d))

\* A new job is a clone of the second one.  A catalog with fewer than two
\* jobs has none to clone: the error is silent and the document unchanged.
addxml(doc, n, r, d) ==
    IF Len(doc) < 2 THEN doc ELSE Append(doc, Job(n, r, d))

\* Every job of that name gets the result and the date.
Update(doc, n, r, d) ==
    [k \in DOMAIN doc |-> IF doc[k].name = n THEN Job(n, r, d) ELSE doc[k]]

\* Wrong variant: a name that is in the catalog is added again.
PutAgain(doc, n, r, d) == Update(addxml(doc, n, r, d), n, r, d)

\* What one message does to the document.
Put(doc, n, r, d) ==
    Update(IF n \in NamesOf(doc) THEN doc ELSE addxml(doc, n, r, d), n, r, d)

\* Of several jobs with one name those of the latest date stay.
Dedupe(doc) ==
    SelectPlaces(doc, {k \in DOMAIN doc :
        \A f \in Range(doc) : f.name = doc[k].name => f.date <= doc[k].date})

DropDefault(doc) == SelectPlaces(doc, {k \in DOMAIN doc : doc[k].name # "default"})

\* Wrong variant: a job that is exactly as old as the limit goes, too.
ExpireEarly(doc, cutoff) == SelectPlaces(doc, {k \in DOMAIN doc : doc[k].date > cutoff})

\* Jobs without a report since the cutoff are removed.
Expire(doc, cutoff) == SelectPlaces(doc, {k \in DOMAIN doc : doc[k].date >= cutoff})

\* What is done to the document after the last message.
Clean(doc, cutoff) == Expire(DropDefault(Dedupe(doc)), cutoff)
=============================================================================
