------------------------------ MODULE AddUser ------------------------------
(***************************************************************************)
(* src/PS/adduser.ps1: the staff list Org.csv is compared with the last     *)
(* snapshot of it, and every row that is new or changed is applied to the   *)
(* directory: an account is created, changed or dismissed.                  *)
(*                                                                         *)
(* A row keeps the fields that decide what happens: the number of the       *)
(* person, the name, the place in the tree, the contact fields and whether  *)
(* the person is employed.  The contact fields stand for all others; what   *)
(* matters about them is what they are as a regular expression.             *)
(***************************************************************************)
EXTENDS Integers, Sequences, FiniteSetsExt, Selection

CONSTANTS
  NULL,
  People,      \* numbers that name an account
  NoNumbers,   \* empty numbers and numbers that start with a digit
  Admin,       \* the account pu04984
  Names,       \* surnames, the empty one among them
  Units,       \* organizational units
  Lists,       \* the staff lists that may be published: sequences of rows
  MaxErrors,   \* the capacity of $Error, 256 in PowerShell
  MaxRuns,     \* bound: runs of the script
  MaxFaults    \* bound: calls that fail

\* A row of a staff list, and an account: a name may carry underscores, and is made
\* from $firstname, which may be $null.
Contacts == {"plain", "dot", "plus"}
StaffRow == [ipn : People \cup NoNumbers, name : Names, ou : Units,
             contact : Contacts, active : BOOLEAN]
Account  == [name : (Names \cup {NULL}) \X Nat, enabled : BOOLEAN,
             contact : Contacts, ou : Units \cup {"Dismissed"}]

ASSUME UserAssumption ==
  /\ Admin \in People /\ People \cap NoNumbers = {} /\ IsFiniteSet(People)
  /\ NULL \notin Account /\ Lists \subseteq Seq(StaffRow)
  /\ MaxErrors \in Nat \ {0, 1} /\ MaxRuns \in Nat /\ MaxFaults \in Nat

VARIABLES
  org, fresh,           \* Org.csv, and whether it was written in the last 20 hours
  old,                  \* the last snapshot in C:\OLD_ADU\Log
  trim,                 \* $filenew: the list as this run read it
  results,              \* C:\OLD_ADU\Compare_log: one list of changed rows per run
  pc, i,                \* the statement the run has reached, and the row of $ADUsers
  firstname,            \* $firstname, which survives a row that cannot set it
  errors, erorcount,    \* $Error.count and the count at the last report
  ad, ous, sql,         \* accounts, organizational units, first logins in SQL
  errlog,               \* Errorlog: the run and the number of the person
  faults, cut           \* calls that failed so far; runs killed or with a full $Error

userVars == <<org, fresh, old, trim, results, pc, i, firstname, errors, erorcount,
              ad, ous, sql, errlog, faults, cut>>

run == Len(results)
row == results[run][i]
Accounts == {u \in People : ad[u] # NULL}

\* The contact fields that a contact field of a new row matches, used as a regular
\* expression: a dot matches any character, a plus sign is an operator.
Pattern(contact) ==
  CASE contact = "plain" -> {"plain"}
    [] contact = "dot"   -> {"dot", "plain"}
    [] contact = "plus"  -> {}

\* Select-String: a line of the old list matches the new row.
Matches(r, o) == o = [r EXCEPT !.contact = o.contact] /\ o.contact \in Pattern(r.contact)
Found(r, list) == \E k \in DOMAIN list : Matches(r, list[k])

\* The rows of a list without a match in the snapshot, in their order.
Changed(list, snapshot) ==
  SelectPlaces(list, {n \in DOMAIN list : ~ Found(list[n], snapshot)})

\* SName: the name with as many underscores as it takes to be the only one.
SName(name) ==
  LET Taken(n) == \E u \in Accounts : ad[u].name = <<name, n>>
  IN <<name, CHOOSE n \in 0 .. Cardinality(People) : ~ Taken(n) /\ \A m \in 0 .. n - 1 : Taken(m)>>

UserInit ==
  /\ org \in Lists /\ fresh = TRUE
  /\ old = <<>> /\ trim = <<>> /\ results = <<>>
  /\ pc = "idle" /\ i = 0 /\ firstname = NULL /\ errors = 0 /\ erorcount = 0
  /\ ad = [u \in People |-> NULL] /\ ous = {} /\ sql = {}
  /\ errlog = {} /\ faults = 0 /\ cut = {}

(***************************************************************************)
(* The personnel department and the clock.                                 *)
(***************************************************************************)
Publish ==
  /\ org' \in Lists /\ fresh' = TRUE
  /\ UNCHANGED <<old, trim, results, pc, i, firstname, errors, erorcount, ad, ous, sql, errlog, faults, cut>>

Age ==
  /\ fresh /\ fresh' = FALSE
  /\ UNCHANGED <<org, old, trim, results, pc, i, firstname, errors, erorcount, ad, ous, sql, errlog, faults, cut>>

\* The process ends, and its variables with it.
Exit ==
  pc' = "idle" /\ trim' = <<>> /\ i' = 0 /\ firstname' = NULL /\ errors' = 0 /\ erorcount' = 0

(***************************************************************************)
(* The script up to the loop.                                              *)
(***************************************************************************)

\* The list is trimmed and read, the file of changed rows begins with its header.
Start ==
  /\ pc = "idle" /\ run < MaxRuns
  /\ trim' = org /\ results' = Append(results, <<>>)
  /\ pc' = "check"
  /\ UNCHANGED <<org, fresh, old, i, firstname, errors, erorcount, ad, ous, sql, errlog, faults, cut>>

\* A list older than 20 hours ends the run; otherwise the rows without a match in
\* the snapshot are kept.  The test for 'False' looks at the last field, which is the
\* patronymic in quotes, so that a row of a dismissed person is kept like any other.
Compare ==
  /\ pc = "check"
  /\ IF fresh
     THEN /\ results' = [results EXCEPT ![run] = Changed(trim, old)]
          /\ pc' = "copy"
          /\ UNCHANGED <<trim, i, firstname, errors, erorcount>>
     ELSE Exit /\ UNCHANGED results
  /\ UNCHANGED <<org, fresh, old, ad, ous, sql, errlog, faults, cut>>

\* Calls that fail add to $Error, which forgets the oldest when it is full.
Fail(n) ==
  /\ faults + n <= MaxFaults /\ faults' = faults + n
  /\ errors' = Min({errors + n, MaxErrors})

\* The list becomes the snapshot, before any of its rows is applied.
CopySnapshot ==
  /\ pc = "copy"
  /\ \/ old' = trim /\ Fail(0)
     \/ UNCHANGED old /\ Fail(1)
  /\ pc' = "row" /\ i' = 1
  /\ UNCHANGED <<org, fresh, trim, results, firstname, erorcount, ad, ous, sql, errlog, cut>>

(***************************************************************************)
(* One row.                                                                *)
(***************************************************************************)

\* The fields of the row: an empty surname has no first letter to put in capitals, and
\* $firstname keeps the value it had.  Then the branch; the query of line 226 may fail,
\* and with it the whole statement.
Parse ==
  /\ pc = "row" /\ i <= Len(results[run])
  /\ LET bad == row.name = ""
         empty == IF bad THEN 1 ELSE 0
     IN /\ firstname' = IF bad THEN firstname ELSE row.name
        /\ \/ /\ errors' = Min({errors + empty, MaxErrors}) /\ UNCHANGED faults
              /\ pc' = IF row.ipn \in NoNumbers THEN "report"
                       ELSE IF ~ row.active THEN "dismiss"
                       ELSE IF row.ipn \in Accounts THEN "change" ELSE "create"
           \/ /\ row.ipn \notin NoNumbers /\ row.active /\ faults < MaxFaults
              /\ faults' = faults + 1 /\ errors' = Min({errors + empty + 1, MaxErrors})
              /\ pc' = "report"
  /\ cut' = IF errors = MaxErrors THEN cut \cup {run} ELSE cut
  /\ UNCHANGED <<org, fresh, old, trim, results, i, erorcount, ad, ous, sql, errlog>>

\* IsActive is false: two calls, each of which may fail, and both do without an account.
Dismiss ==
  /\ pc = "dismiss"
  /\ IF row.ipn \notin Accounts
     THEN /\ errors' = Min({errors + 2, MaxErrors})
          /\ UNCHANGED <<ad, faults>>
     ELSE \E moved, disabled \in BOOLEAN :
          /\ LET acc == ad[row.ipn]
             IN ad' = [ad EXCEPT ![row.ipn] =
                         [acc EXCEPT !.ou = IF moved THEN "Dismissed" ELSE acc.ou,
                                     !.enabled = IF disabled THEN FALSE ELSE acc.enabled]]
          /\ Fail(Cardinality({b \in {<<"move", moved>>, <<"set", disabled>>} : ~ b[2]}))
  /\ pc' = "report"
  /\ UNCHANGED <<org, fresh, old, trim, results, i, firstname, erorcount, ous, sql, errlog, cut>>

\* The person has an account: rename, set, create the unit, move.  The first call that
\* fails (the one with number `step') ends the try block with an entry in the log.
Change ==
  /\ pc = "change"
  /\ \E step \in 1 .. 5 :
       LET acc == ad[row.ipn] IN
       /\ ad' = [ad EXCEPT ![row.ipn] =
                   [name    |-> IF step > 1 /\ acc.name # <<firstname, 0>> THEN SName(firstname) ELSE acc.name,
                    enabled |-> IF step > 2 THEN TRUE ELSE acc.enabled,
                    contact |-> IF step > 2 THEN row.contact ELSE acc.contact,
                    ou      |-> IF step > 4 THEN row.ou ELSE acc.ou]]
       /\ ous' = IF step > 3 THEN ous \cup {row.ou} ELSE ous
       /\ step = 1 => acc.name # <<firstname, 0>>
       /\ step = 3 => row.ou \notin ous
       /\ IF step = 5 THEN Fail(0) /\ UNCHANGED errlog
                    ELSE Fail(1) /\ errlog' = errlog \cup {<<run, row.ipn>>}
  /\ firstname' = NULL /\ pc' = "report"
  /\ UNCHANGED <<org, fresh, old, trim, results, i, erorcount, sql, cut>>

\* No account: the unit, then the account in it.  No call is guarded.
Create ==
  /\ pc = "create"
  /\ \/ /\ ous' = ous \cup {row.ou} /\ Fail(0)
        /\ ad' = [ad EXCEPT ![row.ipn] = [name |-> SName(firstname), enabled |-> TRUE,
                                          contact |-> row.contact, ou |-> row.ou]]
     \/ ous' = ous \cup {row.ou} /\ UNCHANGED ad /\ Fail(1)
     \/ row.ou \notin ous /\ UNCHANGED <<ad, ous>> /\ faults < MaxFaults
        /\ faults' = faults + 1 /\ errors' = Min({errors + 2, MaxErrors})
  /\ pc' = "register"
  /\ UNCHANGED <<org, fresh, old, trim, results, i, firstname, erorcount, sql, errlog, cut>>

\* The first login is registered, whether or not there is an account.
Register ==
  /\ pc = "register"
  /\ \/ sql' = sql \cup {row.ipn} /\ Fail(0)
     \/ UNCHANGED sql /\ Fail(1)
  /\ firstname' = NULL /\ pc' = "report"
  /\ UNCHANGED <<org, fresh, old, trim, results, i, erorcount, ad, ous, errlog, cut>>

\* Wrong variant: only the first errors of a run are reported.
ReportOnce ==
  /\ pc = "report"
  /\ errlog' = IF errors > 0 /\ erorcount = 0 THEN errlog \cup {<<run, row.ipn>>} ELSE errlog
  /\ erorcount' = errors
  /\ i' = i + 1 /\ pc' = "row"
  /\ UNCHANGED <<org, fresh, old, trim, results, firstname, errors, ad, ous, sql, faults, cut>>

\* Errors since the last report are reported with the number of this row.
Report ==
  /\ pc = "report"
  /\ errlog' = IF errors > erorcount THEN errlog \cup {<<run, row.ipn>>} ELSE errlog
  /\ erorcount' = errors
  /\ i' = i + 1 /\ pc' = "row"
  /\ UNCHANGED <<org, fresh, old, trim, results, firstname, errors, ad, ous, sql, faults, cut>>

\* The end of the script enables the account of its administrator.
EndScript ==
  /\ pc = "row" /\ i > Len(results[run])
  /\ ad' = IF Admin \in Accounts THEN [ad EXCEPT ![Admin].enabled = TRUE] ELSE ad
  /\ Exit
  /\ UNCHANGED <<org, fresh, old, results, ous, sql, errlog, faults, cut>>

\* The process is ended from outside.
Kill ==
  /\ pc # "idle" /\ Exit /\ cut' = cut \cup {run}
  /\ UNCHANGED <<org, fresh, old, results, ad, ous, sql, errlog, faults>>

UserNext ==
  \/ Publish \/ Age \/ Kill
  \/ Start \/ Compare \/ CopySnapshot
  \/ Parse \/ Dismiss \/ Change \/ Create \/ Register \/ Report \/ EndScript

UserSpec == UserInit /\ [][UserNext]_userVars

(***************************************************************************)
(* Properties.                                                             *)
(***************************************************************************)

\* The account is what the row says; the script itself enables Admin at its end.
Agrees(r) ==
  LET acc == ad[r.ipn] IN
  /\ r.ipn \in Accounts
  /\ IF r.active
     THEN acc.enabled /\ acc.name[1] = r.name /\ acc.contact = r.contact /\ acc.ou = r.ou
     ELSE (acc.enabled => r.ipn = Admin) /\ acc.ou = "Dismissed"

RowsOf(u, k) == {n \in DOMAIN results[k] : results[k][n].ipn = u}

\* Between runs, the account of a person is what the last row that was taken up for the
\* person says, or that run reported an error for the person (lines 256 and 300), or it
\* was killed or had filled $Error.  A row that fails is not taken up again (line 98
\* replaces the snapshot first), so that the report is all that is left of it.
AppliedOrReported ==
  pc = "idle" =>
    \A u \in People :
      LET ks == {k \in 1 .. run : RowsOf(u, k) # {}}
          last == Max(ks)
      IN ks # {} => \/ last \in cut \/ <<last, u>> \in errlog
                    \/ Agrees(results[last][Max(RowsOf(u, last))])
=============================================================================
