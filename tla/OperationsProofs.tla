-------------------------- MODULE OperationsProofs --------------------------
(***************************************************************************)
(* Two theorems about scripts that share nothing.  The rotation of VeeamZIP *)
(* files gives up a complete backup only for a newer one, for any           *)
(* directories and any number of backups.  adduser.ps1 leaves the account   *)
(* of every person as the last row that was taken up for the person says,   *)
(* or says that it could not, for any staff lists, runs and faults.         *)
(***************************************************************************)
EXTENDS VeeamZip, AddUser, SelectionProofs

-----------------------------------------------------------------------------
(* What Sort-Object with -last or -first finds. *)

\* There is an oldest file in a directory that is not empty.
LEMMA MinIsLeast ==
  ASSUME NEW T, T \subseteq Nat, T # {}
  PROVE  Min(T) \in T /\ \A y \in T : Min(T) <= y
  <1>1. PICK x \in T : \A y \in T : ~ (<<y, x>> \in OpToRel(<, Nat))
    BY NatLessThanWellFounded, WFMin
  <1>2. \A y \in T : ~ (y < x)
    BY <1>1 DEF OpToRel
  <1>3. \A y \in T : x =< y
    BY <1>2
  <1>4. QED
    BY <1>3 DEF Min

\* There is a newest file in a directory that is not empty.
LEMMA MaxIsGreatest ==
  ASSUME NEW n \in Nat, NEW T, T \subseteq 0 .. n, T # {}
  PROVE  Max(T) \in T /\ \A y \in T : y <= Max(T)
  <1>1. PICK x \in T : \A y \in T : y <= x
    BY LastPlace
  <1>2. \A y \in T : x >= y
    BY <1>1
  <1>3. Max(T) \in T /\ \A y \in T : Max(T) >= y
    BY <1>2 DEF Max
  <1>4. QED
    BY <1>3

-----------------------------------------------------------------------------
(* The inductive invariant. *)

Backups == 0 .. MaxBackup

ZipType ==
  /\ server \in [Dirs -> SUBSET Backups]
  /\ disaster \in [Dirs -> SUBSET Backups]
  /\ broken \in [Dirs -> SUBSET Backups]
  /\ todo \subseteq Dirs /\ dir \in Dirs /\ file \in Nat
  /\ at \in {"idle", "dir", "remove", "copy"}

\* The server's newest backup is as new as all that is on E:.
ServerAhead == \A d \in Dirs : \A b \in disaster[d] : \E z \in server[d] : b <= z

\* What was chosen stays as new as all that is on E: until it is copied.
ChosenAhead == at \in {"remove", "copy"} => \A b \in disaster[dir] : b <= file

ZipInv == ZipType /\ ServerAhead /\ ChosenAhead

\* The initial directories are as the invariant says.
LEMMA InitInv == ZipInit => ZipInv
  BY ZipAssumption DEF ZipInit, ZipInv, ZipType, ServerAhead, ChosenAhead, Backups

\* A new backup on the server.
LEMMA BackupInv ==
  ASSUME ZipInv, NEW d \in Dirs, Backup(d)
  PROVE  ZipInv'
  <1> DEFINE known == server[d] \cup disaster[d] \cup {0}
             next == Max(known) + 1
  <1>1. known \subseteq 0 .. MaxBackup /\ known # {} /\ MaxBackup \in Nat
    BY ZipAssumption DEF ZipInv, ZipType, Backups
  <1>2. Max(known) \in 0 .. MaxBackup
    BY <1>1, MaxIsGreatest
  <1>3. next \in Backups
    BY <1>1, <1>2 DEF Backup, Backups
  <1>4. /\ server' = [server EXCEPT ![d] = @ \cup {next}]
        /\ UNCHANGED <<disaster, broken, todo, at, dir, file>>
    BY DEF Backup
  <1> HIDE DEF next
  <1>5. ZipType'
    BY <1>3, <1>4 DEF ZipInv, ZipType
  <1>6. ServerAhead'
    BY <1>4 DEF ZipInv, ZipType, ServerAhead
  <1>7. ChosenAhead'
    BY <1>4 DEF ZipInv, ChosenAhead
  <1>8. QED
    BY <1>5, <1>6, <1>7 DEF ZipInv

\* The oldest backup goes, and there is a newer one to stay ahead of E:.
LEMMA ExpireInv ==
  ASSUME ZipInv, NEW d \in Dirs, Expire(d)
  PROVE  ZipInv'
  <1> DEFINE oldest == Min(server[d])
  <1>1. /\ server' = [server EXCEPT ![d] = @ \ {oldest}]
        /\ UNCHANGED <<disaster, broken, todo, at, dir, file>>
        /\ Cardinality(server[d]) > 1
    BY DEF Expire
  <1>2. server[d] \subseteq Nat /\ IsFiniteSet(server[d]) /\ MaxBackup \in Nat
    <2>1. server[d] \subseteq 0 .. MaxBackup /\ MaxBackup \in Nat
      BY ZipAssumption DEF ZipInv, ZipType, Backups
    <2>2. IsFiniteSet(0 .. MaxBackup)
      BY <2>1, FS_Interval
    <2>3. QED
      BY <2>1, <2>2, FS_Subset
  <1>3. server[d] # {}
    BY <1>1, FS_EmptySet
  <1>4. oldest \in server[d] /\ \A y \in server[d] : oldest <= y
    BY <1>2, <1>3, MinIsLeast
  <1> HIDE DEF oldest
  <1>5. PICK z \in server[d] : z # oldest
    <2>1. SUFFICES ASSUME server[d] = {oldest} PROVE FALSE
      BY <1>4
    <2>2. Cardinality({oldest}) = 1
      BY FS_Singleton
    <2>3. QED
      BY <1>1, <2>1, <2>2
  <1>6. ZipType'
    BY <1>1 DEF ZipInv, ZipType
  <1>7. ServerAhead'
    <2>1. SUFFICES ASSUME NEW e \in Dirs, NEW b \in disaster[e]
                   PROVE  \E y \in server'[e] : b <= y
      BY <1>1 DEF ServerAhead
    <2>2. PICK y \in server[e] : b <= y
      BY DEF ZipInv, ServerAhead
    <2>3. CASE e # d \/ y # oldest
      BY <1>1, <2>2, <2>3 DEF ZipInv, ZipType
    <2>4. CASE e = d /\ y = oldest
      <3>1. z \in server'[e]
        BY <1>1, <1>5, <2>4 DEF ZipInv, ZipType
      <3>2. b \in Nat /\ y \in Nat /\ z \in Nat
        BY <1>2, <2>4, <1>5, ZipAssumption DEF ZipInv, ZipType, Backups
      <3>3. b <= z
        BY <1>4, <2>2, <2>4, <3>2
      <3>4. QED
        BY <3>1, <3>3
    <2>5. QED
      BY <2>3, <2>4
  <1>8. ChosenAhead'
    BY <1>1 DEF ZipInv, ChosenAhead
  <1>9. QED
    BY <1>6, <1>7, <1>8 DEF ZipInv

\* The choice: the newest on the server is ahead of E:.
LEMMA ChooseInv ==
  ASSUME ZipInv, Choose
  PROVE  ZipInv'
  <1>1. PICK d \in todo :
          /\ dir' = d /\ todo' = todo \ {d}
          /\ IF server[d] = {} THEN UNCHANGED <<file, at>>
                               ELSE file' = Max(server[d]) /\ at' = "remove"
    BY DEF Choose
  <1>2. at = "dir" /\ UNCHANGED <<server, disaster, broken>>
    BY DEF Choose
  <1>3. d \in Dirs /\ server[d] \subseteq 0 .. MaxBackup /\ MaxBackup \in Nat
    BY ZipAssumption DEF ZipInv, ZipType, Backups
  <1>4. CASE server[d] = {}
    BY <1>1, <1>2, <1>3, <1>4 DEF ZipInv, ZipType, ServerAhead, ChosenAhead
  <1>5. CASE server[d] # {}
    <2>1. Max(server[d]) \in server[d] /\ \A y \in server[d] : y <= Max(server[d])
      BY <1>3, <1>5, MaxIsGreatest
    <2>2. file' \in server[d] /\ (\A y \in server[d] : y <= file') /\ at' = "remove"
      BY <1>1, <1>5, <2>1
    <2>3. ZipType'
      BY <1>1, <1>2, <1>3, <2>2 DEF ZipInv, ZipType
    <2>4. ServerAhead'
      BY <1>2 DEF ZipInv, ServerAhead
    <2>5. ASSUME NEW b \in disaster[d] PROVE b <= file'
      <3>1. PICK z \in server[d] : b <= z
        BY <1>3 DEF ZipInv, ServerAhead
      <3>2. z <= file' /\ z \in Nat /\ file' \in Nat
        BY <1>3, <2>2
      <3>3. b \in Nat
        BY <1>3 DEF ZipInv, ZipType, Backups
      <3>4. QED
        BY <3>1, <3>2, <3>3
    <2>6. ChosenAhead'
      BY <1>1, <1>2, <2>5 DEF ChosenAhead
    <2>7. QED
      BY <2>3, <2>4, <2>6 DEF ZipInv
  <1>6. QED
    BY <1>4, <1>5

\* The steps that take files from E: or add what is on the server.
LEMMA FilesInv ==
  ASSUME ZipInv, Remove \/ Copy \/ EndTask
  PROVE  ZipInv'
  <1>1. CASE Remove
    BY <1>1 DEF Remove, ZipInv, ZipType, ServerAhead, ChosenAhead
  <1>2. ASSUME disaster' = [disaster EXCEPT ![dir] = @ \cup {file}], file \in server[dir],
               broken' \in {[broken EXCEPT ![dir] = @ \ {file}], [broken EXCEPT ![dir] = @ \cup {file}]},
               at' \in {"dir", "idle"}, todo' \subseteq todo, UNCHANGED <<server, dir, file>>
        PROVE  ZipInv'
    <2>1. file \in Backups /\ file <= file
      BY <1>2, ZipAssumption DEF ZipInv, ZipType, Backups
    <2>2. ZipType'
      BY <1>2, <2>1 DEF ZipInv, ZipType
    <2>3. ServerAhead'
      BY <1>2, <2>1 DEF ZipInv, ZipType, ServerAhead
    <2>4. ChosenAhead'
      BY <1>2 DEF ChosenAhead
    <2>5. QED
      BY <2>2, <2>3, <2>4 DEF ZipInv
  <1>3. ASSUME at' \in {"dir", "idle"}, todo' \subseteq todo,
               UNCHANGED <<server, disaster, broken, dir, file>>
        PROVE  ZipInv'
    BY <1>3 DEF ZipInv, ZipType, ServerAhead, ChosenAhead
  <1>4. CASE Copy
    BY <1>2, <1>3, <1>4 DEF Copy
  <1>5. CASE EndTask
    BY <1>2, <1>3, <1>5 DEF EndTask
  <1>6. QED
    BY <1>1, <1>4, <1>5

\* Every step keeps the invariant.
LEMMA NextInv == ZipInv /\ [ZipNext]_zipVars => ZipInv'
  <1> SUFFICES ASSUME ZipInv, [ZipNext]_zipVars PROVE ZipInv'
    OBVIOUS
  <1>1. CASE \E d \in Dirs : Backup(d) \/ Expire(d)
    BY <1>1, BackupInv, ExpireInv
  <1>2. CASE List
    BY <1>2 DEF List, ZipInv, ZipType, ServerAhead, ChosenAhead
  <1>3. CASE Choose
    BY <1>3, ChooseInv
  <1>4. CASE Remove \/ Copy \/ EndTask
    BY <1>4, FilesInv
  <1>5. CASE EndLoop
    BY <1>5 DEF EndLoop, ZipInv, ZipType, ServerAhead, ChosenAhead
  <1>6. CASE UNCHANGED zipVars
    BY <1>6 DEF zipVars, ZipInv, ZipType, ServerAhead, ChosenAhead
  <1>7. QED
    BY <1>1, <1>2, <1>3, <1>4, <1>5, <1>6 DEF ZipNext

\* Only Remove takes complete backups from E:, and only when the chosen one is not there.
LEMMA StepGivesUpForNewer ==
  ASSUME ZipInv, [ZipNext]_zipVars, NEW d \in Dirs, NEW b \in Complete(d) \ Complete(d)'
  PROVE  dir = d /\ b < file
  <1>1. b \in disaster[d] /\ b \notin broken[d]
    BY DEF Complete
  <1>2. CASE Remove
    <2>1. file \notin disaster[dir] /\ dir = d
      BY <1>2 DEF Remove, Complete, ZipInv, ZipType
    <2>2. b <= file /\ b # file
      BY <1>1, <1>2, <2>1 DEF Remove, ZipInv, ChosenAhead
    <2>3. b \in Nat /\ file \in Nat
      BY <1>1, ZipAssumption DEF ZipInv, ZipType, Backups
    <2>4. QED
      BY <2>1, <2>2, <2>3
  <1>3. CASE Copy \/ EndTask
    <2>1. b \in Complete(d)'
      BY <1>1, <1>3 DEF Copy, EndTask, Complete, ZipInv, ZipType
    <2>2. QED
      BY <2>1
  <1>4. CASE UNCHANGED <<disaster, broken>>
    BY <1>4 DEF Complete
  <1>5. QED
    BY <1>2, <1>3, <1>4 DEF ZipNext, zipVars, Backup, Expire, List, Choose, EndLoop

-----------------------------------------------------------------------------

\* A complete backup on E: is given up only for a newer one, however Veeam writes and
\* deletes on the server between the steps of lines 67-79, and whatever copy or removal fails.
THEOREM OnlyForNewer == ZipSpec => GivenUpForNewer
  <1>1. ZipInit => ZipInv
    BY InitInv
  <1>2. ZipInv /\ [ZipNext]_zipVars => ZipInv'
    BY NextInv
  <1>3. ZipInv /\ [ZipNext]_zipVars
        => [\A d \in Dirs : \A b \in Complete(d) \ Complete(d)' : dir = d /\ b < file]_zipVars
    BY StepGivesUpForNewer
  <1>4. QED
    BY <1>1, <1>2, <1>3, PTL DEF ZipSpec, GivenUpForNewer
-----------------------------------------------------------------------------
(* adduser.ps1: the operators.                                              *)

\* $Error never counts more than it can hold.
LEMMA MinOfTwo ==
  ASSUME NEW a \in Nat, NEW b \in Nat
  PROVE  Min({a, b}) = IF a <= b THEN a ELSE b
  <1>1. Min({a, b}) \in {a, b} /\ \A y \in {a, b} : Min({a, b}) <= y
    BY MinIsLeast
  <1>2. QED
    BY <1>1

\* The comparison keeps rows of the list.
LEMMA ChangedRows ==
  ASSUME NEW list \in Seq(StaffRow), NEW snapshot
  PROVE  Changed(list, snapshot) \in Seq(StaffRow)
  BY SelectedElements DEF Changed

\* The names an account may have.
AccountNames == (Names \cup {NULL}) \X Nat

\* SName ends: of one underscore more than there are people, one number is free.
LEMMA NameFound ==
  ASSUME ad \in [People -> Account \cup {NULL}], NEW name \in Names \cup {NULL}
  PROVE  SName(name) \in AccountNames /\ SName(name)[1] = name
  <1> DEFINE bound == Cardinality(People)
             Taken(n) == \E u \in Accounts : ad[u].name = <<name, n>>
             free == {n \in 0 .. bound : ~ Taken(n)}
             First(n) == ~ Taken(n) /\ \A m \in 0 .. n - 1 : Taken(m)
             number == CHOOSE n \in 0 .. bound : First(n)
  <1>1. IsFiniteSet(People) /\ bound \in Nat
    BY UserAssumption, FS_CardinalityType
  <1>2. SName(name) = <<name, number>>
    BY DEF SName
  <1> HIDE DEF Taken
  <1>3. free # {}
    <2>1. SUFFICES ASSUME \A n \in 0 .. bound : Taken(n) PROVE FALSE
      OBVIOUS
    <2> DEFINE owner == [n \in 0 .. bound |-> CHOOSE u \in Accounts : ad[u].name = <<name, n>>]
    <2>2. ASSUME NEW n \in 0 .. bound
          PROVE  owner[n] \in People /\ ad[owner[n]].name = <<name, n>>
      BY <2>1 DEF Taken, Accounts
    <2> HIDE DEF owner
    <2>3. owner \in [0 .. bound -> People]
      BY <2>2 DEF owner
    <2>4. IsFiniteSet(0 .. bound) /\ Cardinality(0 .. bound) = bound + 1
      BY <1>1, FS_Interval
    <2>5. Cardinality(People) < Cardinality(0 .. bound)
      BY <1>1, <2>4
    <2>6. PICK x, y \in 0 .. bound : x # y /\ owner[x] = owner[y]
      BY <1>1, <2>3, <2>4, <2>5, FS_PigeonHole
    <2>7. <<name, x>> = <<name, y>>
      BY <2>2, <2>6
    <2>8. QED
      BY <2>6, <2>7
  <1>4. free \subseteq Nat
    BY <1>1
  <1>5. PICK n \in free : \A m \in free : n <= m
    BY <1>3, <1>4, MinIsLeast
  <1>6. n \in 0 .. bound /\ ~ Taken(n)
    OBVIOUS
  <1>7. ASSUME NEW m \in 0 .. n - 1 PROVE Taken(m)
    <2>1. m \in 0 .. bound /\ ~ (n <= m)
      BY <1>1, <1>6
    <2>2. QED
      BY <2>1, <1>5
  <1>e. \E x \in 0 .. bound : First(x)
    BY <1>6, <1>7
  <1> HIDE DEF First
  <1>8. number \in 0 .. bound
    BY <1>e
  <1>9. number \in Nat
    BY <1>1, <1>8
  <1> HIDE DEF number
  <1>10. \A S : \A a \in S, b \in Nat : <<a, b>> \in S \X Nat /\ <<a, b>>[1] = a
    OBVIOUS
  <1>11. <<name, number>> \in AccountNames /\ <<name, number>>[1] = name
    BY <1>9, <1>10 DEF AccountNames
  <1>12. QED
    BY <1>2, <1>11

-----------------------------------------------------------------------------
(* adduser.ps1: the inductive invariant.                                    *)

Stages == {"dismiss", "change", "create", "register", "report"}

UserTypes ==
  /\ org \in Seq(StaffRow) /\ trim \in Seq(StaffRow) /\ results \in Seq(Seq(StaffRow))
  /\ pc \in {"idle", "check", "copy", "row"} \cup Stages
  /\ i \in Nat /\ firstname \in Names \cup {NULL}
  /\ errors \in Nat /\ erorcount \in Nat /\ faults \in Nat
  /\ ad \in [People -> Account \cup {NULL}]

\* How far the run has come: it has a list of changed rows, empty before the
\* comparison; errors that were not reported yet have been counted.
Progress ==
  /\ erorcount <= errors /\ errors <= MaxErrors
  /\ pc # "idle" => run >= 1
  /\ pc = "check" => results[run] = <<>>
  /\ pc = "row" => i >= 1
  /\ pc \in Stages => i \in DOMAIN results[run]

\* The run will report an error with the next row, or it is among those excepted.
Noted == run \in cut \/ errors > erorcount

\* The account is what the row says (see Agrees).
Fits(acc, r) ==
  /\ acc # NULL
  /\ IF r.active
     THEN acc.enabled /\ acc.name[1] = r.name /\ acc.contact = r.contact /\ acc.ou = r.ou
     ELSE (acc.enabled => r.ipn = Admin) /\ acc.ou = "Dismissed"

\* The row in hand: either it goes well so far, or what went wrong will be reported.
RowInv ==
  /\ pc \in Stages \ {"report"} => row.ipn \in People
  /\ pc \in {"dismiss", "change", "create"} =>
        Noted \/ (errors < MaxErrors /\ firstname = row.name)
  /\ pc = "dismiss" => ~ row.active
  /\ pc \in {"change", "create", "register"} => row.active
  /\ pc = "change" => ad[row.ipn] # NULL
  /\ pc = "register" => Noted \/ (errors < MaxErrors /\ Fits(ad[row.ipn], row))
  /\ (pc = "report" /\ row.ipn \in People) =>
        Noted \/ <<run, row.ipn>> \in errlog \/ Fits(ad[row.ipn], row)

\* Row n of run k has been taken up.
Done(k, n) ==
  /\ k \in 1 .. run /\ n \in DOMAIN results[k]
  /\ k < run \/ pc = "idle" \/ (pc \in Stages \cup {"row"} /\ n < i)

\* It is the last row taken up for u.
LastRow(u, k, n) ==
  /\ Done(k, n) /\ results[k][n].ipn = u
  /\ \A j, m \in Nat : Done(j, m) /\ (j > k \/ (j = k /\ m > n)) => results[j][m].ipn # u

Settled(u, k, n) == k \in cut \/ <<k, u>> \in errlog \/ Fits(ad[u], results[k][n])

\* Every person but the one of the row in hand is settled.
AccountsInv ==
  \A u \in People : (pc \in Stages => u # row.ipn) =>
    \A k, n \in Nat : LastRow(u, k, n) => Settled(u, k, n)

UserInv == UserTypes /\ Progress /\ RowInv /\ AccountsInv

\* No row has been taken up yet.
LEMMA UserInitInv == UserInit => UserInv
  <1> SUFFICES ASSUME UserInit PROVE UserInv
    OBVIOUS
  <1>1. UserTypes
    BY UserAssumption DEF UserInit, UserTypes
  <1>2. Progress /\ RowInv
    BY UserAssumption DEF UserInit, Progress, RowInv, Stages
  <1>3. results = <<>>
    BY DEF UserInit
  <1>4. run = 0
    BY <1>3 DEF run
  <1>5. AccountsInv
    BY <1>4 DEF AccountsInv, LastRow, Done
  <1>6. QED
    BY <1>1, <1>2, <1>5 DEF UserInv

\* What the types say of the current run and the row in hand.
LEMMA Basics ==
  ASSUME UserTypes, Progress
  PROVE  /\ run \in Nat /\ DOMAIN results = 1 .. run
         /\ \A k \in 1 .. run : results[k] \in Seq(StaffRow)
         /\ pc # "idle" => run \in 1 .. run
         /\ pc \in Stages => /\ row \in StaffRow /\ i \in DOMAIN results[run]
                             /\ i \in 1 .. Len(results[run])
  <1>1. run \in Nat /\ DOMAIN results = 1 .. run
    BY DEF UserTypes, run
  <1>2. \A k \in 1 .. run : results[k] \in Seq(StaffRow)
    BY <1>1 DEF UserTypes
  <1>3. pc # "idle" => run \in 1 .. run
    BY <1>1 DEF Progress
  <1>4. ASSUME pc \in Stages PROVE row \in StaffRow /\ i \in DOMAIN results[run]
                                   /\ i \in 1 .. Len(results[run])
    <2>1. pc # "idle" /\ i \in DOMAIN results[run]
      BY <1>4 DEF Stages, Progress
    <2>2. PICK list \in Seq(StaffRow) : list = results[run]
      BY <1>2, <1>3, <2>1
    <2>3. i \in 1 .. Len(list) /\ list[i] \in StaffRow
      BY <2>1, <2>2
    <2>4. QED
      BY <2>1, <2>2, <2>3 DEF row
  <1>5. QED
    BY <1>1, <1>2, <1>3, <1>4

\* A step that takes up no further row, and after which the accounts still fit the rows
\* they fitted before, leaves everybody settled.
LEMMA KeepSettled ==
  ASSUME AccountsInv, cut \subseteq cut', errlog \subseteq errlog',
         \A k, n \in Nat : Done(k, n)' <=> Done(k, n),
         \A k, n \in Nat : Done(k, n) => results'[k][n] = results[k][n],
         \A u \in People : (pc' \in Stages => u # row'.ipn) =>
            /\ pc \in Stages => u # row.ipn
            /\ \A r : r.ipn = u /\ Fits(ad[u], r) => Fits(ad'[u], r)
  PROVE  AccountsInv'
  <1> SUFFICES ASSUME NEW u \in People, (pc' \in Stages => u # row'.ipn),
                      NEW k \in Nat, NEW n \in Nat, LastRow(u, k, n)'
               PROVE  Settled(u, k, n)'
    BY DEF AccountsInv
  <1>1. Done(k, n) /\ results'[k][n].ipn = u /\ results'[k][n] = results[k][n]
    BY DEF LastRow
  <1>2. ASSUME NEW j \in Nat, NEW m \in Nat, Done(j, m), j > k \/ (j = k /\ m > n)
        PROVE  results[j][m].ipn # u
    <2>1. Done(j, m)' /\ results'[j][m] = results[j][m]
      BY <1>2
    <2>2. QED
      BY <1>2, <2>1 DEF LastRow
  <1>3. LastRow(u, k, n)
    BY <1>1, <1>2 DEF LastRow
  <1>4. Settled(u, k, n)
    BY <1>3 DEF AccountsInv
  <1>5. PICK r : r = results[k][n]
    OBVIOUS
  <1>6. k \in cut \/ <<k, u>> \in errlog \/ Fits(ad[u], r)
    BY <1>4, <1>5 DEF Settled
  <1>7. k \in cut' \/ <<k, u>> \in errlog' \/ Fits(ad'[u], r)
    BY <1>1, <1>5, <1>6
  <1>8. QED
    BY <1>1, <1>5, <1>7 DEF Settled

\* $Error after n more errors: it grows unless it is full.
LEMMA ErrorsGrow ==
  ASSUME NEW e \in Nat, NEW n \in Nat, e <= MaxErrors
  PROVE  /\ Min({e + n, MaxErrors}) \in Nat
         /\ e <= Min({e + n, MaxErrors}) /\ Min({e + n, MaxErrors}) <= MaxErrors
         /\ n = 0 => Min({e + n, MaxErrors}) = e
         /\ n > 0 /\ e < MaxErrors => Min({e + n, MaxErrors}) > e
  <1>1. MaxErrors \in Nat /\ e + n \in Nat
    BY UserAssumption
  <1>2. Min({e + n, MaxErrors}) = IF e + n <= MaxErrors THEN e + n ELSE MaxErrors
    BY <1>1, MinOfTwo
  <1>3. QED
    BY <1>1, <1>2

\* The end of the process, by whatever way, keeps the variables in their types.
LEMMA ExitTyped ==
  ASSUME UserTypes, Progress, Exit, UNCHANGED <<org, results, faults>>,
         ad' \in [People -> Account \cup {NULL}]
  PROVE  UserTypes' /\ Progress' /\ RowInv'
  <1>1. MaxErrors \in Nat
    BY UserAssumption
  <1>2. UserTypes'
    BY DEF Exit, UserTypes
  <1>3. Progress'
    BY <1>1 DEF Exit, Progress, Stages
  <1>4. RowInv'
    BY DEF Exit, RowInv, Stages
  <1>5. QED
    BY <1>2, <1>3, <1>4

\* The personnel department and the clock do not touch what the invariant is about.
LEMMA QuietInv ==
  ASSUME UserInv, Publish \/ Age \/ UNCHANGED userVars
  PROVE  UserInv'
  <1>1. /\ UNCHANGED <<old, trim, results, pc, i, firstname, errors, erorcount, ad, errlog,
                       faults, cut>>
        /\ org' \in Lists \/ UNCHANGED org
    BY DEF Publish, Age, userVars
  <1>2. UserTypes'
    BY <1>1, UserAssumption DEF UserInv, UserTypes
  <1>3. run' = run /\ row' = row
    BY <1>1 DEF run, row
  <1>4. Progress'
    BY <1>1, <1>3 DEF UserInv, Progress
  <1>5. RowInv'
    BY <1>1, <1>3 DEF UserInv, RowInv, Noted
  <1>6. \A k, n \in Nat : Done(k, n)' <=> Done(k, n)
    BY <1>1, <1>3 DEF Done
  <1>7. AccountsInv'
    BY <1>1, <1>3, <1>6, KeepSettled DEF UserInv
  <1>8. QED
    BY <1>2, <1>4, <1>5, <1>7 DEF UserInv

\* A new run has no rows yet.
LEMMA StartInv ==
  ASSUME UserInv, Start
  PROVE  UserInv'
  <1>1. /\ pc = "idle" /\ pc' = "check" /\ trim' = org /\ results' = Append(results, <<>>)
        /\ UNCHANGED <<org, i, firstname, errors, erorcount, ad, errlog, faults, cut>>
    BY DEF Start
  <1>2. /\ run \in Nat /\ DOMAIN results = 1 .. run
    BY Basics DEF UserInv
  <1>3. /\ results' \in Seq(Seq(StaffRow)) /\ run' = run + 1 /\ results'[run + 1] = <<>>
        /\ \A k \in 1 .. run : results'[k] = results[k]
    <2>1. results \in Seq(Seq(StaffRow)) /\ <<>> \in Seq(StaffRow)
      BY DEF UserInv, UserTypes
    <2>2. QED
      BY <1>1, <2>1 DEF run
  <1>4. UserTypes'
    BY <1>1, <1>3 DEF UserInv, UserTypes
  <1>5. Progress'
    BY <1>1, <1>2, <1>3 DEF UserInv, Progress, Stages
  <1>6. RowInv'
    BY <1>1 DEF RowInv, Stages
  <1>7. ASSUME NEW k \in Nat, NEW n \in Nat PROVE Done(k, n)' <=> Done(k, n)
    <2>1. CASE k \in 1 .. run
      <3>1. k < run' /\ k \in 1 .. run'
        BY <1>2, <1>3, <2>1
      <3>2. QED
        BY <1>1, <1>3, <2>1, <3>1 DEF Done
    <2>2. CASE k \notin 1 .. run
      <3>1. k \in 1 .. run' => k = run + 1
        BY <1>2, <1>3, <2>2
      <3>2. ~ Done(k, n)'
        BY <1>3, <3>1 DEF Done
      <3>3. QED
        BY <2>2, <3>2 DEF Done
    <2>3. QED
      BY <2>1, <2>2
  <1>8. \A k, n \in Nat : Done(k, n) => results'[k][n] = results[k][n]
    BY <1>3 DEF Done
  <1>9. pc' \notin Stages /\ pc \notin Stages
    BY <1>1 DEF Stages
  <1>10. AccountsInv'
    BY <1>1, <1>7, <1>8, <1>9, KeepSettled DEF UserInv
  <1>11. QED
    BY <1>4, <1>5, <1>6, <1>10 DEF UserInv

\* One element of a sequence is replaced.
LEMMA ReplaceOne ==
  ASSUME NEW S, NEW q \in Seq(S), NEW k \in 1 .. Len(q), NEW x \in S
  PROVE  /\ [q EXCEPT ![k] = x] \in Seq(S) /\ Len([q EXCEPT ![k] = x]) = Len(q)
         /\ \A j \in 1 .. Len(q) : j # k => [q EXCEPT ![k] = x][j] = q[j]
  OBVIOUS

\* The rows that changed are listed, and none of them is taken up yet.
LEMMA CompareInv ==
  ASSUME UserInv, Compare
  PROVE  UserInv'
  <1>b. /\ run \in Nat /\ DOMAIN results = 1 .. run /\ run \in 1 .. run
        /\ pc = "check" /\ results[run] = <<>>
    BY Basics DEF UserInv, Compare, Progress
  <1>c. UNCHANGED <<org, ad, errlog, faults, cut>>
    BY DEF Compare
  <1>s. pc \notin Stages
    BY <1>b DEF Stages
  <1>1. CASE fresh
    <2>1. /\ results' = [results EXCEPT ![run] = Changed(trim, old)] /\ pc' = "copy"
          /\ UNCHANGED <<trim, i, firstname, errors, erorcount>>
      BY <1>1 DEF Compare
    <2>2. PICK list \in Seq(StaffRow) : list = Changed(trim, old)
      BY ChangedRows DEF UserInv, UserTypes
    <2>3. /\ results' \in Seq(Seq(StaffRow)) /\ run' = run
          /\ \A k \in 1 .. run : k # run => results'[k] = results[k]
      <3>1. results \in Seq(Seq(StaffRow))
        BY DEF UserInv, UserTypes
      <3>2. results' = [results EXCEPT ![run] = list]
        BY <2>1, <2>2
      <3>3. run \in 1 .. Len(results)
        BY <1>b DEF run
      <3>4. QED
        BY <3>1, <3>2, <3>3, ReplaceOne DEF run
    <2>4. UserTypes'
      BY <1>c, <2>1, <2>3 DEF UserInv, UserTypes
    <2>5. Progress'
      BY <1>b, <2>1, <2>3 DEF UserInv, Progress, Stages
    <2>6. RowInv' /\ pc' \notin Stages \cup {"row"}
      BY <2>1 DEF RowInv, Stages
    <2>7. ASSUME NEW k \in Nat, NEW n \in Nat PROVE Done(k, n)' <=> Done(k, n)
      <3>1. CASE k \in 1 .. run /\ k # run
        BY <1>b, <2>3, <3>1 DEF Done
      <3>2. CASE k = run
        BY <1>b, <1>s, <2>1, <2>3, <2>6, <3>2 DEF Done
      <3>3. QED
        BY <3>1, <3>2, <2>3 DEF Done
    <2>8. \A k, n \in Nat : Done(k, n) => results'[k][n] = results[k][n]
      BY <1>b, <1>s, <2>3 DEF Done
    <2>9. AccountsInv'
      BY <1>c, <1>s, <2>6, <2>7, <2>8, KeepSettled DEF UserInv
    <2>10. QED
      BY <2>4, <2>5, <2>6, <2>9 DEF UserInv
  <1>2. CASE ~ fresh
    <2>1. Exit /\ UNCHANGED results
      BY <1>2 DEF Compare
    <2>2. UserTypes' /\ Progress' /\ RowInv'
      BY <1>c, <2>1, ExitTyped DEF UserInv, UserTypes
    <2>3. run' = run /\ pc' = "idle" /\ pc' \notin Stages
      BY <2>1 DEF Exit, run, Stages
    <2>4. ASSUME NEW k \in Nat, NEW n \in Nat PROVE Done(k, n)' <=> Done(k, n)
      <3>1. CASE k = run
        BY <1>b, <2>1, <2>3, <3>1 DEF Done
      <3>2. CASE k # run
        BY <1>b, <2>1, <2>3, <3>2 DEF Done
      <3>3. QED
        BY <3>1, <3>2
    <2>5. AccountsInv'
      BY <1>c, <1>s, <2>1, <2>3, <2>4, KeepSettled DEF UserInv
    <2>6. QED
      BY <2>2, <2>5 DEF UserInv
  <1>3. QED
    BY <1>1, <1>2

\* The snapshot is replaced; the first row comes next.
LEMMA SnapshotInv ==
  ASSUME UserInv, CopySnapshot
  PROVE  UserInv'
  <1>1. /\ pc = "copy" /\ pc' = "row" /\ i' = 1
        /\ UNCHANGED <<org, trim, results, firstname, erorcount, ad, errlog, cut>>
    BY DEF CopySnapshot
  <1>2. PICK n \in {0, 1} : faults' = faults + n /\ errors' = Min({errors + n, MaxErrors})
    BY DEF CopySnapshot, Fail
  <1>3. errors' \in Nat /\ errors <= errors' /\ errors' <= MaxErrors
    BY <1>2, ErrorsGrow DEF UserInv, UserTypes, Progress
  <1>4. UserTypes'
    BY <1>1, <1>2, <1>3 DEF UserInv, UserTypes, Stages
  <1>5. run' = run /\ run \in Nat
    BY <1>1, Basics DEF run, UserInv
  <1>6. Progress'
    BY <1>1, <1>3, <1>5 DEF UserInv, UserTypes, Progress, Stages
  <1>7. RowInv' /\ pc' \notin Stages /\ pc \notin Stages
    BY <1>1 DEF RowInv, Stages
  <1>8. \A k, m \in Nat : Done(k, m)' <=> Done(k, m)
    <2>1. \A k \in 1 .. run : \A m \in DOMAIN results[k] : ~ (m < 1)
      BY Basics DEF UserInv
    <2>2. QED
      BY <1>1, <1>5, <1>7, <2>1 DEF Done
  <1>9. AccountsInv'
    BY <1>1, <1>7, <1>8, KeepSettled DEF UserInv
  <1>10. QED
    BY <1>4, <1>6, <1>7, <1>9 DEF UserInv

\* The statements for one row touch no account but that of its person.
LEMMA RowSettled ==
  ASSUME UserInv, pc \in Stages \cup {"row"}, pc' \in Stages, UNCHANGED <<results, i>>,
         cut \subseteq cut', errlog \subseteq errlog',
         \A u \in People : u # row.ipn => ad'[u] = ad[u]
  PROVE  AccountsInv' /\ run' = run /\ row' = row
  <1>1. run' = run /\ row' = row
    BY DEF run, row
  <1>2. pc # "idle" /\ pc' # "idle"
    BY DEF Stages
  <1>3. \A k, n \in Nat : Done(k, n)' <=> Done(k, n)
    BY <1>1, <1>2 DEF Done
  <1>4. AccountsInv'
    BY <1>1, <1>3, KeepSettled DEF UserInv
  <1>5. QED
    BY <1>1, <1>4

\* The row that comes next is a row of the list.
LEMMA NextRow ==
  ASSUME UserTypes, Progress, pc = "row", i <= Len(results[run])
  PROVE  row \in StaffRow /\ i \in DOMAIN results[run]
  <1>1. run \in 1 .. run /\ results[run] \in Seq(StaffRow)
    BY Basics
  <1>2. PICK list \in Seq(StaffRow) : list = results[run]
    BY <1>1
  <1>3. i \in Nat /\ i >= 1 /\ i <= Len(list)
    BY <1>2 DEF UserTypes, Progress
  <1>4. i \in DOMAIN list /\ list[i] \in StaffRow
    BY <1>3
  <1>5. QED
    BY <1>2, <1>4 DEF row

\* The fields of the row, and the branch.
LEMMA ParseInv ==
  ASSUME UserInv, Parse
  PROVE  UserInv'
  <1>1. /\ pc = "row" /\ i <= Len(results[run])
        /\ cut' = IF errors = MaxErrors THEN cut \cup {run} ELSE cut
        /\ UNCHANGED <<org, trim, results, i, erorcount, ad, errlog>>
    BY DEF Parse
  <1>2. row \in StaffRow /\ i \in DOMAIN results[run] /\ run >= 1
    BY <1>1, NextRow DEF UserInv, Progress
  <1>r. PICK r \in StaffRow : r = row
    BY <1>2
  <1>3. r.name \in Names /\ r.ipn \in People \cup NoNumbers /\ r.active \in BOOLEAN
    BY DEF StaffRow
  <1>e. PICK empty \in {0, 1} : empty = IF r.name = "" THEN 1 ELSE 0
    OBVIOUS
  <1>n. (empty = 1 /\ firstname' = firstname) \/ (empty = 0 /\ firstname' = r.name)
    BY <1>r, <1>e DEF Parse
  <1>4. \/ /\ errors' = Min({errors + empty, MaxErrors}) /\ faults' = faults
           /\ pc' = IF r.ipn \in NoNumbers THEN "report"
                    ELSE IF ~ r.active THEN "dismiss"
                    ELSE IF r.ipn \in Accounts THEN "change" ELSE "create"
        \/ /\ faults' = faults + 1 /\ errors' = Min({errors + empty + 1, MaxErrors})
           /\ pc' = "report"
    BY <1>r, <1>e DEF Parse
  <1>f. faults' = faults \/ faults' = faults + 1
    BY <1>4
  <1>5. /\ errors \in Nat /\ erorcount \in Nat /\ faults \in Nat /\ MaxErrors \in Nat
        /\ erorcount <= errors /\ errors <= MaxErrors
    BY UserAssumption DEF UserInv, UserTypes, Progress
  <1>6. pc' \in Stages
    BY <1>4 DEF Stages
  <1>7. AccountsInv' /\ run' = run /\ row' = row
    BY <1>1, <1>6, RowSettled DEF UserInv
  <1>8. errors + empty + 1 = errors + (empty + 1) /\ empty \in Nat /\ empty + 1 \in Nat
    BY <1>5
  <1>9. /\ errors' \in Nat /\ errors <= errors' /\ errors' <= MaxErrors
        /\ errors < MaxErrors /\ empty = 1 => errors' > errors
        /\ errors < MaxErrors /\ pc' = "report" => errors' > errors \/ r.ipn \in NoNumbers
        /\ empty = 0 /\ pc' # "report" => errors' = errors
    <2>1. CASE errors' = Min({errors + empty, MaxErrors}) /\ (pc' = "report" => r.ipn \in NoNumbers)
      BY <1>5, <1>8, <2>1, ErrorsGrow
    <2>2. CASE errors' = Min({errors + (empty + 1), MaxErrors}) /\ pc' = "report"
      BY <1>5, <1>8, <2>2, ErrorsGrow
    <2>3. QED
      BY <1>4, <1>8, <2>1, <2>2
  <1>10. erorcount' <= errors' /\ (errors' > errors => errors' > erorcount')
    BY <1>1, <1>5, <1>9
  <1>11. UserTypes'
    <2>1. firstname' \in Names \cup {NULL}
      BY <1>3, <1>n DEF UserInv, UserTypes
    <2>f. faults' \in Nat
      BY <1>f, <1>5
    <2>2. QED
      BY <1>1, <1>6, <1>9, <2>1, <2>f DEF UserInv, UserTypes
  <1>12. Progress'
    <2>1. pc' # "check" /\ pc' # "row"
      BY <1>6 DEF Stages
    <2>2. QED
      BY <1>1, <1>2, <1>7, <1>9, <1>10, <2>1 DEF Progress
  <1>13. errors = MaxErrors \/ errors' > errors => Noted'
    BY <1>1, <1>7, <1>10 DEF Noted
  <1>14. RowInv'
    <2>1. pc' # "report" => Noted' \/ (errors' < MaxErrors /\ firstname' = r.name)
      BY <1>n, <1>5, <1>9, <1>13
    <2>2. pc' = "report" /\ r.ipn \in People => Noted'
      <3>1. r.ipn \in People => r.ipn \notin NoNumbers
        BY UserAssumption
      <3>2. QED
        BY <1>5, <1>9, <1>13, <3>1
    <2>3. /\ pc' # "report" => r.ipn \in People
          /\ pc' = "dismiss" => ~ r.active
          /\ pc' \in {"change", "create"} => r.active
          /\ pc' = "change" => ad[r.ipn] # NULL
          /\ pc' # "register"
      BY <1>3, <1>4 DEF Accounts
    <2>4. QED
      BY <1>1, <1>r, <1>7, <2>1, <2>2, <2>3 DEF RowInv, Stages
  <1>15. QED
    BY <1>7, <1>11, <1>12, <1>14 DEF UserInv

\* What the statements for a row have in common: $Error does not shrink, so that an
\* error noted stays noted until the report.
LEMMA RowFrame ==
  ASSUME UserInv, pc \in Stages, pc' \in Stages, run' = run,
         UNCHANGED <<org, trim, results, i, erorcount, cut>>,
         firstname' \in Names \cup {NULL}, faults' \in Nat,
         errors' \in Nat, errors <= errors', errors' <= MaxErrors,
         ad' \in [People -> Account \cup {NULL}]
  PROVE  /\ UserTypes' /\ Progress' /\ (Noted => Noted')
         /\ errors' > errors => Noted'
  <1>1. UserTypes'
    BY DEF UserInv, UserTypes
  <1>2. pc' # "check" /\ pc' # "row" /\ pc # "idle"
    BY DEF Stages
  <1>3. errors \in Nat /\ erorcount \in Nat /\ erorcount <= errors
    BY DEF UserInv, UserTypes, Progress
  <1>4. erorcount' <= errors' /\ (errors > erorcount => errors' > erorcount')
        /\ (errors' > errors => errors' > erorcount')
    BY <1>3
  <1>5. Progress'
    BY <1>2, <1>4 DEF UserInv, Progress
  <1>6. QED
    BY <1>1, <1>4, <1>5 DEF Noted

\* Calls that fail are counted.
LEMMA FailGrows ==
  ASSUME UserInv, NEW n \in Nat, Fail(n)
  PROVE  /\ faults' \in Nat /\ errors' \in Nat /\ errors <= errors' /\ errors' <= MaxErrors
         /\ n = 0 => errors' = errors
         /\ n > 0 /\ errors < MaxErrors => errors' > errors
  <1>1. faults \in Nat /\ errors \in Nat /\ errors <= MaxErrors
    BY DEF UserInv, UserTypes, Progress
  <1>2. faults' = faults + n /\ errors' = Min({errors + n, MaxErrors})
    BY DEF Fail
  <1>3. QED
    BY <1>1, <1>2, ErrorsGrow

\* The two calls of a dismissal: they all work, or one is counted.
LEMMA FailuresCounted ==
  ASSUME NEW moved \in BOOLEAN, NEW disabled \in BOOLEAN
  PROVE  LET n == Cardinality({b \in {<<"move", moved>>, <<"set", disabled>>} : ~ b[2]})
         IN  n \in Nat /\ ((moved /\ disabled) \/ n > 0)
  <1> DEFINE calls == {<<"move", moved>>, <<"set", disabled>>}
             failed == {b \in calls : ~ b[2]}
             n == Cardinality(failed)
  <1>1. ASSUME NEW x, NEW y PROVE IsFiniteSet({x} \cup {y})
    BY FS_Singleton, FS_AddElement
  <1>2. calls = {<<"move", moved>>} \cup {<<"set", disabled>>}
    OBVIOUS
  <1>3. IsFiniteSet(failed)
    <2>1. failed \in SUBSET calls /\ IsFiniteSet(calls)
      BY <1>1, <1>2
    <2> HIDE DEF failed, calls
    <2>2. QED
      BY <2>1, FS_Subset
  <1>4. n \in Nat
    BY <1>3, FS_CardinalityType
  <1>5. ~ (moved /\ disabled) => failed # {}
    <2>1. ~ moved => <<"move", moved>> \in failed
      OBVIOUS
    <2>2. ~ disabled => <<"set", disabled>> \in failed
      OBVIOUS
    <2>3. QED
      BY <2>1, <2>2
  <1> HIDE DEF failed
  <1>6. failed # {} => n > 0
    BY <1>3, <1>4, FS_EmptySet
  <1>7. QED
    BY <1>4, <1>5, <1>6 DEF failed

\* A dismissal works, or its errors are counted.
LEMMA DismissInv ==
  ASSUME UserInv, Dismiss
  PROVE  UserInv'
  <1>1. /\ pc = "dismiss" /\ pc' = "report"
        /\ UNCHANGED <<org, trim, results, i, firstname, erorcount, errlog, cut>>
    BY DEF Dismiss
  <1>2. pc \in Stages /\ pc' \in Stages /\ pc \in Stages \ {"report"}
    BY <1>1 DEF Stages
  <1>r. PICK r \in StaffRow : r = row
    BY <1>2, Basics DEF UserInv
  <1>3. r.ipn \in People /\ ~ r.active /\ (Noted \/ errors < MaxErrors)
    BY <1>1, <1>2, <1>r DEF UserInv, RowInv
  <1>t. /\ ad \in [People -> Account \cup {NULL}] /\ firstname \in Names \cup {NULL}
        /\ errors \in Nat /\ faults \in Nat /\ errors <= MaxErrors /\ MaxErrors \in Nat
    BY UserAssumption DEF UserInv, UserTypes, Progress
  <1> DEFINE Good == /\ errors' \in Nat /\ errors <= errors' /\ errors' <= MaxErrors
                     /\ faults' \in Nat /\ ad' \in [People -> Account \cup {NULL}]
                     /\ \A u \in People : u # r.ipn => ad'[u] = ad[u]
                     /\ errors < MaxErrors => errors' > errors \/ Fits(ad'[r.ipn], r)
  <1>4. ASSUME r.ipn \notin Accounts PROVE Good
    <2>1. errors' = Min({errors + 2, MaxErrors}) /\ ad' = ad /\ faults' = faults
      BY <1>4, <1>r DEF Dismiss
    <2>2. /\ errors' \in Nat /\ errors <= errors' /\ errors' <= MaxErrors
          /\ errors < MaxErrors => errors' > errors
      BY <1>t, <2>1, ErrorsGrow
    <2>3. QED
      BY <1>t, <2>1, <2>2
  <1>5. ASSUME r.ipn \in Accounts PROVE Good
    <2>1. PICK moved \in BOOLEAN, disabled \in BOOLEAN :
            /\ ad' = [ad EXCEPT ![r.ipn] =
                         [ad[r.ipn] EXCEPT !.ou = IF moved THEN "Dismissed" ELSE ad[r.ipn].ou,
                                           !.enabled = IF disabled THEN FALSE ELSE ad[r.ipn].enabled]]
            /\ Fail(Cardinality({b \in {<<"move", moved>>, <<"set", disabled>>} : ~ b[2]}))
      BY <1>5, <1>r DEF Dismiss
    <2>2. PICK n \in Nat : Fail(n) /\ ((moved /\ disabled) \/ n > 0)
      BY <2>1, FailuresCounted
    <2>3. PICK acc \in Account : acc = ad[r.ipn]
      BY <1>3, <1>5, <1>t DEF Accounts
    <2>4. acc.ou \in Units \cup {"Dismissed"} /\ acc.enabled \in BOOLEAN
      BY DEF Account
    <2>o. PICK o : o = IF moved THEN "Dismissed" ELSE acc.ou
      OBVIOUS
    <2>s. o \in Units \cup {"Dismissed"} /\ (moved => o = "Dismissed")
      BY <2>4, <2>o, Zenon
    <2>e. PICK e : e = IF disabled THEN FALSE ELSE acc.enabled
      OBVIOUS
    <2>f. e \in BOOLEAN /\ (disabled => e = FALSE)
      BY <2>4, <2>e, Zenon
    <2>n. PICK new : /\ new = [acc EXCEPT !.ou = o, !.enabled = e]
                     /\ ad' = [ad EXCEPT ![r.ipn] = new]
      BY <2>1, <2>3, <2>o, <2>e
    <2>6. new \in Account /\ new.ou = o /\ new.enabled = e
      BY <2>n, <2>s, <2>f DEF Account
    <2>7. moved /\ disabled => Fits(new, r)
      <3>1. new # NULL
        BY <2>6, UserAssumption
      <3>2. moved /\ disabled => new.ou = "Dismissed" /\ ~ new.enabled
        BY <2>6, <2>s, <2>f
      <3>3. QED
        BY <1>3, <3>1, <3>2 DEF Fits
    <2>8. /\ ad' \in [People -> Account \cup {NULL}] /\ ad'[r.ipn] = new
          /\ \A u \in People : u # r.ipn => ad'[u] = ad[u]
      BY <1>3, <1>t, <2>n, <2>6
    <2>9. QED
      BY <2>2, <2>7, <2>8, FailGrows
  <1>6. Good
    BY <1>4, <1>5
  <1>7. AccountsInv' /\ run' = run /\ row' = row
    BY <1>1, <1>2, <1>6, <1>r, RowSettled DEF UserInv
  <1>8. UserTypes' /\ Progress' /\ (Noted => Noted') /\ (errors' > errors => Noted')
    BY <1>1, <1>2, <1>6, <1>7, <1>t, RowFrame
  <1>9. Noted' \/ Fits(ad'[r.ipn], r)
    BY <1>3, <1>6, <1>8
  <1> HIDE DEF Good
  <1>10. RowInv'
    BY <1>1, <1>7, <1>9, <1>r DEF RowInv, Stages
  <1>11. QED
    BY <1>7, <1>8, <1>10 DEF UserInv

\* An account is changed as the row says, or the log names the person.
LEMMA ChangeInv ==
  ASSUME UserInv, Change
  PROVE  UserInv'
  <1>1. /\ pc = "change" /\ pc' = "report" /\ firstname' = NULL
        /\ UNCHANGED <<org, trim, results, i, erorcount, cut>>
    BY DEF Change
  <1>2. pc \in Stages /\ pc' \in Stages /\ pc \in Stages \ {"report"}
    BY <1>1 DEF Stages
  <1>r. PICK r \in StaffRow : r = row
    BY <1>2, Basics DEF UserInv
  <1>3. /\ r.ipn \in People /\ r.active /\ ad[r.ipn] # NULL
        /\ Noted \/ firstname = r.name
    BY <1>1, <1>2, <1>r DEF UserInv, RowInv
  <1>t. /\ ad \in [People -> Account \cup {NULL}] /\ firstname \in Names \cup {NULL}
    BY DEF UserInv, UserTypes
  <1>a. PICK acc \in Account : acc = ad[r.ipn]
    BY <1>3, <1>t
  <1>4. PICK step \in 1 .. 5 :
          /\ ad' = [ad EXCEPT ![r.ipn] =
               [name    |-> IF step > 1 /\ acc.name # <<firstname, 0>> THEN SName(firstname) ELSE acc.name,
                enabled |-> IF step > 2 THEN TRUE ELSE acc.enabled,
                contact |-> IF step > 2 THEN r.contact ELSE acc.contact,
                ou      |-> IF step > 4 THEN r.ou ELSE acc.ou]]
          /\ IF step = 5 THEN Fail(0) /\ UNCHANGED errlog
                         ELSE Fail(1) /\ errlog' = errlog \cup {<<run, r.ipn>>}
    BY <1>r, <1>a DEF Change
  <1>5. /\ acc.name \in AccountNames /\ acc.enabled \in BOOLEAN /\ acc.contact \in Contacts
        /\ acc.ou \in Units \cup {"Dismissed"} /\ r.contact \in Contacts /\ r.ou \in Units
    BY DEF Account, StaffRow, AccountNames
  <1>n. PICK name : name = IF step > 1 /\ acc.name # <<firstname, 0>> THEN SName(firstname) ELSE acc.name
    OBVIOUS
  <1>o. PICK enabled : enabled = IF step > 2 THEN TRUE ELSE acc.enabled
    OBVIOUS
  <1>p. PICK contact : contact = IF step > 2 THEN r.contact ELSE acc.contact
    OBVIOUS
  <1>q. PICK ou : ou = IF step > 4 THEN r.ou ELSE acc.ou
    OBVIOUS
  <1>6. PICK new : /\ new = [name |-> name, enabled |-> enabled, contact |-> contact, ou |-> ou]
                   /\ ad' = [ad EXCEPT ![r.ipn] = new]
    BY <1>4, <1>n, <1>o, <1>p, <1>q
  <1>7. name \in AccountNames /\ (step > 1 => name[1] = firstname)
    <2>1. SName(firstname) \in AccountNames /\ SName(firstname)[1] = firstname
      BY <1>t, NameFound
    <2>2. <<firstname, 0>>[1] = firstname
      OBVIOUS
    <2>3. CASE step > 1 /\ acc.name # <<firstname, 0>>
      BY <1>n, <2>1, <2>3
    <2>4. CASE ~ (step > 1 /\ acc.name # <<firstname, 0>>)
      <3>1. name = acc.name /\ (step > 1 => name = <<firstname, 0>>)
        BY <1>n, <2>4
      <3>2. QED
        BY <1>5, <2>2, <3>1
    <2>5. QED
      BY <2>3, <2>4
  <1>8. /\ enabled \in BOOLEAN /\ contact \in Contacts /\ ou \in Units \cup {"Dismissed"}
        /\ step = 5 => enabled = TRUE /\ contact = r.contact /\ ou = r.ou
    <2>1. CASE step = 5
      BY <1>5, <1>o, <1>p, <1>q, <2>1
    <2>2. CASE step # 5
      <3>1. ~ (step > 4)
        BY <2>2
      <3>2. CASE step > 2
        BY <1>5, <1>o, <1>p, <1>q, <2>2, <3>1, <3>2
      <3>3. CASE ~ (step > 2)
        BY <1>5, <1>o, <1>p, <1>q, <2>2, <3>1, <3>3
      <3>4. QED
        BY <3>2, <3>3
    <2>3. QED
      BY <2>1, <2>2
  <1>9. new \in Account /\ new # NULL
    <2>1. new \in Account
      BY <1>6, <1>7, <1>8 DEF Account, AccountNames
    <2>2. QED
      BY <2>1, UserAssumption
  <1>10. /\ ad' \in [People -> Account \cup {NULL}] /\ ad'[r.ipn] = new
         /\ \A u \in People : u # r.ipn => ad'[u] = ad[u]
    BY <1>3, <1>t, <1>6, <1>9
  <1>11. /\ faults' \in Nat /\ errors' \in Nat /\ errors <= errors' /\ errors' <= MaxErrors
    <2>1. Fail(0) \/ Fail(1)
      BY <1>4
    <2>2. QED
      BY <2>1, FailGrows
  <1>12. errlog \subseteq errlog' /\ (step # 5 => <<run, r.ipn>> \in errlog')
    BY <1>4
  <1>13. AccountsInv' /\ run' = run /\ row' = row
    BY <1>1, <1>2, <1>10, <1>12, <1>r, RowSettled DEF UserInv
  <1>14. UserTypes' /\ Progress' /\ (Noted => Noted')
    BY <1>1, <1>2, <1>10, <1>11, <1>13, RowFrame DEF UserInv
  <1>15. step = 5 /\ firstname = r.name => Fits(new, r)
    <2>1. new.name = name /\ new.enabled = enabled /\ new.contact = contact /\ new.ou = ou
      BY <1>6
    <2>2. step = 5 => name[1] = firstname
      BY <1>7
    <2>3. QED
      BY <1>3, <1>8, <1>9, <2>1, <2>2 DEF Fits
  <1>16. Noted' \/ <<run, r.ipn>> \in errlog' \/ Fits(ad'[r.ipn], r)
    BY <1>3, <1>10, <1>12, <1>14, <1>15
  <1>17. RowInv'
    BY <1>1, <1>13, <1>16, <1>r DEF RowInv, Stages
  <1>18. QED
    BY <1>13, <1>14, <1>17 DEF UserInv

\* An account is made as the row says, or the errors are counted.
LEMMA CreateInv ==
  ASSUME UserInv, Create
  PROVE  UserInv'
  <1>1. /\ pc = "create" /\ pc' = "register"
        /\ UNCHANGED <<org, trim, results, i, firstname, erorcount, errlog, cut>>
    BY DEF Create
  <1>2. pc \in Stages /\ pc' \in Stages /\ pc \in Stages \ {"report"}
    BY <1>1 DEF Stages
  <1>r. PICK r \in StaffRow : r = row
    BY <1>2, Basics DEF UserInv
  <1>3. /\ r.ipn \in People /\ r.active
        /\ Noted \/ (errors < MaxErrors /\ firstname = r.name)
    BY <1>1, <1>2, <1>r DEF UserInv, RowInv
  <1>t. /\ ad \in [People -> Account \cup {NULL}] /\ firstname \in Names \cup {NULL}
        /\ errors \in Nat /\ faults \in Nat /\ errors <= MaxErrors
    BY DEF UserInv, UserTypes, Progress
  <1>n. PICK name \in AccountNames : name = SName(firstname) /\ name[1] = firstname
    BY <1>t, NameFound
  <1>a. PICK new : new = [name |-> name, enabled |-> TRUE, contact |-> r.contact, ou |-> r.ou]
    OBVIOUS
  <1>4. \/ Fail(0) /\ ad' = [ad EXCEPT ![r.ipn] = new]
        \/ Fail(1) /\ ad' = ad
        \/ ad' = ad /\ faults' = faults + 1 /\ errors' = Min({errors + 2, MaxErrors})
    BY <1>r, <1>n, <1>a DEF Create
  <1>5. new \in Account /\ new # NULL
    <2>1. r.contact \in Contacts /\ r.ou \in Units
      BY DEF StaffRow
    <2>2. new \in Account
      BY <1>a, <2>1 DEF Account, AccountNames
    <2>3. QED
      BY <2>2, UserAssumption
  <1>6. firstname = r.name => Fits(new, r)
    <2>1. new.name = name /\ new.enabled = TRUE /\ new.contact = r.contact /\ new.ou = r.ou
      BY <1>a
    <2>2. QED
      BY <1>3, <1>5, <1>n, <2>1 DEF Fits
  <1>7. /\ ad' \in [People -> Account \cup {NULL}]
        /\ \A u \in People : u # r.ipn => ad'[u] = ad[u]
    BY <1>3, <1>4, <1>5, <1>t
  <1>8. /\ faults' \in Nat /\ errors' \in Nat /\ errors <= errors' /\ errors' <= MaxErrors
        /\ errors < MaxErrors => \/ errors' > errors
                                 \/ errors' = errors /\ ad'[r.ipn] = new
    <2>1. CASE Fail(0) /\ ad' = [ad EXCEPT ![r.ipn] = new]
      BY <1>3, <1>t, <2>1, FailGrows
    <2>2. CASE Fail(1) /\ ad' = ad
      BY <2>2, FailGrows
    <2>3. CASE faults' = faults + 1 /\ errors' = Min({errors + 2, MaxErrors})
      BY <1>t, <2>3, ErrorsGrow
    <2>4. QED
      BY <1>4, <2>1, <2>2, <2>3
  <1>9. AccountsInv' /\ run' = run /\ row' = row
    BY <1>1, <1>2, <1>7, <1>r, RowSettled DEF UserInv
  <1>10. UserTypes' /\ Progress' /\ (Noted => Noted') /\ (errors' > errors => Noted')
    BY <1>1, <1>2, <1>7, <1>8, <1>9, <1>t, RowFrame
  <1>11. Noted' \/ (errors' < MaxErrors /\ Fits(ad'[r.ipn], r))
    BY <1>3, <1>6, <1>8, <1>10
  <1>12. RowInv'
    BY <1>1, <1>3, <1>9, <1>11, <1>r DEF RowInv, Stages
  <1>13. QED
    BY <1>9, <1>10, <1>12 DEF UserInv

\* The account stays as it is when the first login is registered, or not.
LEMMA RegisterInv ==
  ASSUME UserInv, Register
  PROVE  UserInv'
  <1>1. /\ pc = "register" /\ pc' = "report" /\ firstname' = NULL
        /\ UNCHANGED <<org, trim, results, i, erorcount, ad, errlog, cut>>
    BY DEF Register
  <1>2. pc \in Stages /\ pc' \in Stages
    BY <1>1 DEF Stages
  <1>3. PICK n \in {0, 1} : Fail(n)
    BY DEF Register
  <1>4. faults' \in Nat /\ errors' \in Nat /\ errors <= errors' /\ errors' <= MaxErrors
    BY <1>3, FailGrows
  <1>5. AccountsInv' /\ run' = run /\ row' = row
    BY <1>1, <1>2, RowSettled DEF UserInv
  <1>6. UserTypes' /\ Progress' /\ (Noted => Noted')
    BY <1>1, <1>2, <1>4, <1>5, RowFrame DEF UserInv, UserTypes
  <1>7. Noted \/ Fits(ad[row.ipn], row)
    BY <1>1 DEF UserInv, RowInv
  <1>8. RowInv'
    BY <1>1, <1>5, <1>6, <1>7 DEF RowInv, Stages
  <1>9. QED
    BY <1>5, <1>6, <1>8 DEF UserInv

\* A row is behind: what went wrong with it is reported for its person.
LEMMA ReportInv ==
  ASSUME UserInv, Report
  PROVE  UserInv'
  <1>1. /\ pc = "report" /\ pc' = "row" /\ i' = i + 1 /\ erorcount' = errors
        /\ errlog' = IF errors > erorcount THEN errlog \cup {<<run, row.ipn>>} ELSE errlog
        /\ UNCHANGED <<org, trim, results, firstname, errors, ad, faults, cut>>
    BY DEF Report
  <1>2. pc \in Stages /\ pc' \notin Stages /\ run' = run
    BY <1>1 DEF Stages, run
  <1>3. /\ run \in Nat /\ i \in DOMAIN results[run] /\ i \in 1 .. Len(results[run])
        /\ run \in 1 .. run
    BY <1>1, <1>2, Basics DEF UserInv
  <1>4. UserTypes'
    BY <1>1 DEF UserInv, UserTypes
  <1>5. Progress'
    <2>1. i' >= 1 /\ erorcount' <= errors'
      BY <1>1 DEF UserInv, UserTypes
    <2>2. QED
      BY <1>1, <1>2, <2>1 DEF UserInv, Progress
  <1>6. RowInv'
    BY <1>1 DEF RowInv, Stages
  <1>7. errlog \subseteq errlog' /\ (errors > erorcount => <<run, row.ipn>> \in errlog')
    BY <1>1
  <1>8. ASSUME NEW k \in Nat, NEW n \in Nat
        PROVE  /\ Done(k, n) => Done(k, n)'
               /\ Done(k, n)' => Done(k, n) \/ (k = run /\ n = i)
    <2>1. i \in Nat
      BY DEF UserInv, UserTypes
    <2>2. (n < i => n < i + 1) /\ (n < i + 1 => n < i \/ n = i)
      BY <2>1
    <2>3. pc # "idle" /\ pc' # "idle" /\ pc \in Stages \cup {"row"} /\ pc' \in Stages \cup {"row"}
      BY <1>1, <1>2
    <2>4. CASE k < run
      BY <1>1, <1>2, <2>4 DEF Done
    <2>5. CASE ~ (k < run)
      <3>1. k \in 1 .. run => k = run
        BY <1>3, <2>5
      <3>2. QED
        BY <1>1, <1>2, <2>2, <2>3, <2>5, <3>1 DEF Done
    <2>6. QED
      BY <2>4, <2>5
  <1>i. i \in Nat
    BY DEF UserInv, UserTypes
  <1>9. ASSUME NEW k \in Nat, NEW n \in Nat, k = run, n = i PROVE Done(k, n)'
    <2>1. n < i'
      BY <1>1, <1>9, <1>i
    <2>2. QED
      BY <1>1, <1>2, <1>3, <1>9, <2>1 DEF Done
  <1>10. ASSUME NEW u \in People, NEW k \in Nat, NEW n \in Nat, LastRow(u, k, n)'
         PROVE  Settled(u, k, n)'
    <2>1. Done(k, n)' /\ results[k][n].ipn = u
      BY <1>1, <1>10 DEF LastRow
    <2>2. ASSUME NEW j \in Nat, NEW m \in Nat, Done(j, m)', j > k \/ (j = k /\ m > n)
          PROVE  results[j][m].ipn # u
      BY <1>1, <1>10, <2>2 DEF LastRow
    <2>3. CASE k = run /\ n = i
      <3>1. row.ipn = u
        BY <2>1, <2>3 DEF row
      <3>2. Noted \/ <<run, u>> \in errlog \/ Fits(ad[u], row)
        BY <1>1, <3>1 DEF UserInv, RowInv
      <3>3. run \in cut \/ <<run, u>> \in errlog' \/ Fits(ad[u], row)
        BY <1>7, <3>1, <3>2 DEF Noted
      <3>4. QED
        BY <1>1, <2>3, <3>3 DEF Settled, row
    <2>4. CASE ~ (k = run /\ n = i)
      <3>1. Done(k, n)
        BY <1>8, <2>1, <2>4
      <3>2. ASSUME NEW j \in Nat, NEW m \in Nat, Done(j, m), j > k \/ (j = k /\ m > n)
            PROVE  results[j][m].ipn # u
        BY <1>8, <2>2, <3>2
      <3>3. LastRow(u, k, n)
        BY <2>1, <3>1, <3>2 DEF LastRow
      <3>4. run > k \/ (run = k /\ i > n)
        <4>1. k \in 1 .. run /\ (k < run \/ n < i)
          BY <1>1, <3>1 DEF Done
        <4>2. QED
          BY <1>3, <1>i, <4>1
      <3>5. row.ipn # u
        BY <1>3, <1>9, <1>i, <2>2, <3>4 DEF row
      <3>6. Settled(u, k, n)
        BY <3>3, <3>5 DEF UserInv, AccountsInv
      <3>7. QED
        BY <1>1, <1>7, <3>6 DEF Settled
    <2>5. QED
      BY <2>3, <2>4
  <1>11. AccountsInv'
    BY <1>10 DEF AccountsInv
  <1>12. QED
    BY <1>4, <1>5, <1>6, <1>11 DEF UserInv

\* The end of the script takes up no row; to enable Admin contradicts no row.
LEMMA EndScriptInv ==
  ASSUME UserInv, EndScript
  PROVE  UserInv'
  <1>1. /\ pc = "row" /\ i > Len(results[run])
        /\ ad' = IF Admin \in Accounts THEN [ad EXCEPT ![Admin].enabled = TRUE] ELSE ad
        /\ Exit /\ UNCHANGED <<org, results, errlog, faults, cut>>
    BY DEF EndScript
  <1>2. pc' = "idle" /\ pc \notin Stages /\ pc' \notin Stages /\ run' = run
    BY <1>1 DEF Exit, Stages, run
  <1>t. ad \in [People -> Account \cup {NULL}]
    BY DEF UserInv, UserTypes
  <1>3. /\ ad' \in [People -> Account \cup {NULL}]
        /\ \A u \in People : \A r : r.ipn = u /\ Fits(ad[u], r) => Fits(ad'[u], r)
    <2>1. CASE Admin \in Accounts
      <3>1. PICK acc \in Account : acc = ad[Admin]
        BY <1>t, <2>1 DEF Accounts
      <3>2. PICK new : new = [acc EXCEPT !.enabled = TRUE] /\ ad' = [ad EXCEPT ![Admin] = new]
        BY <1>1, <2>1, <3>1
      <3>3. /\ new \in Account /\ new.enabled = TRUE /\ new.name = acc.name
            /\ new.contact = acc.contact /\ new.ou = acc.ou
        BY <3>2 DEF Account
      <3>4. new # NULL
        BY <3>3, UserAssumption
      <3>5. ASSUME NEW r, r.ipn = Admin, Fits(acc, r) PROVE Fits(new, r)
        BY <3>3, <3>4, <3>5 DEF Fits
      <3>6. Admin \in People /\ ad'[Admin] = new /\ ad' \in [People -> Account \cup {NULL}]
            /\ \A u \in People : u # Admin => ad'[u] = ad[u]
        BY <1>t, <3>2, <3>3, UserAssumption
      <3>7. QED
        BY <3>1, <3>5, <3>6
    <2>2. CASE Admin \notin Accounts
      BY <1>1, <1>t, <2>2
    <2>3. QED
      BY <2>1, <2>2
  <1>4. UserTypes' /\ Progress' /\ RowInv'
    BY <1>1, <1>3, ExitTyped DEF UserInv
  <1>5. ASSUME NEW k \in Nat, NEW n \in Nat PROVE Done(k, n)' <=> Done(k, n)
    <2>1. run \in Nat /\ (\A j \in 1 .. run : results[j] \in Seq(StaffRow))
          /\ run \in 1 .. run /\ i \in Nat
      BY <1>1, Basics DEF UserInv, UserTypes
    <2>2. n \in DOMAIN results[run] => n < i
      <3>1. PICK list \in Seq(StaffRow) : list = results[run]
        BY <2>1
      <3>2. i > Len(list) /\ Len(list) \in Nat /\ DOMAIN list = 1 .. Len(list)
        BY <1>1, <3>1
      <3>3. n \in 1 .. Len(list) => n < i
        BY <2>1, <3>2
      <3>4. QED
        BY <3>1, <3>2, <3>3
    <2>3. k \in 1 .. run => k < run \/ k = run
      BY <2>1
    <2>4. QED
      BY <1>1, <1>2, <2>2, <2>3 DEF Done
  <1>6. AccountsInv'
    BY <1>1, <1>2, <1>3, <1>5, KeepSettled DEF UserInv
  <1>7. QED
    BY <1>4, <1>6 DEF UserInv

\* A run that is killed is excepted, and what came before it stands.
LEMMA KillInv ==
  ASSUME UserInv, Kill
  PROVE  UserInv'
  <1>1. /\ pc # "idle" /\ Exit /\ cut' = cut \cup {run}
        /\ UNCHANGED <<org, results, ad, errlog, faults>>
    BY DEF Kill
  <1>2. pc' = "idle" /\ pc' \notin Stages /\ run' = run
    BY <1>1 DEF Exit, Stages, run
  <1>3. UserTypes' /\ Progress' /\ RowInv'
    BY <1>1, ExitTyped DEF UserInv, UserTypes
  <1>4. /\ run \in Nat /\ run \in 1 .. run /\ i \in Nat
        /\ pc \in Stages => i \in DOMAIN results[run]
    BY <1>1, Basics DEF UserInv, UserTypes
  <1>5. ASSUME NEW u \in People, NEW k \in Nat, NEW n \in Nat, LastRow(u, k, n)'
        PROVE  Settled(u, k, n)'
    <2>1. /\ k \in 1 .. run /\ n \in DOMAIN results[k] /\ results[k][n].ipn = u
      BY <1>1, <1>2, <1>5 DEF LastRow, Done
    <2>2. ASSUME NEW j \in Nat, NEW m \in Nat, j \in 1 .. run, m \in DOMAIN results[j],
                 j > k \/ (j = k /\ m > n)
          PROVE  results[j][m].ipn # u
      BY <1>1, <1>2, <1>5, <2>2 DEF LastRow, Done
    <2>3. CASE k = run
      BY <1>1, <2>3 DEF Settled
    <2>4. CASE k # run
      <3>1. k < run /\ run > k
        BY <1>4, <2>1, <2>4
      <3>2. LastRow(u, k, n)
        BY <2>1, <2>2, <3>1 DEF LastRow, Done
      <3>3. pc \in Stages => u # row.ipn
        BY <1>4, <2>2, <3>1 DEF row
      <3>4. Settled(u, k, n)
        BY <3>2, <3>3 DEF UserInv, AccountsInv
      <3>5. QED
        BY <1>1, <3>4 DEF Settled
    <2>5. QED
      BY <2>3, <2>4
  <1>6. AccountsInv'
    BY <1>5 DEF AccountsInv
  <1>7. QED
    BY <1>3, <1>6 DEF UserInv

\* Every step keeps the invariant.
LEMMA UserNextInv == UserInv /\ [UserNext]_userVars => UserInv'
  <1> SUFFICES ASSUME UserInv, [UserNext]_userVars PROVE UserInv'
    OBVIOUS
  <1>1. \/ Publish \/ Age \/ UNCHANGED userVars
        \/ Kill \/ Start \/ Compare \/ CopySnapshot \/ Parse
        \/ Dismiss \/ Change \/ Create \/ Register \/ Report \/ EndScript
    BY DEF UserNext
  <1>2. QED
    BY <1>1, QuietInv, KillInv, StartInv, CompareInv, SnapshotInv, ParseInv, DismissInv,
       ChangeInv, CreateInv, RegisterInv, ReportInv, EndScriptInv

\* Between runs every row has been taken up, so that the last one is the last there is.
LEMMA SettledBetweenRuns == UserInv => AppliedOrReported
  <1> SUFFICES ASSUME UserInv, pc = "idle", NEW u \in People,
                      {k \in 1 .. run : RowsOf(u, k) # {}} # {}
               PROVE  LET last == Max({k \in 1 .. run : RowsOf(u, k) # {}})
                      IN  \/ last \in cut \/ <<last, u>> \in errlog
                          \/ Agrees(results[last][Max(RowsOf(u, last))])
    BY DEF AppliedOrReported
  <1> DEFINE ks == {k \in 1 .. run : RowsOf(u, k) # {}}
  <1>1. run \in Nat /\ \A k \in 1 .. run : results[k] \in Seq(StaffRow)
    BY Basics DEF UserInv
  <1>2. ks \subseteq 0 .. run /\ ks # {}
    BY <1>1
  <1>3. PICK k : k = Max(ks)
    OBVIOUS
  <1>4. k \in ks /\ \A j \in ks : j <= k
    BY <1>1, <1>2, <1>3, MaxIsGreatest
  <1>5. k \in 1 .. run /\ k \in Nat /\ RowsOf(u, k) # {}
    BY <1>1, <1>4
  <1>6. PICK list \in Seq(StaffRow) : list = results[k]
    BY <1>1, <1>5
  <1>7. RowsOf(u, k) \subseteq 0 .. Len(list) /\ Len(list) \in Nat
    BY <1>6 DEF RowsOf
  <1>8. PICK n : n = Max(RowsOf(u, k))
    OBVIOUS
  <1>9. n \in RowsOf(u, k) /\ \A m \in RowsOf(u, k) : m <= n
    BY <1>5, <1>7, <1>8, MaxIsGreatest
  <1>10. n \in Nat /\ n \in DOMAIN results[k] /\ results[k][n].ipn = u
    <2>1. n \in DOMAIN list /\ results[k][n].ipn = u
      BY <1>6, <1>9 DEF RowsOf
    <2>2. QED
      BY <1>6, <2>1
  <1>11. ASSUME NEW j \in Nat, NEW m \in Nat, Done(j, m), j > k \/ (j = k /\ m > n)
         PROVE  results[j][m].ipn # u
    <2>1. SUFFICES ASSUME results[j][m].ipn = u PROVE FALSE
      OBVIOUS
    <2>2. j \in 1 .. run /\ m \in RowsOf(u, j)
      BY <1>11, <2>1 DEF Done, RowsOf
    <2>3. j <= k
      BY <1>4, <2>2
    <2>4. j = k /\ m > n
      BY <1>5, <1>11, <2>3
    <2>5. m <= n
      BY <1>9, <2>2, <2>4
    <2>6. QED
      BY <1>10, <2>4, <2>5
  <1>12. LastRow(u, k, n)
    BY <1>5, <1>10, <1>11 DEF LastRow, Done
  <1>13. pc \notin Stages
    BY DEF Stages
  <1>14. Settled(u, k, n)
    BY <1>5, <1>10, <1>12, <1>13 DEF UserInv, AccountsInv
  <1>15. PICK r : r = results[k][n]
    OBVIOUS
  <1>16. Fits(ad[u], r) => Agrees(r)
    BY <1>10, <1>15 DEF Fits, Agrees, Accounts
  <1>17. k \in cut \/ <<k, u>> \in errlog \/ Agrees(results[k][n])
    BY <1>14, <1>15, <1>16 DEF Settled
  <1>18. QED
    BY <1>3, <1>8, <1>17

-----------------------------------------------------------------------------

\* Between runs of adduser.ps1 the account of every person is what the last row taken up
\* for the person says, or that run reported an error for the person or was killed or had
\* filled $Error: for any staff lists, any number of runs, calls that fail and kills.
THEOREM AccountsAreRight == UserSpec => []AppliedOrReported
  <1>1. UserInit => UserInv
    BY UserInitInv
  <1>2. UserInv /\ [UserNext]_userVars => UserInv'
    BY UserNextInv
  <1>3. UserInv => AppliedOrReported
    BY SettledBetweenRuns
  <1>4. QED
    BY <1>1, <1>2, <1>3, PTL DEF UserSpec
=============================================================================
