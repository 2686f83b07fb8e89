---------------------------- MODULE MCOperations ----------------------------
(* Two scripts of different computers that share nothing, one at a time: the first *)
(* state chooses the script, and the other one never starts.                        *)
EXTENDS AddUser, VeeamZip, TLC

CONSTANTS pu04984, pu05071, none

VARIABLE script

opVars == <<script, userVars, zipVars>>

Row(ipn, name, ou, contact, active) ==
  [ipn |-> ipn, name |-> name, ou |-> ou, contact |-> contact, active |-> active]

\* Two namesakes; the second without a surname after the first was dismissed; a person
\* who moved, with the row of the old place; a row without a number, and one whose
\* contact fields hold a plus sign.
MCLists ==
  {<<Row(pu04984, "Ivanov", "OU1", "plain", TRUE), Row(pu05071, "Ivanov", "OU1", "plain", TRUE)>>,
   <<Row(pu04984, "Ivanov", "OU1", "plain", FALSE), Row(pu05071, "", "OU1", "dot", TRUE)>>,
   <<Row(pu05071, "Ivanov", "OU1", "plain", FALSE), Row(pu05071, "Petrov", "OU2", "dot", TRUE)>>,
   <<Row(none, "", "OU1", "plain", TRUE), Row(pu04984, "Petrov", "OU2", "plus", TRUE)>>}

OpInit == script \in {"adduser", "veeamzip"} /\ UserInit /\ ZipInit
          /\ (script = "veeamzip" => org = CHOOSE l \in Lists : TRUE)
          /\ (script = "adduser" => server = [d \in Dirs |-> {}] /\ dir = CHOOSE d \in Dirs : TRUE)

OpNext ==
  \/ script = "adduser" /\ UserNext /\ UNCHANGED <<script, zipVars>>
  \/ script = "veeamzip" /\ ZipNext /\ UNCHANGED <<script, userVars>>

OpSpec == OpInit /\ [][OpNext]_opVars
=============================================================================
