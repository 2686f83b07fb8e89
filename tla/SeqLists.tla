------------------------------ MODULE SeqLists ------------------------------
(* What mk_list promises its callers: a head stands for a sequence of entries,   *)
(* an entry is on one list at most, and each operation edits one sequence.       *)
EXTENDS Naturals, Sequences, SequencesExt

CONSTANTS Heads, Entries

VARIABLE seqs

\* The entries that are on some list.
OnLists == UNION {ToSet(seqs[h]) : h \in Heads}

SeqInit == seqs = [h \in Heads |-> << >>]

\* A free entry becomes element i of one list; the others keep their order.
Insert == \E h \in Heads, n \in Entries \ OnLists : \E i \in 1 .. Len(seqs[h]) + 1 :
            seqs' = [seqs EXCEPT ![h] = InsertAt(@, i, n)]

\* One entry leaves its list.
Delete == \E h \in Heads : \E i \in 1 .. Len(seqs[h]) :
            seqs' = [seqs EXCEPT ![h] = RemoveAt(@, i)]

\* A whole list moves behind another one.
Concat == \E l, h \in Heads :
            /\ l # h
            /\ seqs' = [seqs EXCEPT ![h] = @ \o seqs[l], ![l] = << >>]

SeqNext == Insert \/ Delete \/ Concat

SeqStep == SeqNext \/ UNCHANGED seqs

SeqSpec == SeqInit /\ [][SeqNext]_seqs
=============================================================================
