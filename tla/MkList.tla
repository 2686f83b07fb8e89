------------------------------- MODULE MkList -------------------------------
(* The intrusive doubly linked list every Fluent Bit structure is threaded on    *)
(* (monkey/mk_core/mk_list.h).  mem is the memory of the list cells: a head is a  *)
(* cell that points at itself when its list is empty, an entry that is on no      *)
(* list has both pointers NULL.  The operators mk_list_* are the inline functions *)
(* as functions from memory to memory; the actions call them the way the header's *)
(* callers may: an entry is added only when it is on no list, and a head whose    *)
(* list was moved away by mk_list_cat is initialised before its next use.         *)
EXTENDS FlbNull, Naturals, Sequences, FiniteSets, SequencesExt

CONSTANTS Heads, Entries

ASSUME ListAssumption ==
  /\ Heads \cap Entries = {}
  /\ NULL \notin Heads \cup Entries
  /\ IsFiniteSet(Entries)

VARIABLES mem,      \* [Cells -> [prev, next]]
          moved,    \* heads whose list mk_list_cat gave away, not initialised since
          iter      \* a mk_list_foreach_safe loop in progress: head, curr and n

listVars == <<mem, moved, iter>>

Cells    == Heads \cup Entries
CellOrNull == Cells \cup {NULL}
Unlinked == [prev |-> NULL, next |-> NULL]

NoIter == [head |-> NULL, curr |-> NULL, n |-> NULL]
-----------------------------------------------------------------------------
mk_list_init(m, l) == [m EXCEPT ![l] = [prev |-> l, next |-> l]]

\* __mk_list_add: the assignments in the order of the code, prev may equal next.
LinkBetween(m, new, prev, next) ==
  [m EXCEPT ![next].prev = new, ![new].next = next, ![new].prev = prev, ![prev].next = new]

mk_list_add(m, new, head) == LinkBetween(m, new, m[head].prev, head)

\* With one entry on the list head->prev = head->next, so "after the head" appends.
mk_list_add_after(m, new, prev, head) ==
  IF m[head].prev = m[head].next \/ m[head].prev = prev
  THEN mk_list_add(m, new, head)
  ELSE LinkBetween(m, new, prev, m[prev].next)

mk_list_is_empty(m, head) == m[head].next = head

mk_list_add_before(m, new, next, head) ==
  IF NULL \in {new, next, head} THEN m
  ELSE IF mk_list_is_empty(m, head) \/ next = head THEN mk_list_add(m, new, head)
  ELSE LinkBetween(m, new, m[next].prev, next)

mk_list_append(m, new, head) ==
  IF mk_list_is_empty(m, head) THEN LinkBetween(m, new, m[head].prev, head)
  ELSE mk_list_add_after(m, new, m[head].prev, head)

mk_list_prepend(m, new, head) ==
  IF mk_list_is_empty(m, head) THEN LinkBetween(m, new, m[head].prev, head)
  ELSE mk_list_add_before(m, new, m[head].next, head)

\* The mutated form: the neighbour behind keeps pointing at the entry.
DelForgetsPrev(m, entry) ==
  [m EXCEPT ![m[entry].prev].next = m[entry].next, ![entry] = Unlinked]

\* __mk_list_del, then both pointers of the entry are cleared.
mk_list_del(m, entry) ==
  [m EXCEPT ![m[entry].prev].next = m[entry].next,
            ![m[entry].next].prev = m[entry].prev,
            ![entry] = Unlinked]

mk_list_is_set(m, c) == m[c].next # NULL /\ m[c].prev # NULL

mk_list_entry_is_orphan(m, c) == ~ mk_list_is_set(m, c)

\* The mutated form: the moved entries' last one is not tied to the head.
CatOpenEnd(m, list, head) ==
  [m EXCEPT ![m[head].prev].next = m[list].next, ![m[list].next].prev = m[head].prev,
            ![head].prev = m[list].prev]

\* list->prev is read after list->next->prev was written: they are the same cell
\* when the list moved is empty.
mk_list_cat(m, list, head) ==
  LET last == m[head].prev
      m1   == [m EXCEPT ![last].next = m[list].next, ![m[list].next].prev = last]
  IN  [m1 EXCEPT ![m1[list].prev].next = head, ![head].prev = m1[list].prev]

-----------------------------------------------------------------------------
\* The sequences of distinct entries.
Chains == {s \in UNION {[1 .. n -> Entries] : n \in 0 .. Cardinality(Entries)} :
             \A i, j \in DOMAIN s : s[i] = s[j] => i = j}

\* mk_list_foreach visits s: from the head through next, back to the head.
Visits(m, head, s) ==
  LET cell(i) == IF i \in DOMAIN s THEN s[i] ELSE head
  IN  \A i \in 0 .. Len(s) : m[cell(i)].next = cell(i + 1)

\* The entries of a list in order; a loop that does not come back visits <<NULL>>.
Walk(m, head) == IF \E s \in Chains : Visits(m, head, s)
                 THEN CHOOSE s \in Chains : Visits(m, head, s) ELSE <<NULL>>

-----------------------------------------------------------------------------
Free   == {e \in Entries : mk_list_entry_is_orphan(mem, e)}
Usable == Heads \ moved

\* Entries and the head of a list, the places an entry can be added next to.
Places(h) == {h} \cup (Entries \cap ToSet(Walk(mem, h)))

ListInit ==
  /\ mem = [c \in Cells |-> IF c \in Heads THEN [prev |-> c, next |-> c] ELSE Unlinked]
  /\ moved = {}
  /\ iter = NoIter

Add(e, h) == /\ mem' = mk_list_add(mem, e, h)
             /\ UNCHANGED <<moved, iter>>

Append_(e, h) == /\ mem' = mk_list_append(mem, e, h)
                 /\ UNCHANGED <<moved, iter>>

Prepend(e, h) == /\ mem' = mk_list_prepend(mem, e, h)
                 /\ UNCHANGED <<moved, iter>>

AddAfter(e, p, h) == /\ mem' = mk_list_add_after(mem, e, p, h)
                     /\ UNCHANGED <<moved, iter>>

AddBefore(e, x, h) == /\ mem' = mk_list_add_before(mem, e, x, h)
                      /\ UNCHANGED <<moved, iter>>

\* A loop's saved n is the one entry its body must not delete.
Del(e) == /\ e # iter.n
          /\ e # iter.curr
          /\ mem' = mk_list_del(mem, e)
          /\ UNCHANGED <<moved, iter>>

Cat(l, h) == /\ l # h
             /\ iter.head \notin {l, h}
             /\ mem' = mk_list_cat(mem, l, h)
             /\ moved' = moved \cup {l}
             /\ UNCHANGED iter

\* The head moved away starts a new list.
ReInit(h) == /\ mem' = mk_list_init(mem, h)
             /\ moved' = moved \ {h}
             /\ UNCHANGED iter

\* mk_list_foreach_safe: curr is the first cell, n the one behind it.
LoopStart(h) == /\ iter = NoIter
                /\ iter' = [head |-> h, curr |-> mem[h].next, n |-> mem[mem[h].next].next]
                /\ UNCHANGED <<mem, moved>>

\* The body deletes the current entry or keeps it; then curr = n, n = curr->next.
LoopStep(del) ==
  /\ iter # NoIter /\ iter.curr # iter.head
  /\ mem' = IF del THEN mk_list_del(mem, iter.curr) ELSE mem
  /\ iter' = [iter EXCEPT !.curr = iter.n, !.n = mem'[iter.n].next]
  /\ UNCHANGED moved

LoopEnd == /\ iter # NoIter /\ iter.curr = iter.head
           /\ iter' = NoIter
           /\ UNCHANGED <<mem, moved>>

ListNext ==
  \/ \E e \in Free, h \in Usable : Add(e, h) \/ Append_(e, h) \/ Prepend(e, h)
  \/ \E e \in Free, h \in Usable : \E p \in Places(h) : AddAfter(e, p, h) \/ AddBefore(e, p, h)
  \/ \E e \in Entries \ Free : Del(e)
  \/ \E l, h \in Usable : Cat(l, h)
  \/ \E h \in moved : ReInit(h)
  \/ \E h \in Usable : LoopStart(h)
  \/ \E del \in BOOLEAN : LoopStep(del)
  \/ LoopEnd

ListSpec == ListInit /\ [][ListNext]_listVars
-----------------------------------------------------------------------------
\* Cells that are on a list: every head in use and every entry with its pointers set.
Linked == Usable \cup (Entries \ Free)

ListTypeOK ==
  /\ mem \in [Cells -> [prev : CellOrNull, next : CellOrNull]]
  /\ moved \subseteq Heads
  /\ iter \in [head : CellOrNull, curr : CellOrNull, n : CellOrNull]

\* The neighbours of a cell point back at it, and are on a list themselves: no order of
\* additions, deletions, moves and loops leaves a half-linked cell, and a foreach_safe loop
\* stands on cells that are still linked whatever its body did to the list
\* (mk_list.h:54-207).
LinksMirror ==
  /\ \A c \in Linked : /\ mem[c].next \in Linked /\ mem[mem[c].next].prev = c
                        /\ mem[c].prev \in Linked /\ mem[mem[c].prev].next = c
  /\ iter # NoIter => {iter.head, iter.curr, iter.n} \subseteq Linked

\* Refinement: read through next, the heads' lists are the sequences of SeqLists.
Abstract == INSTANCE SeqLists WITH
  seqs <- [h \in Heads |-> IF h \in moved THEN << >> ELSE Walk(mem, h)]

\* mk_list implements sequences: adding, deleting, moving and looping edit one sequence,
\* never lose or duplicate an entry (mk_list.h:63-203).  It says Abstract!SeqSpec: the
\* sequences depend on mem and moved alone, so steps that leave these map to stutters.
ImplementsSeqLists ==
  Abstract!SeqInit /\ [][UNCHANGED <<mem, moved>> \/ Abstract!SeqStep]_listVars
=============================================================================
