---------------------------- MODULE PriorityQueue ----------------------------
(* What flb_bucket_queue promises: items wait in the order of their priority,    *)
(* first in first out within one, and the item taken is the best one waiting.    *)
EXTENDS Naturals, Sequences, SequencesExt

CONSTANTS Priorities, Items, NULL

VARIABLES waiting,  \* [Priorities -> Seq(Items)]
          got       \* the answer of the last request

pqVars == <<waiting, got>>

Queued == UNION {ToSet(waiting[p]) : p \in Priorities}

PqInit == waiting = [p \in Priorities |-> << >>] /\ got = NULL

Put == \E x \in Items \ Queued, p \in Priorities :
         /\ waiting' = [waiting EXCEPT ![p] = Append(@, x)]
         /\ UNCHANGED got

\* An item leaves the queue out of turn.
Withdraw == \E p \in Priorities : \E i \in 1 .. Len(waiting[p]) :
              /\ waiting' = [waiting EXCEPT ![p] = RemoveAt(@, i)]
              /\ UNCHANGED got

\* p is the best priority that somebody waits with.
Best(p) == waiting[p] # << >> /\ \A q \in Priorities : q < p => waiting[q] = << >>

Peek == \E p \in Priorities : /\ Best(p)
                              /\ got' = Head(waiting[p])
                              /\ UNCHANGED waiting

Take == \E p \in Priorities : /\ Best(p)
                              /\ got' = Head(waiting[p])
                              /\ waiting' = [waiting EXCEPT ![p] = Tail(@)]

\* The best item is discarded without an answer.
Drop == \E p \in Priorities : /\ Best(p)
                              /\ waiting' = [waiting EXCEPT ![p] = Tail(@)]
                              /\ UNCHANGED got

\* Nobody waits.
Nothing == /\ \A p \in Priorities : waiting[p] = << >>
           /\ got' = NULL
           /\ UNCHANGED waiting

PqNext == Put \/ Withdraw \/ Peek \/ Take \/ Drop \/ Nothing

PqSpec == PqInit /\ [][PqNext]_pqVars
=============================================================================
