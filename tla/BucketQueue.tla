----------------------------- MODULE BucketQueue -----------------------------
(* The bucket queue of the event loop (fluent-bit/flb_bucket_queue.h): one list  *)
(* per priority and a pointer top, kept lazily, to the first list that may hold  *)
(* an item.  A list is the sequence that MkList is shown to implement.  An item  *)
(* may also leave by mk_list_del on its own link, behind the queue's back: then   *)
(* neither top nor n_items follows.                                               *)
EXTENDS FlbNull, Naturals, Integers, Sequences, SequencesExt

CONSTANTS Items,
          Count,       \* n_buckets
          MaxItems     \* bound: the highest n_items explored

ASSUME BucketAssumption == Count \in Nat \ {0} /\ MaxItems \in Nat /\ NULL \notin Items

VARIABLES bq,       \* the struct, or NULL when it is not allocated
          taken     \* what the last find_min or pop_min returned

bqVars == <<bq, taken>>

Buckets == 0 .. Count - 1

NewQueue == [buckets |-> [p \in Buckets |-> << >>], top |-> Count, n_items |-> 0]

\* struct flb_bucket_queue; top is an index, Count is one past the last bucket.
Queue == [buckets : [Buckets -> Seq(Items)], top : 0 .. Count, n_items : Int]

\* A null pointer is no queue.
ASSUME NullAssumption == NULL \notin Queue
-----------------------------------------------------------------------------
In(q) == UNION {ToSet(q.buckets[p]) : p \in Buckets}

flb_bucket_queue_is_empty(q) == q.top = Count

\* top moves over empty buckets, to the first one in use or past the end.
SeekTo(q) == CHOOSE i \in q.top .. Count :
               /\ i = Count \/ q.buckets[i] # << >>
               /\ \A j \in q.top .. i - 1 : q.buckets[j] = << >>

flb_bucket_queue_seek(q) == [q EXCEPT !.top = SeekTo(q)]

\* The mutated form: top is only set when the queue was empty, never lowered.
AddBelowTop(q, item, priority) ==
  IF priority \notin Buckets THEN q
  ELSE LET s == flb_bucket_queue_seek(q)
       IN  [s EXCEPT !.buckets[priority] = Append(@, item),
                     !.top = IF @ = Count THEN priority ELSE @,
                     !.n_items = @ + 1]

\* The priority is a size_t: a negative char is far above n_buckets.
flb_bucket_queue_add(q, item, priority) ==
  IF priority \notin Buckets THEN q
  ELSE LET s == flb_bucket_queue_seek(q)
       IN  [s EXCEPT !.buckets[priority] = Append(@, item),
                     !.top = IF priority < @ THEN priority ELSE @,
                     !.n_items = @ + 1]

\* The item find_min returns; the caller's queue is the one after the seek.
flb_bucket_queue_find_min(q) ==
  LET s == flb_bucket_queue_seek(q)
  IN  IF flb_bucket_queue_is_empty(s) THEN NULL ELSE Head(s.buckets[s.top])

flb_bucket_queue_delete_min(q) ==
  LET s == flb_bucket_queue_seek(q)
  IN  IF flb_bucket_queue_is_empty(s) THEN s
      ELSE LET d == [s EXCEPT !.buckets[s.top] = Tail(@)]
           IN  [flb_bucket_queue_seek(d) EXCEPT !.n_items = @ - 1]

\* mk_list_del(&item), for an item that waits: only its list changes.
Unlink(q, item) ==
  LET p == CHOOSE b \in Buckets : item \in ToSet(q.buckets[b])
      i == CHOOSE k \in 1 .. Len(q.buckets[p]) : q.buckets[p][k] = item
  IN  [q EXCEPT !.buckets[p] = RemoveAt(@, i)]
-----------------------------------------------------------------------------
BqInit == bq = NULL /\ taken = NULL

\* flb_bucket_queue_create; either allocation may fail, then nothing is kept.
Create(failed) == /\ bq = NULL
                  /\ bq' = IF failed THEN NULL ELSE NewQueue
                  /\ UNCHANGED taken

AddItem(item, priority) == /\ bq # NULL
                           /\ item \notin In(bq)
                           /\ bq.n_items < MaxItems
                           /\ bq' = flb_bucket_queue_add(bq, item, priority)
                           /\ UNCHANGED taken

FindMin == /\ bq # NULL
           /\ taken' = flb_bucket_queue_find_min(bq)
           /\ bq' = flb_bucket_queue_seek(bq)

DeleteMin == /\ bq # NULL
             /\ bq' = flb_bucket_queue_delete_min(bq)
             /\ UNCHANGED taken

\* flb_bucket_queue_pop_min: find_min, then delete_min.
PopMin == /\ bq # NULL
          /\ taken' = flb_bucket_queue_find_min(bq)
          /\ bq' = flb_bucket_queue_delete_min(flb_bucket_queue_seek(bq))

DirectDel(item) == /\ bq # NULL
                   /\ item \in In(bq)
                   /\ bq' = Unlink(bq, item)
                   /\ UNCHANGED taken

\* flb_bucket_queue_destroy refuses (-1) while an item is left; its seek has happened.
Destroy == /\ bq # NULL
           /\ bq' = LET s == flb_bucket_queue_seek(bq)
                    IN  IF flb_bucket_queue_is_empty(s) THEN NULL ELSE s
           /\ UNCHANGED taken

BqNext ==
  \/ \E failed \in BOOLEAN : Create(failed)
  \/ \E item \in Items, priority \in -1 .. Count : AddItem(item, priority)
  \/ FindMin \/ DeleteMin \/ PopMin \/ Destroy
  \/ \E item \in Items : DirectDel(item)

BqSpec == BqInit /\ [][BqNext]_bqVars
-----------------------------------------------------------------------------
BqTypeOK == bq \in Queue \cup {NULL} /\ taken \in Items \cup {NULL}

\* No item waits in a bucket below top, so seek finds the best one although direct
\* deletions leave top behind on empty buckets (flb_bucket_queue.h:73-95).
TopBelowItems == bq # NULL => \A p \in Buckets : p < bq.top => bq.buckets[p] = << >>

\* Refinement: the buckets are the waiting items, taken is the answer.
PQ == INSTANCE PriorityQueue WITH
  Priorities <- Buckets,
  waiting <- IF bq = NULL THEN [p \in Buckets |-> << >>] ELSE bq.buckets,
  got <- taken

\* The bucket queue implements the priority queue, FIFO within a priority, with direct
\* removals in between (flb_bucket_queue.h:80-124, "fifo based on priority").
ImplementsPriorityQueue == PQ!PqSpec
=============================================================================
