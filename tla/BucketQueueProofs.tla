------------------------- MODULE BucketQueueProofs -------------------------
(* Theorems about BucketQueue and the loop on top of it, for any number of        *)
(* buckets, any set of items, any max_iter and any size of the backend's array:    *)
(* what seek finds, that no item waits below top, that the queue implements        *)
(* PriorityQueue; which event a handler runs for, that it is still registered, and *)
(* where an injected event can be lost.                                            *)
EXTENDS EventLoop, SequenceTheorems, FiniteSetTheorems, WellFoundedInduction, TLAPS

-----------------------------------------------------------------------------
(* Lemmas about the operators. *)

\* A set of naturals has a least element: the loop of flb_bucket_queue_seek ends.
LEMMA LeastNatural ==
  ASSUME NEW T, T \subseteq Nat, T # {}
  PROVE  \E x \in T : \A y \in T : x <= y
  <1>1. PICK x \in T : \A y \in T : ~ (<<y, x>> \in OpToRel(<, Nat))
    BY NatLessThanWellFounded, WFMin
  <1>2. \A y \in T : ~ (y < x)
    BY <1>1 DEF OpToRel
  <1>3. QED
    BY <1>2

\* An entry unlinked from a list leaves a list.
LEMMA RemoveAtType ==
  ASSUME NEW S, NEW s \in Seq(S), NEW i \in 1 .. Len(s)
  PROVE  /\ RemoveAt(s, i) \in Seq(S)
         /\ Len(RemoveAt(s, i)) = Len(s) - 1
         /\ \A k \in 1 .. Len(s) - 1 :
              RemoveAt(s, i)[k] = IF k < i THEN s[k] ELSE s[k + 1]
  <1>1. Len(s) \in Nat /\ \A k \in 1 .. Len(s) : s[k] \in S
    BY LenProperties, ElementOfSeq
  <1> DEFINE front == SubSeq(s, 1, i - 1)
             back  == SubSeq(s, i + 1, Len(s))
  <1>2. /\ front \in Seq(S) /\ Len(front) = i - 1
        /\ \A k \in 1 .. i - 1 : front[k] = s[k]
    <2>1. \A k \in 1 .. i - 1 : s[k] \in S
      BY <1>1
    <2>2. QED
      BY <1>1, <2>1, SubSeqProperties
  <1>3. /\ back \in Seq(S) /\ Len(back) = Len(s) - i
        /\ \A k \in 1 .. Len(s) - i : back[k] = s[i + k]
    <2>1. \A k \in i + 1 .. Len(s) : s[k] \in S
      BY <1>1
    <2>2. /\ back \in Seq(S)
          /\ Len(back) = IF i + 1 <= Len(s) THEN Len(s) - (i + 1) + 1 ELSE 0
          /\ \A k \in 1 .. Len(s) - (i + 1) + 1 : back[k] = s[(i + 1) + k - 1]
      BY <1>1, <2>1, SubSeqProperties
    <2> HIDE DEF back
    <2>3. Len(back) = Len(s) - i
      BY <1>1, <2>2
    <2>4. ASSUME NEW k \in 1 .. Len(s) - i PROVE back[k] = s[i + k]
      <3>1. k \in 1 .. Len(s) - (i + 1) + 1 /\ (i + 1) + k - 1 = i + k
        BY <1>1
      <3>2. QED
        BY <2>2, <3>1
    <2>5. QED
      BY <2>2, <2>3, <2>4
  <1>4. RemoveAt(s, i) = front \o back
    BY DEF RemoveAt
  <1> HIDE DEF front, back
  <1>5. /\ front \o back \in Seq(S) /\ Len(front \o back) = Len(s) - 1
        /\ \A k \in 1 .. Len(s) - 1 :
             (front \o back)[k] = IF k <= i - 1 THEN front[k] ELSE back[k - (i - 1)]
    <2>1. /\ front \o back \in Seq(S) /\ Len(front \o back) = Len(front) + Len(back)
          /\ \A k \in 1 .. Len(front) + Len(back) :
               (front \o back)[k] = IF k <= Len(front) THEN front[k] ELSE back[k - Len(front)]
      BY <1>2, <1>3, ConcatProperties
    <2>2. Len(front) = i - 1 /\ Len(front) + Len(back) = Len(s) - 1
      BY <1>1, <1>2, <1>3
    <2>3. QED
      BY <2>1, <2>2
  <1>6. ASSUME NEW k \in 1 .. Len(s) - 1
        PROVE  RemoveAt(s, i)[k] = IF k < i THEN s[k] ELSE s[k + 1]
    <2>1. CASE k < i
      BY <1>1, <1>2, <1>4, <1>5, <2>1
    <2>2. CASE ~ (k < i)
      <3>1. k - (i - 1) \in 1 .. Len(s) - i /\ i + (k - (i - 1)) = k + 1
        BY <1>1, <2>2
      <3>2. QED
        BY <1>1, <1>3, <1>4, <1>5, <2>2, <3>1
    <2>3. QED
      BY <2>1, <2>2
  <1>7. QED
    BY <1>4, <1>5, <1>6

\* flb_bucket_queue_seek stops at the first bucket in use from top on, or past the end.
LEMMA SeekToProperties ==
  ASSUME NEW q \in Queue
  PROVE  /\ SeekTo(q) \in q.top .. Count
         /\ SeekTo(q) = Count \/ q.buckets[SeekTo(q)] # << >>
         /\ \A j \in q.top .. SeekTo(q) - 1 : q.buckets[j] = << >>
  <1> DEFINE T == {i \in q.top .. Count : i = Count \/ q.buckets[i] # << >>}
  <1>1. Count \in Nat /\ q.top \in 0 .. Count
    BY BucketAssumption DEF Queue
  <1>2. T \subseteq Nat /\ Count \in T
    BY <1>1
  <1>3. PICK x \in T : \A y \in T : x <= y
    BY <1>2, LeastNatural
  <1>4. \A j \in q.top .. x - 1 : q.buckets[j] = << >>
    BY <1>1, <1>3
  <1>5. \E i \in q.top .. Count : /\ i = Count \/ q.buckets[i] # << >>
                                  /\ \A j \in q.top .. i - 1 : q.buckets[j] = << >>
    BY <1>4
  <1>6. QED
    BY <1>5 DEF SeekTo

\* The invariant as a property of a queue.
Ordered(q) == q \in Queue /\ \A p \in Buckets : p < q.top => q.buckets[p] = << >>

\* A seek moves nothing but top: afterwards top names the first bucket in use.
LEMMA SeekProperties ==
  ASSUME NEW q, Ordered(q)
  PROVE  LET s == flb_bucket_queue_seek(q)
         IN  /\ Ordered(s)
             /\ s.buckets = q.buckets /\ s.n_items = q.n_items
             /\ s.top = Count => \A p \in Buckets : q.buckets[p] = << >>
             /\ s.top # Count => s.top \in Buckets /\ q.buckets[s.top] # << >>
             /\ \A p \in Buckets : p < s.top => q.buckets[p] = << >>
  <1> DEFINE s == flb_bucket_queue_seek(q)
  <1>1. /\ q \in Queue /\ Count \in Nat \ {0} /\ q.top \in 0 .. Count
        /\ q.buckets \in [Buckets -> Seq(Items)] /\ q.n_items \in Int
    BY BucketAssumption DEF Ordered, Queue
  <1>2. /\ SeekTo(q) \in q.top .. Count
        /\ SeekTo(q) = Count \/ q.buckets[SeekTo(q)] # << >>
        /\ \A j \in q.top .. SeekTo(q) - 1 : q.buckets[j] = << >>
    BY <1>1, SeekToProperties
  <1>3. s.buckets = q.buckets /\ s.n_items = q.n_items /\ s.top = SeekTo(q) /\ s \in Queue
    BY <1>1, <1>2 DEF flb_bucket_queue_seek, Queue
  <1>4. \A p \in Buckets : p < s.top => q.buckets[p] = << >>
    <2> SUFFICES ASSUME NEW p \in Buckets, p < s.top PROVE q.buckets[p] = << >>
      OBVIOUS
    <2>1. CASE p < q.top
      BY <2>1 DEF Ordered
    <2>2. CASE ~ (p < q.top)
      <3>1. p \in Nat /\ q.top \in Nat /\ SeekTo(q) \in Nat /\ p < SeekTo(q)
        BY <1>1, <1>2, <1>3 DEF Buckets
      <3>2. p \in q.top .. SeekTo(q) - 1
        BY <3>1, <2>2
      <3>3. QED
        BY <3>2, <1>2
    <2>3. QED
      BY <2>1, <2>2
  <1>5. s.top = Count => \A p \in Buckets : q.buckets[p] = << >>
    BY <1>1, <1>4 DEF Buckets
  <1>6. s.top # Count => s.top \in Buckets /\ q.buckets[s.top] # << >>
    BY <1>1, <1>2, <1>3 DEF Buckets
  <1>7. Ordered(s)
    BY <1>3, <1>4 DEF Ordered
  <1>8. QED
    BY <1>3, <1>4, <1>5, <1>6, <1>7

\* A second seek stays where the first one stopped.
LEMMA SeekTwice ==
  ASSUME NEW q, Ordered(q)
  PROVE  LET s == flb_bucket_queue_seek(q)
         IN  flb_bucket_queue_seek(s).top = s.top
  <1> DEFINE s == flb_bucket_queue_seek(q)
             t == flb_bucket_queue_seek(s)
  <1>1. /\ Ordered(s) /\ s.buckets = q.buckets
        /\ s.top # Count => s.top \in Buckets /\ q.buckets[s.top] # << >>
    BY SeekProperties
  <1>2. s \in Queue /\ s.top \in 0 .. Count /\ Count \in Nat
    BY <1>1, BucketAssumption DEF Ordered, Queue
  <1>3. t.top = SeekTo(s) /\ SeekTo(s) \in s.top .. Count
        /\ \A j \in s.top .. SeekTo(s) - 1 : s.buckets[j] = << >>
    BY <1>2, SeekToProperties DEF flb_bucket_queue_seek, Queue
  <1>4. QED
    BY <1>1, <1>2, <1>3

\* An added item is the last of its bucket, and top does not pass it.
LEMMA AddProperties ==
  ASSUME NEW q, Ordered(q), NEW item \in Items, NEW priority \in Buckets
  PROVE  LET a == flb_bucket_queue_add(q, item, priority)
         IN  /\ Ordered(a)
             /\ a.buckets = [q.buckets EXCEPT ![priority] = Append(@, item)]
  <1> DEFINE s == flb_bucket_queue_seek(q)
             a == flb_bucket_queue_add(q, item, priority)
             b == [q.buckets EXCEPT ![priority] = Append(@, item)]
             top == IF priority < s.top THEN priority ELSE s.top
  <1>1. Ordered(s) /\ s.buckets = q.buckets
    BY SeekProperties
  <1>2. /\ s \in Queue /\ s.top \in 0 .. Count /\ Count \in Nat /\ priority \in 0 .. Count - 1
        /\ s.buckets \in [Buckets -> Seq(Items)] /\ s.n_items \in Int
    BY <1>1, BucketAssumption DEF Ordered, Queue, Buckets
  <1>3. a = [s EXCEPT !.buckets[priority] = Append(@, item), !.top = top, !.n_items = @ + 1]
    BY DEF flb_bucket_queue_add
  <1>4. a.buckets = b /\ a.top = top /\ a.n_items = s.n_items + 1
        /\ a = [buckets |-> b, top |-> top, n_items |-> s.n_items + 1]
    BY <1>1, <1>2, <1>3 DEF Queue
  <1>5. b \in [Buckets -> Seq(Items)]
    <2>1. Append(q.buckets[priority], item) \in Seq(Items)
      BY <1>1, <1>2, AppendProperties
    <2>2. QED
      BY <1>1, <1>2, <2>1
  <1>6. top \in 0 .. Count /\ s.n_items + 1 \in Int
    BY <1>2
  <1>7. a \in Queue
    BY <1>4, <1>5, <1>6 DEF Queue
  <1>8. ASSUME NEW p \in Buckets, p < top PROVE b[p] = << >>
    <2>1. p # priority /\ p < s.top
      BY <1>2, <1>8 DEF Buckets
    <2>2. QED
      BY <2>1, <1>1, <1>2 DEF Ordered
  <1>9. QED
    BY <1>4, <1>7, <1>8 DEF Ordered

\* delete_min takes the first item of the bucket that seek stops at.
LEMMA DeleteProperties ==
  ASSUME NEW q, Ordered(q)
  PROVE  LET s == flb_bucket_queue_seek(q)
             d == flb_bucket_queue_delete_min(q)
         IN  /\ Ordered(d)
             /\ s.top = Count => d.buckets = q.buckets
             /\ s.top # Count => d.buckets = [q.buckets EXCEPT ![s.top] = Tail(@)]
  <1> DEFINE s == flb_bucket_queue_seek(q)
             d == flb_bucket_queue_delete_min(q)
             m == [s EXCEPT !.buckets[s.top] = Tail(@)]
  <1>1. /\ Ordered(s) /\ s.buckets = q.buckets
        /\ s.top # Count => s.top \in Buckets /\ q.buckets[s.top] # << >>
    BY SeekProperties
  <1>2. /\ s \in Queue /\ s.top \in 0 .. Count /\ Count \in Nat
        /\ s.buckets \in [Buckets -> Seq(Items)] /\ s.n_items \in Int
    BY <1>1, BucketAssumption DEF Ordered, Queue
  <1>3. CASE s.top = Count
    <2>1. d = s
      BY <1>3 DEF flb_bucket_queue_delete_min, flb_bucket_queue_is_empty
    <2>2. QED
      BY <1>1, <1>3, <2>1
  <1>4. CASE s.top # Count
    <2>1. s.top \in Buckets /\ s.buckets[s.top] \in Seq(Items) /\ s.buckets[s.top] # << >>
      BY <1>1, <1>2, <1>4
    <2>2. Tail(s.buckets[s.top]) \in Seq(Items)
      BY <2>1, HeadTailProperties
    <2>3. /\ m \in Queue /\ m.top = s.top /\ m.n_items = s.n_items
          /\ m.buckets = [q.buckets EXCEPT ![s.top] = Tail(@)]
      BY <1>1, <1>2, <2>1, <2>2 DEF Queue
    <2>4. ASSUME NEW p \in Buckets, p < m.top PROVE m.buckets[p] = << >>
      <3>1. p # s.top /\ p < s.top
        BY <1>2, <2>3, <2>4 DEF Buckets
      <3>2. QED
        BY <3>1, <1>1, <1>2, <2>3 DEF Ordered
    <2>5. Ordered(m)
      BY <2>3, <2>4 DEF Ordered
    <2>6. Ordered(flb_bucket_queue_seek(m)) /\ flb_bucket_queue_seek(m).buckets = m.buckets
      BY <2>5, SeekProperties
    <2>7. d = [flb_bucket_queue_seek(m) EXCEPT !.n_items = @ - 1]
      BY <1>4 DEF flb_bucket_queue_delete_min, flb_bucket_queue_is_empty
    <2>8. d \in Queue /\ d.buckets = m.buckets /\ d.top = flb_bucket_queue_seek(m).top
      <3>1. ASSUME NEW t \in Queue
            PROVE  LET e == [t EXCEPT !.n_items = @ - 1]
                   IN  e \in Queue /\ e.buckets = t.buckets /\ e.top = t.top
        BY DEF Queue
      <3>2. flb_bucket_queue_seek(m) \in Queue
        BY <2>6 DEF Ordered
      <3> HIDE DEF d, m
      <3>3. QED
        BY <2>6, <2>7, <3>1, <3>2
    <2>9. Ordered(d)
      BY <2>6, <2>8 DEF Ordered
    <2>10. QED
      BY <1>4, <2>3, <2>8, <2>9
  <1>5. QED
    BY <1>3, <1>4

\* An unlinked item leaves its own bucket; top stays where it was.
LEMMA UnlinkProperties ==
  ASSUME NEW q, Ordered(q), NEW item, item \in In(q)
  PROVE  /\ Ordered(Unlink(q, item))
         /\ \E p \in Buckets : \E i \in 1 .. Len(q.buckets[p]) :
              /\ q.buckets[p][i] = item
              /\ Unlink(q, item).buckets = [q.buckets EXCEPT ![p] = RemoveAt(@, i)]
  <1> DEFINE p == CHOOSE b \in Buckets : item \in ToSet(q.buckets[b])
             i == CHOOSE k \in 1 .. Len(q.buckets[p]) : q.buckets[p][k] = item
             u == Unlink(q, item)
  <1>1. /\ q \in Queue /\ q.top \in 0 .. Count /\ Count \in Nat
        /\ q.buckets \in [Buckets -> Seq(Items)] /\ q.n_items \in Int
    BY BucketAssumption DEF Ordered, Queue
  <1>2. p \in Buckets /\ item \in ToSet(q.buckets[p])
    BY DEF In
  <1>3. \E k \in 1 .. Len(q.buckets[p]) : q.buckets[p][k] = item
    <2>1. q.buckets[p] \in Seq(Items)
      BY <1>1, <1>2
    <2>2. DOMAIN q.buckets[p] = 1 .. Len(q.buckets[p])
      BY <2>1, LenProperties
    <2>3. QED
      BY <1>2, <2>2 DEF ToSet
  <1>4. i \in 1 .. Len(q.buckets[p]) /\ q.buckets[p][i] = item
    BY <1>3
  <1> HIDE DEF i, p
  <1>5. q.buckets[p] \in Seq(Items) /\ RemoveAt(q.buckets[p], i) \in Seq(Items)
    BY <1>1, <1>2, <1>4, RemoveAtType
  <1>6. u = [q EXCEPT !.buckets[p] = RemoveAt(@, i)]
    BY DEF Unlink, p, i
  <1>7. u \in Queue /\ u.top = q.top /\ u.buckets = [q.buckets EXCEPT ![p] = RemoveAt(@, i)]
    BY <1>1, <1>2, <1>5, <1>6 DEF Queue
  <1>8. q.buckets[p] # << >>
    BY <1>4, <1>5, EmptySeq
  <1>9. ASSUME NEW c \in Buckets, c < u.top PROVE u.buckets[c] = << >>
    <2>1. q.buckets[c] = << >>
      BY <1>7, <1>9 DEF Ordered
    <2>2. QED
      BY <2>1, <1>1, <1>7, <1>8
  <1>10. QED
    BY <1>2, <1>4, <1>7, <1>9 DEF Ordered

-----------------------------------------------------------------------------
(* The invariant. *)

\* The queue and the last answer are well formed, and top is at or before every item.
BqInv == /\ taken \in Items \cup {NULL}
         /\ bq = NULL \/ (bq # NULL /\ Ordered(bq))

\* A new queue is in order, and a queue is never the null pointer.
LEMMA OrderedFacts ==
  /\ Ordered(NewQueue)
  /\ \A q : Ordered(q) => q # NULL
  <1>1. NewQueue \in Queue
    <2>1. << >> \in Seq(Items)
      BY EmptySeq
    <2>2. [p \in Buckets |-> << >>] \in [Buckets -> Seq(Items)]
      BY <2>1
    <2>3. Count \in 0 .. Count /\ 0 \in Int
      BY BucketAssumption
    <2>4. QED
      BY <2>2, <2>3 DEF NewQueue, Queue
  <1>2. Ordered(NewQueue)
    BY <1>1 DEF Ordered, NewQueue
  <1>3. QED
    BY <1>2, NullAssumption DEF Ordered

\* The item at the head of the bucket seek stops at, or no item: what find_min answers.
LEMMA FindMinAnswer ==
  ASSUME NEW q, Ordered(q)
  PROVE  LET s == flb_bucket_queue_seek(q)
         IN  /\ s.top = Count => flb_bucket_queue_find_min(q) = NULL
             /\ s.top # Count => /\ flb_bucket_queue_find_min(q) = Head(q.buckets[s.top])
                                 /\ flb_bucket_queue_find_min(q) \in Items
  <1> DEFINE s == flb_bucket_queue_seek(q)
  <1>1. /\ s.buckets = q.buckets
        /\ s.top # Count => s.top \in Buckets /\ q.buckets[s.top] # << >>
    BY SeekProperties
  <1>2. /\ s.top = Count => flb_bucket_queue_find_min(q) = NULL
        /\ s.top # Count => flb_bucket_queue_find_min(q) = Head(q.buckets[s.top])
    BY <1>1 DEF flb_bucket_queue_find_min, flb_bucket_queue_is_empty
  <1>3. ASSUME s.top # Count PROVE Head(q.buckets[s.top]) \in Items
    <2>1. q.buckets[s.top] \in Seq(Items) /\ q.buckets[s.top] # << >>
      BY <1>1, <1>3 DEF Ordered, Queue
    <2>2. QED
      BY <2>1, HeadTailProperties
  <1>4. QED
    BY <1>2, <1>3

\* Every operation keeps the order and is a step of the priority queue, or none of its.
LEMMA StepRefines ==
  ASSUME BqInv, [BqNext]_bqVars
  PROVE  BqInv' /\ [PQ!PqNext]_(PQ!pqVars)
  <1>1. CASE UNCHANGED bqVars
    BY <1>1 DEF BqInv, bqVars, PQ!pqVars
  <1>2. ASSUME NEW failed \in BOOLEAN, Create(failed)
        PROVE  BqInv' /\ [PQ!PqNext]_(PQ!pqVars)
    <2>1. bq = NULL /\ taken' = taken /\ bq' = IF failed THEN NULL ELSE NewQueue
      BY <1>2 DEF Create
    <2>2. NewQueue # NULL /\ NewQueue.buckets = [p \in Buckets |-> << >>]
      BY OrderedFacts DEF NewQueue
    <2>3. BqInv'
      BY <2>1, <2>2, OrderedFacts DEF BqInv
    <2>4. QED
      BY <2>1, <2>2, <2>3 DEF PQ!pqVars
  <1>3. ASSUME NEW item \in Items, NEW priority \in -1 .. Count, AddItem(item, priority)
        PROVE  BqInv' /\ [PQ!PqNext]_(PQ!pqVars)
    <2>1. /\ bq # NULL /\ Ordered(bq) /\ item \notin In(bq) /\ taken' = taken
          /\ bq' = flb_bucket_queue_add(bq, item, priority)
      BY <1>3 DEF AddItem, BqInv
    <2>2. CASE priority \notin Buckets
      <3>1. bq' = bq
        BY <2>1, <2>2 DEF flb_bucket_queue_add
      <3>2. QED
        BY <2>1, <3>1 DEF BqInv, PQ!pqVars
    <2>3. CASE priority \in Buckets
      <3>1. Ordered(bq') /\ bq' # NULL
            /\ bq'.buckets = [bq.buckets EXCEPT ![priority] = Append(@, item)]
        BY <2>1, <2>3, AddProperties, OrderedFacts
      <3>2. item \notin PQ!Queued
        BY <2>1 DEF PQ!Queued, PQ!ToSet, In, ToSet
      <3>3. PQ!Put
        BY <2>1, <2>3, <3>1, <3>2 DEF PQ!Put
      <3>4. QED
        BY <2>1, <3>1, <3>3 DEF PQ!PqNext, BqInv
    <2>4. QED
      BY <2>2, <2>3
  <1>4. CASE FindMin
    <2> DEFINE s == flb_bucket_queue_seek(bq)
    <2>1. /\ bq # NULL /\ Ordered(bq)
          /\ bq' = s /\ taken' = flb_bucket_queue_find_min(bq)
      BY <1>4 DEF FindMin, BqInv
    <2>2. /\ Ordered(s) /\ s.buckets = bq.buckets
          /\ s.top = Count => \A p \in Buckets : bq.buckets[p] = << >>
          /\ s.top # Count => s.top \in Buckets /\ bq.buckets[s.top] # << >>
          /\ \A p \in Buckets : p < s.top => bq.buckets[p] = << >>
      BY <2>1, SeekProperties
    <2>3. /\ s.top = Count => taken' = NULL
          /\ s.top # Count => taken' = Head(bq.buckets[s.top]) /\ taken' \in Items
      BY <2>1, FindMinAnswer
    <2>4. BqInv' /\ bq' # NULL /\ bq'.buckets = bq.buckets
      BY <2>1, <2>2, <2>3, OrderedFacts DEF BqInv
    <2> HIDE DEF s
    <2>5. CASE s.top = Count
      BY <2>1, <2>2, <2>3, <2>4, <2>5 DEF PQ!PqNext, PQ!Nothing
    <2>6. CASE s.top # Count
      <3>1. PQ!Best(s.top)
        BY <2>1, <2>2, <2>6 DEF PQ!Best
      <3>2. PQ!Peek
        BY <2>1, <2>2, <2>3, <2>4, <2>6, <3>1 DEF PQ!Peek
      <3>3. QED
        BY <2>4, <3>2 DEF PQ!PqNext
    <2>7. QED
      BY <2>5, <2>6
  <1>5. CASE DeleteMin
    <2> DEFINE s == flb_bucket_queue_seek(bq)
    <2>1. bq # NULL /\ Ordered(bq) /\ taken' = taken /\ bq' = flb_bucket_queue_delete_min(bq)
      BY <1>5 DEF DeleteMin, BqInv
    <2>2. /\ s.top # Count => s.top \in Buckets /\ bq.buckets[s.top] # << >>
          /\ \A p \in Buckets : p < s.top => bq.buckets[p] = << >>
      BY <2>1, SeekProperties
    <2>3. /\ Ordered(bq')
          /\ s.top = Count => bq'.buckets = bq.buckets
          /\ s.top # Count => bq'.buckets = [bq.buckets EXCEPT ![s.top] = Tail(@)]
      BY <2>1, DeleteProperties
    <2>4. BqInv' /\ bq' # NULL
      BY <2>1, <2>3, OrderedFacts DEF BqInv
    <2> HIDE DEF s
    <2>5. CASE s.top = Count
      BY <2>1, <2>3, <2>4, <2>5 DEF PQ!pqVars
    <2>6. CASE s.top # Count
      <3>1. PQ!Best(s.top)
        BY <2>1, <2>2, <2>6 DEF PQ!Best
      <3>2. PQ!Drop
        BY <2>1, <2>2, <2>3, <2>4, <2>6, <3>1 DEF PQ!Drop
      <3>3. QED
        BY <2>4, <3>2 DEF PQ!PqNext
    <2>7. QED
      BY <2>5, <2>6
  <1>6. CASE PopMin
    <2> DEFINE s == flb_bucket_queue_seek(bq)
               t == flb_bucket_queue_seek(s)
    <2>1. /\ bq # NULL /\ Ordered(bq) /\ taken' = flb_bucket_queue_find_min(bq)
          /\ bq' = flb_bucket_queue_delete_min(s)
      BY <1>6 DEF PopMin, BqInv
    <2>2. /\ Ordered(s) /\ s.buckets = bq.buckets
          /\ s.top = Count => \A p \in Buckets : bq.buckets[p] = << >>
          /\ s.top # Count => s.top \in Buckets /\ bq.buckets[s.top] # << >>
          /\ \A p \in Buckets : p < s.top => bq.buckets[p] = << >>
      BY <2>1, SeekProperties
    <2>3. /\ s.top = Count => taken' = NULL
          /\ s.top # Count => taken' = Head(bq.buckets[s.top]) /\ taken' \in Items
      BY <2>1, FindMinAnswer
    <2>4. t.top = s.top
      BY <2>1, SeekTwice
    <2>5. /\ Ordered(bq')
          /\ t.top = Count => bq'.buckets = s.buckets
          /\ t.top # Count => bq'.buckets = [s.buckets EXCEPT ![t.top] = Tail(@)]
      BY <2>1, <2>2, DeleteProperties
    <2> HIDE DEF s, t
    <2>6. BqInv' /\ bq' # NULL
      BY <2>3, <2>5, OrderedFacts DEF BqInv
    <2>7. CASE s.top = Count
      BY <2>1, <2>2, <2>3, <2>4, <2>5, <2>6, <2>7 DEF PQ!PqNext, PQ!Nothing
    <2>8. CASE s.top # Count
      <3>1. PQ!Best(s.top)
        BY <2>1, <2>2, <2>8 DEF PQ!Best
      <3>2. bq'.buckets = [bq.buckets EXCEPT ![s.top] = Tail(@)]
        BY <2>2, <2>4, <2>5, <2>8
      <3>3. PQ!Take
        BY <2>1, <2>2, <2>3, <2>6, <2>8, <3>1, <3>2 DEF PQ!Take
      <3>4. QED
        BY <2>6, <3>3 DEF PQ!PqNext
    <2>9. QED
      BY <2>7, <2>8
  <1>7. CASE Destroy
    <2> DEFINE s == flb_bucket_queue_seek(bq)
    <2>1. /\ bq # NULL /\ Ordered(bq) /\ taken' = taken
          /\ bq' = IF s.top = Count THEN NULL ELSE s
      BY <1>7 DEF Destroy, BqInv, flb_bucket_queue_is_empty
    <2>2. /\ Ordered(s) /\ s.buckets = bq.buckets /\ s # NULL
          /\ s.top = Count => \A p \in Buckets : bq.buckets[p] = << >>
      BY <2>1, SeekProperties, OrderedFacts
    <2>3. BqInv'
      BY <2>1, <2>2 DEF BqInv
    <2> HIDE DEF s
    <2>4. CASE s.top = Count
      <3>1. bq.buckets = [p \in Buckets |-> << >>]
        BY <2>1, <2>2, <2>4 DEF Ordered, Queue
      <3>2. QED
        BY <2>1, <2>3, <2>4, <3>1 DEF PQ!pqVars
    <2>5. CASE s.top # Count
      BY <2>1, <2>2, <2>3, <2>5 DEF PQ!pqVars
    <2>6. QED
      BY <2>4, <2>5
  <1>8. ASSUME NEW item \in Items, DirectDel(item)
        PROVE  BqInv' /\ [PQ!PqNext]_(PQ!pqVars)
    <2>1. bq # NULL /\ Ordered(bq) /\ item \in In(bq) /\ taken' = taken /\ bq' = Unlink(bq, item)
      BY <1>8 DEF DirectDel, BqInv
    <2>2. /\ Ordered(bq') /\ bq' # NULL
          /\ \E p \in Buckets : \E i \in 1 .. Len(bq.buckets[p]) :
               bq'.buckets = [bq.buckets EXCEPT ![p] = RemoveAt(@, i)]
      BY <2>1, UnlinkProperties, OrderedFacts
    <2>3. PQ!Withdraw
      BY <2>1, <2>2 DEF PQ!Withdraw, PQ!RemoveAt, RemoveAt
    <2>4. QED
      BY <2>1, <2>2, <2>3 DEF PQ!PqNext, BqInv
  <1>9. QED
    BY <1>1, <1>2, <1>3, <1>4, <1>5, <1>6, <1>7, <1>8 DEF BqNext

\* The invariant holds when no queue is allocated yet.
LEMMA BqInitially == ASSUME BqInit PROVE BqInv /\ PQ!PqInit
  BY DEF BqInit, BqInv, PQ!PqInit

-----------------------------------------------------------------------------
\* The queue is always well formed, whatever is added, taken or unlinked.
THEOREM BucketQueueTyped == BqSpec => []BqTypeOK
  <1>1. BqInv => BqTypeOK
    BY DEF BqInv, BqTypeOK, Ordered
  <1>2. QED
    BY <1>1, BqInitially, StepRefines, PTL DEF BqSpec

\* No item ever waits below top (flb_bucket_queue.h:73-95), for any number of buckets
\* and items and any sequence of calls.
THEOREM NothingBelowTop == BqSpec => []TopBelowItems
  <1>1. BqInv => TopBelowItems
    BY DEF BqInv, TopBelowItems, Ordered
  <1>2. QED
    BY <1>1, BqInitially, StepRefines, PTL DEF BqSpec

\* The bucket queue implements the priority queue: the answer of find_min and pop_min is
\* always the item that waited longest with the best priority (flb_bucket_queue.h:80-124).
THEOREM BucketQueueIsPriorityQueue == BqSpec => ImplementsPriorityQueue
  BY BqInitially, StepRefines, PTL DEF BqSpec, ImplementsPriorityQueue, PQ!PqSpec

-----------------------------------------------------------------------------
(* The queue as the loop keeps it. *)

\* No entry occurs twice in a list.
Distinct(s) == \A i, j \in 1 .. Len(s) : s[i] = s[j] => i = j

\* Every event waits in the bucket of its priority, once.
Placed(q) == /\ Ordered(q)
             /\ \A p \in Buckets : /\ Distinct(q.buckets[p])
                                   /\ \A i \in 1 .. Len(q.buckets[p]) :
                                        Priority(q.buckets[p][i]) = p


\* The priorities are naturals: one that names no bucket is past the last.
LEMMA PriorityFacts ==
  ASSUME NEW e \in Items
  PROVE  /\ Priority(e) \in Nat
         /\ Priority(e) \in Buckets <=> ~ (Priority(e) >= Count)
  <1>1. Kind[e] \in {"sched", "network", "flush", "thread", "none"}
    BY LoopAssumption
  <1>2. Priority(e) \in {0, 1, 2, 6, 8}
    BY <1>1 DEF Priority
  <1>3. QED
    BY <1>2, BucketAssumption DEF Buckets

\* The elements of a list are what its positions hold.
LEMMA ElementsAt ==
  ASSUME NEW S, NEW s \in Seq(S), NEW e
  PROVE  e \in ToSet(s) <=> \E i \in 1 .. Len(s) : s[i] = e
  BY LenProperties DEF ToSet

\* An event is in the queue when some bucket holds it.
LEMMA InBucket ==
  ASSUME NEW q, NEW e
  PROVE  e \in In(q) <=> \E p \in Buckets : e \in ToSet(q.buckets[p])
  BY DEF In

\* A bucket holds events of its own priority, so an event is in one bucket at most.
LEMMA PlacedFacts ==
  ASSUME NEW q, Placed(q)
  PROVE  /\ q.buckets \in [Buckets -> Seq(Items)]
         /\ \A p \in Buckets : \A e \in ToSet(q.buckets[p]) : e \in Items /\ Priority(e) = p
         /\ \A e \in In(q) : /\ e \in Items /\ Priority(e) \in Buckets
                             /\ e \in ToSet(q.buckets[Priority(e)])
  <1>1. q.buckets \in [Buckets -> Seq(Items)]
    BY DEF Placed, Ordered, Queue
  <1>2. ASSUME NEW p \in Buckets, NEW e \in ToSet(q.buckets[p])
        PROVE  e \in Items /\ Priority(e) = p
    <2>1. q.buckets[p] \in Seq(Items)
      BY <1>1
    <2>2. PICK i \in 1 .. Len(q.buckets[p]) : q.buckets[p][i] = e
      BY <2>1, ElementsAt
    <2>3. QED
      BY <2>1, <2>2, ElementOfSeq DEF Placed
  <1>3. ASSUME NEW e \in In(q)
        PROVE  e \in Items /\ Priority(e) \in Buckets /\ e \in ToSet(q.buckets[Priority(e)])
    <2>1. PICK p \in Buckets : e \in ToSet(q.buckets[p])
      BY InBucket
    <2>2. QED
      BY <2>1, <1>2
  <1>4. QED
    BY <1>1, <1>2, <1>3

\* A bucket that gets another list of its own events leaves the queue in place.
LEMMA RefillBucket ==
  ASSUME NEW q, Placed(q), NEW r, Ordered(r), NEW p \in Buckets, NEW t \in Seq(Items),
         r.buckets = [q.buckets EXCEPT ![p] = t],
         Distinct(t), \A e \in ToSet(t) : Priority(e) = p
  PROVE  /\ Placed(r)
         /\ \A e : e \in In(r) <=> \/ e \in ToSet(t)
                                   \/ e \in In(q) /\ Priority(e) # p
  <1>1. q.buckets \in [Buckets -> Seq(Items)]
    BY PlacedFacts
  <1>2. r.buckets[p] = t /\ \A b \in Buckets : b # p => r.buckets[b] = q.buckets[b]
    BY <1>1
  <1>3. ASSUME NEW b \in Buckets
        PROVE  /\ Distinct(r.buckets[b])
               /\ \A i \in 1 .. Len(r.buckets[b]) : Priority(r.buckets[b][i]) = b
    <2>1. CASE b = p
      <3>1. \A i \in 1 .. Len(t) : t[i] \in ToSet(t)
        BY ElementsAt
      <3>2. QED
        BY <1>2, <2>1, <3>1
    <2>2. CASE b # p
      BY <1>2, <2>2 DEF Placed
    <2>3. QED
      BY <2>1, <2>2
  <1>4. Placed(r)
    BY <1>3 DEF Placed
  <1>5. ASSUME NEW e, e \in In(r)
        PROVE  e \in ToSet(t) \/ (e \in In(q) /\ Priority(e) # p)
    <2>1. PICK b \in Buckets : e \in ToSet(r.buckets[b])
      BY <1>5, InBucket
    <2>2. CASE b = p
      BY <1>2, <2>1, <2>2
    <2>3. CASE b # p
      <3>1. e \in ToSet(q.buckets[b])
        BY <1>2, <2>1, <2>3
      <3>2. Priority(e) = b
        BY <3>1, PlacedFacts
      <3>3. QED
        BY <3>1, <3>2, <2>3, InBucket
    <2>4. QED
      BY <2>2, <2>3
  <1>6. ASSUME NEW e, e \in ToSet(t) PROVE e \in In(r)
    BY <1>2, <1>6, InBucket
  <1>7. ASSUME NEW e, e \in In(q), Priority(e) # p PROVE e \in In(r)
    <2>1. Priority(e) \in Buckets /\ e \in ToSet(q.buckets[Priority(e)])
      BY <1>7, PlacedFacts
    <2>2. r.buckets[Priority(e)] = q.buckets[Priority(e)]
      BY <1>2, <1>7, <2>1
    <2>3. QED
      BY <2>1, <2>2, InBucket
  <1>8. QED
    BY <1>4, <1>5, <1>6, <1>7

\* A list without one of its entries.
Without(t, s, i) == /\ Len(t) = Len(s) - 1
                    /\ \A k \in 1 .. Len(s) - 1 : t[k] = IF k < i THEN s[k] ELSE s[k + 1]

\* What is left of a list of distinct entries is distinct, and all but the one taken out.
LEMMA WithoutFacts ==
  ASSUME NEW s \in Seq(Items), Distinct(s), NEW i \in 1 .. Len(s),
         NEW t \in Seq(Items), Without(t, s, i)
  PROVE  Distinct(t) /\ \A e : e \in ToSet(t) <=> e \in ToSet(s) /\ e # s[i]
  <1>1. Len(s) \in Nat /\ Len(t) = Len(s) - 1
    BY LenProperties DEF Without
  <1>2. ASSUME NEW k \in 1 .. Len(t)
        PROVE  LET n == IF k < i THEN k ELSE k + 1
               IN  n \in 1 .. Len(s) /\ n # i /\ t[k] = s[n]
    BY <1>1 DEF Without
  <1>3. ASSUME NEW j \in 1 .. Len(t), NEW k \in 1 .. Len(t), t[j] = t[k] PROVE j = k
    <2> DEFINE m == IF j < i THEN j ELSE j + 1
               n == IF k < i THEN k ELSE k + 1
    <2>1. m \in 1 .. Len(s) /\ n \in 1 .. Len(s) /\ s[m] = s[n]
      BY <1>2, <1>3
    <2>2. m = n
      BY <2>1 DEF Distinct
    <2>3. QED
      BY <1>1, <2>2
  <1>4. ASSUME NEW e, e \in ToSet(t) PROVE e \in ToSet(s) /\ e # s[i]
    <2>1. PICK k \in 1 .. Len(t) : t[k] = e
      BY <1>4, ElementsAt
    <2> DEFINE n == IF k < i THEN k ELSE k + 1
    <2>2. n \in 1 .. Len(s) /\ n # i /\ s[n] = e
      BY <1>2, <2>1
    <2> HIDE DEF n
    <2>3. QED
      BY <2>2, ElementsAt DEF Distinct
  <1>5. ASSUME NEW e, e \in ToSet(s), e # s[i] PROVE e \in ToSet(t)
    <2>1. PICK n \in 1 .. Len(s) : s[n] = e
      BY <1>5, ElementsAt
    <2>2. n # i
      BY <2>1, <1>5
    <2>3. PICK k \in 1 .. Len(t) : n = IF k < i THEN k ELSE k + 1
      <3>1. CASE n < i
        <4>1. n \in 1 .. Len(t) /\ n < i
          BY <1>1, <3>1
        <4>2. QED
          BY <4>1
      <3>2. CASE n > i
        <4>1. n - 1 \in 1 .. Len(t) /\ ~ (n - 1 < i) /\ n = (n - 1) + 1
          BY <1>1, <3>2
        <4>2. QED
          BY <4>1
      <3>3. QED
        BY <1>1, <2>2, <3>1, <3>2
    <2>4. t[k] = e
      BY <1>2, <2>1, <2>3
    <2>5. QED
      BY <2>4, ElementsAt
  <1>6. QED
    BY <1>3, <1>4, <1>5 DEF Distinct

\* An event taken out of its bucket leaves the others where they are.
LEMMA TakenOut ==
  ASSUME NEW q, Placed(q), NEW r, Ordered(r), NEW p \in Buckets, NEW i \in 1 .. Len(q.buckets[p]),
         NEW t \in Seq(Items), Without(t, q.buckets[p], i),
         r.buckets = [q.buckets EXCEPT ![p] = t]
  PROVE  /\ Placed(r) /\ q.buckets[p][i] \in In(q)
         /\ \A e : e \in In(r) <=> e \in In(q) /\ e # q.buckets[p][i]
  <1> DEFINE s == q.buckets[p]
  <1>1. s \in Seq(Items) /\ Distinct(s)
    BY PlacedFacts DEF Placed
  <1>2. \A e \in ToSet(s) : Priority(e) = p
    BY PlacedFacts
  <1>3. Distinct(t) /\ \A e : e \in ToSet(t) <=> e \in ToSet(s) /\ e # s[i]
    BY <1>1, WithoutFacts
  <1>4. s[i] \in ToSet(s)
    BY <1>1, ElementsAt
  <1>5. /\ Placed(r)
        /\ \A e : e \in In(r) <=> (e \in ToSet(t) \/ (e \in In(q) /\ Priority(e) # p))
    BY <1>2, <1>3, RefillBucket
  <1>6. \A e : e \in ToSet(s) => e \in In(q)
    BY InBucket
  <1>7. \A e : e \in In(q) /\ Priority(e) = p => e \in ToSet(s)
    BY PlacedFacts
  <1> HIDE DEF s
  <1>8. \A e : e \in In(r) <=> e \in In(q) /\ e # s[i]
    BY <1>2, <1>3, <1>4, <1>5, <1>6, <1>7
  <1>9. QED
    BY <1>4, <1>5, <1>6, <1>8 DEF s

\* flb_event_load_bucket_queue_event puts an event behind those of its priority, unless it
\* waits already or no bucket takes it.
Loads(q, e, r) == /\ Placed(r)
                  /\ In(q) \subseteq In(r) /\ In(r) \subseteq In(q) \cup {e}
                  /\ e \in In(r) \/ Priority(e) >= Count

LEMMA LoadFacts ==
  ASSUME NEW q, Placed(q), NEW e \in Items
  PROVE  Loads(q, e, flb_event_load_bucket_queue_event(q, e))
  <1> DEFINE r == flb_event_load_bucket_queue_event(q, e)
             p == Priority(e)
  <1>1. CASE e \in In(q)
    BY <1>1 DEF Loads, flb_event_load_bucket_queue_event
  <1>2. CASE e \notin In(q) /\ p \notin Buckets
    <2>1. r = q
      BY <1>2 DEF flb_event_load_bucket_queue_event, flb_bucket_queue_add
    <2>2. QED
      BY <1>2, <2>1, PriorityFacts DEF Loads
  <1>3. CASE e \notin In(q) /\ p \in Buckets
    <2> DEFINE t == Append(q.buckets[p], e)
    <2>1. r = flb_bucket_queue_add(q, e, p)
      BY <1>3 DEF flb_event_load_bucket_queue_event
    <2>2. Ordered(r) /\ r.buckets = [q.buckets EXCEPT ![p] = t]
      BY <1>3, <2>1, AddProperties DEF Placed
    <2> HIDE DEF p, r
    <2>3. /\ q.buckets[p] \in Seq(Items) /\ Distinct(q.buckets[p])
          /\ \A x \in ToSet(q.buckets[p]) : Priority(x) = p /\ x # e
      <3>1. \A x \in ToSet(q.buckets[p]) : Priority(x) = p /\ x \in In(q)
        BY <1>3, PlacedFacts, InBucket
      <3>2. QED
        BY <1>3, <3>1, PlacedFacts DEF Placed
    <2>4. /\ t \in Seq(Items) /\ Len(q.buckets[p]) \in Nat
          /\ Len(t) = Len(q.buckets[p]) + 1
          /\ \A i \in 1 .. Len(q.buckets[p]) : t[i] = q.buckets[p][i]
          /\ t[Len(q.buckets[p]) + 1] = e
      BY <2>3, AppendProperties, LenProperties
    <2> HIDE DEF t
    <2>5. \A i \in 1 .. Len(q.buckets[p]) : q.buckets[p][i] # e
      BY <2>3, ElementsAt
    <2>6. Distinct(t)
      <3> DEFINE n == Len(q.buckets[p])
      <3>1. ASSUME NEW i \in 1 .. Len(t), NEW j \in 1 .. Len(t), t[i] = t[j] PROVE i = j
        <4>1. i \in 1 .. n \/ i = n + 1
          BY <2>4
        <4>2. j \in 1 .. n \/ j = n + 1
          BY <2>4
        <4> HIDE DEF n
        <4>3. CASE i = n + 1 /\ j \in 1 .. n
          BY <2>4, <2>5, <3>1, <4>3 DEF n
        <4>4. CASE j = n + 1 /\ i \in 1 .. n
          BY <2>4, <2>5, <3>1, <4>4 DEF n
        <4>5. CASE i \in 1 .. n /\ j \in 1 .. n
          BY <2>3, <2>4, <3>1, <4>5 DEF n, Distinct
        <4>6. QED
          BY <4>1, <4>2, <4>3, <4>4, <4>5
      <3>2. QED
        BY <3>1 DEF Distinct
    <2>7. ASSUME NEW x PROVE x \in ToSet(t) <=> x \in ToSet(q.buckets[p]) \/ x = e
      <3>1. x \in ToSet(t) <=> \E i \in 1 .. Len(t) : t[i] = x
        BY <2>4, ElementsAt
      <3>2. x \in ToSet(q.buckets[p]) <=> \E i \in 1 .. Len(q.buckets[p]) : q.buckets[p][i] = x
        BY <2>3, ElementsAt
      <3>3. ASSUME NEW i \in 1 .. Len(t), t[i] = x
            PROVE  x \in ToSet(q.buckets[p]) \/ x = e
        <4>1. i \in 1 .. Len(q.buckets[p]) \/ i = Len(q.buckets[p]) + 1
          BY <2>4
        <4>2. QED
          BY <4>1, <2>4, <3>2, <3>3
      <3>4. ASSUME NEW i \in 1 .. Len(q.buckets[p]), q.buckets[p][i] = x PROVE x \in ToSet(t)
        <4>1. i \in 1 .. Len(t)
          BY <2>4
        <4>2. QED
          BY <4>1, <2>4, <3>1, <3>4
      <3>5. ASSUME x = e PROVE x \in ToSet(t)
        <4>1. Len(q.buckets[p]) + 1 \in 1 .. Len(t)
          BY <2>4
        <4>2. QED
          BY <4>1, <2>4, <3>1, <3>5
      <3>6. QED
        BY <3>1, <3>2, <3>3, <3>4, <3>5
    <2>8. \A x \in ToSet(t) : Priority(x) = p
      BY <2>3, <2>7 DEF p
    <2>9. /\ Placed(r)
          /\ \A x : x \in In(r) <=> (x \in ToSet(t) \/ (x \in In(q) /\ Priority(x) # p))
      BY <1>3, <2>2, <2>4, <2>6, <2>8, RefillBucket
    <2>10. \A x : x \in ToSet(q.buckets[p]) => x \in In(q)
      BY <1>3, InBucket
    <2>11. \A x \in In(q) : Priority(x) = p => x \in ToSet(q.buckets[p])
      BY PlacedFacts
    <2>12. QED
      BY <2>7, <2>9, <2>10, <2>11 DEF Loads, r
  <1>4. QED
    BY <1>1, <1>2, <1>3

\* flb_bucket_queue_find_min and delete_min take an event no other is better than; they
\* find none when none waits.
Takes(q, m) ==
  /\ m = NULL => /\ Placed(flb_bucket_queue_seek(q)) /\ In(flb_bucket_queue_seek(q)) = In(q)
                 /\ In(q) = {}
  /\ m # NULL => /\ m \in In(q) /\ m \in Items /\ Priority(m) < Count
                 /\ \A e \in In(q) : Priority(m) <= Priority(e)
                 /\ Placed(flb_bucket_queue_delete_min(q))
                 /\ \A e : e \in In(flb_bucket_queue_delete_min(q)) <=> e \in In(q) /\ e # m

LEMMA TakeFacts ==
  ASSUME NEW q, Placed(q)
  PROVE  Takes(q, flb_bucket_queue_find_min(q))
  <1> DEFINE s == flb_bucket_queue_seek(q)
             d == flb_bucket_queue_delete_min(q)
             m == flb_bucket_queue_find_min(q)
  <1>1. /\ Ordered(s) /\ s.buckets = q.buckets
        /\ s.top = Count => \A p \in Buckets : q.buckets[p] = << >>
        /\ s.top # Count => s.top \in Buckets /\ q.buckets[s.top] # << >>
        /\ \A p \in Buckets : p < s.top => q.buckets[p] = << >>
    BY SeekProperties DEF Placed
  <1>2. /\ Ordered(d)
        /\ s.top # Count => d.buckets = [q.buckets EXCEPT ![s.top] = Tail(@)]
    BY DeleteProperties DEF Placed
  <1>3. /\ s.top = Count => m = NULL
        /\ s.top # Count => m = Head(q.buckets[s.top]) /\ m \in Items
    BY FindMinAnswer DEF Placed
  <1> HIDE DEF s, d, m
  <1>4. ToSet(<< >>) = {}
    BY DEF ToSet
  <1>5. Placed(s) /\ In(s) = In(q)
    BY <1>1 DEF Placed, In
  <1>6. CASE s.top = Count
    <2>1. m = NULL
      BY <1>3, <1>6
    <2>2. In(q) = {}
      BY <1>1, <1>4, <1>6, InBucket
    <2>3. QED
      BY <1>5, <2>1, <2>2 DEF Takes, s, m
  <1>7. CASE s.top # Count
    <2> DEFINE b == q.buckets[s.top]
    <2>1. s.top \in Buckets /\ b \in Seq(Items) /\ b # << >>
      BY <1>1, <1>7, PlacedFacts
    <2>2. /\ Tail(b) \in Seq(Items) /\ Len(Tail(b)) = Len(b) - 1 /\ Len(b) \in Nat \ {0}
          /\ \A k \in 1 .. Len(Tail(b)) : Tail(b)[k] = b[k + 1]
      BY <2>1, HeadTailProperties, EmptySeq
    <2>3. m = b[1] /\ m \in Items /\ m # NULL
      BY <1>3, <1>7, <2>1, BucketAssumption
    <2>4. Without(Tail(b), b, 1) /\ 1 \in 1 .. Len(b)
      BY <2>2 DEF Without
    <2>5. d.buckets = [q.buckets EXCEPT ![s.top] = Tail(b)]
      BY <1>2, <1>7
    <2>6. /\ Placed(d) /\ m \in In(q)
          /\ \A e : e \in In(d) <=> e \in In(q) /\ e # m
      <3> HIDE DEF b
      <3>1. Tail(b) \in Seq(Items) /\ 1 \in 1 .. Len(q.buckets[s.top])
            /\ Without(Tail(b), q.buckets[s.top], 1) /\ m = q.buckets[s.top][1]
        BY <2>2, <2>3, <2>4 DEF b
      <3>2. PICK p \in Buckets : p = s.top
        BY <2>1
      <3>3. PICK t \in Seq(Items) : t = Tail(b)
        BY <3>1
      <3>4. PICK i \in 1 .. Len(q.buckets[p]) : i = 1
        BY <3>1, <3>2
      <3>5. d.buckets = [q.buckets EXCEPT ![p] = t] /\ Without(t, q.buckets[p], i)
            /\ m = q.buckets[p][i]
        BY <2>5, <3>1, <3>2, <3>3, <3>4
      <3>6. QED
        BY <1>2, <3>5, TakenOut
    <2>7. Priority(m) = s.top
      BY <2>1, <2>3, <2>4 DEF Placed
    <2>8. ASSUME NEW e \in In(q) PROVE Priority(m) <= Priority(e)
      <3>1. Priority(e) \in Buckets /\ e \in ToSet(q.buckets[Priority(e)])
        BY PlacedFacts
      <3>2. ~ (Priority(e) < s.top)
        BY <1>1, <1>4, <3>1
      <3>3. QED
        BY <2>1, <2>7, <3>1, <3>2, BucketAssumption DEF Buckets
    <2>9. Priority(m) < Count
      BY <2>1, <2>7, BucketAssumption DEF Buckets
    <2>10. QED
      BY <2>3, <2>6, <2>8, <2>9 DEF Takes, d, m
  <1>8. QED
    BY <1>6, <1>7

\* mk_event_del takes a waiting event out of the queue.
Unlinks(q, e, r) == Placed(r) /\ \A x : x \in In(r) <=> x \in In(q) /\ x # e

LEMMA UnlinkFacts ==
  ASSUME NEW q, Placed(q), NEW e \in Items
  PROVE  Unlinks(q, e, IF e \in In(q) THEN Unlink(q, e) ELSE q)
  <1> DEFINE r == IF e \in In(q) THEN Unlink(q, e) ELSE q
  <1>1. CASE e \notin In(q)
    BY <1>1 DEF Unlinks
  <1>2. CASE e \in In(q)
    <2>1. r = Unlink(q, e)
      BY <1>2
    <2>2. Ordered(q)
      BY DEF Placed
    <2>3. Ordered(r)
      BY <1>2, <2>1, <2>2, UnlinkProperties
    <2>4. PICK p \in Buckets : \E i \in 1 .. Len(q.buckets[p]) :
            q.buckets[p][i] = e /\ r.buckets = [q.buckets EXCEPT ![p] = RemoveAt(@, i)]
      BY <1>2, <2>1, <2>2, UnlinkProperties
    <2>5. PICK i \in 1 .. Len(q.buckets[p]) :
            q.buckets[p][i] = e /\ r.buckets = [q.buckets EXCEPT ![p] = RemoveAt(@, i)]
      BY <2>4
    <2> DEFINE t == RemoveAt(q.buckets[p], i)
    <2>6. q.buckets[p] \in Seq(Items)
      BY PlacedFacts
    <2>7. t \in Seq(Items) /\ Without(t, q.buckets[p], i)
      BY <2>6, RemoveAtType DEF Without
    <2>8. r.buckets = [q.buckets EXCEPT ![p] = t]
      BY <2>5
    <2> HIDE DEF t, r
    <2>9. Placed(r) /\ \A x : x \in In(r) <=> x \in In(q) /\ x # q.buckets[p][i]
      BY <2>3, <2>7, <2>8, TakenOut
    <2>10. QED
      BY <2>5, <2>9 DEF Unlinks, r
  <1>3. QED
    BY <1>1, <1>2

-----------------------------------------------------------------------------
(* The invariant. *)

\* What the variables hold, and how far the loop over the reported events has come.
LoopTypes ==
  /\ Placed(bq)
  /\ status \in [Items -> {MK_EVENT_NONE, MK_EVENT_REGISTERED}]
  /\ evl \in Seq(Items)
  /\ nInitial \in 0 .. Len(evl) /\ loaded \in 0 .. nInitial
  /\ iterations \in Nat
  /\ MaxIter # -1 => /\ iterations <= MaxIter
                     /\ at \in {"body", "update"} => iterations < MaxIter
  /\ ready \in SUBSET Items /\ IsFiniteSet(ready) /\ injected \subseteq Items
  /\ at \in {"wait", "load", "body", "update"}
  /\ at \in {"wait", "load"} => nInitial = Len(evl)

\* A reported event is in the queue, or no bucket takes it.
Queued(e) == e \in In(bq) \/ Priority(e) >= Count

\* What waits in the queue is registered, but for an event that was injected and deleted
\* before it was loaded.
QueueRegistered == \A e \in In(bq) : status[e] = MK_EVENT_REGISTERED \/ e \in slipped

\* An injected event is forgotten when it is deleted.
InjectedRegistered == \A e \in injected : status[e] = MK_EVENT_REGISTERED

\* Until a handler runs, what is reported is readable.
ReportedReady == at \in {"wait", "load"} => \A i \in 1 .. Len(evl) : evl[i] \in ready

\* What is loaded of the report is in the queue, or was deleted before it was reported.
AtLoad == at = "load" =>
  \A i \in 1 .. loaded : Queued(evl[i]) \/ status[evl[i]] = MK_EVENT_NONE

\* While a handler runs and after it, the report is in the queue but for events that are
\* not injected any more; the events injected behind it are registered, or slipped.
AtHandler == at \in {"body", "update"} =>
  /\ \A i \in 1 .. nInitial : Queued(evl[i]) \/ evl[i] \notin injected
  /\ \A i \in nInitial + 1 .. Len(evl) :
       status[evl[i]] = MK_EVENT_REGISTERED \/ evl[i] \in slipped

LoopInv == /\ LoopTypes /\ QueueRegistered /\ InjectedRegistered
           /\ ReportedReady /\ AtLoad /\ AtHandler
-----------------------------------------------------------------------------
(* One lemma per group of actions. *)

\* The invariant holds when the engine starts.
LEMMA LoopInitially == ASSUME LoopInit PROVE LoopInv
  <1>1. Ordered(NewQueue) /\ NewQueue.buckets = [p \in Buckets |-> << >>]
    BY OrderedFacts DEF NewQueue
  <1>2. \A p \in Buckets : NewQueue.buckets[p] = << >>
    BY <1>1
  <1>3. Len(<< >>) = 0 /\ << >> \in Seq(Items)
    BY EmptySeq
  <1>4. Placed(NewQueue)
    BY <1>1, <1>2, <1>3 DEF Placed, Distinct
  <1>5. In(NewQueue) = {}
    <2>1. ToSet(<< >>) = {}
      BY DEF ToSet
    <2>2. QED
      BY <1>2, <2>1, InBucket
  <1>6. LoopTypes
    <2>1. IsFiniteSet({})
      BY FS_EmptySet
    <2>2. QED
      BY <1>3, <1>4, <2>1, LoopAssumption DEF LoopInit, EngineInit, LoopTypes
  <1>7. QED
    BY <1>3, <1>5, <1>6 DEF LoopInit, EngineInit, LoopInv, QueueRegistered, InjectedRegistered,
                            ReportedReady, AtLoad, AtHandler

\* What the backend reports has a readable descriptor.
LEMMA ReportFacts ==
  ASSUME LoopInv, NEW r \in Reports
  PROVE  /\ r \in Seq(Items) /\ Len(r) \in Nat
         /\ \A i \in 1 .. Len(r) : r[i] \in ready
  <1> DEFINE R == {e \in ready : status[e] = MK_EVENT_REGISTERED}
             k == IF Cardinality(R) < QueueSize THEN Cardinality(R) ELSE QueueSize
  <1>1. ready \subseteq Items /\ IsFiniteSet(ready)
    BY DEF LoopInv, LoopTypes
  <1>2. IsFiniteSet(R)
    BY <1>1, FS_Subset
  <1>3. k \in Nat
    BY <1>2, FS_CardinalityType, LoopAssumption
  <1>4. r \in UNION {[1 .. n -> ready] : n \in k .. QueueSize}
    BY DEF Reports
  <1> HIDE DEF R, k
  <1>5. PICK n \in k .. QueueSize : r \in [1 .. n -> ready]
    BY <1>4
  <1>6. n \in Nat
    BY <1>3, <1>5, LoopAssumption
  <1>7. r \in Seq(ready)
    BY <1>5, <1>6, SeqDef
  <1>8. r \in Seq(Items)
    BY <1>1, <1>7, SeqMonotonic
  <1>9. QED
    BY <1>7, <1>8, LenProperties, ElementOfSeq

\* A report replaces the one before, at the start of a round and after each handler.
LEMMA ReportStep ==
  ASSUME LoopInv, NEW r \in Reports, Report(r),
         UNCHANGED <<bq, status, ready, injected, slipped>>,
         iterations' \in Nat, MaxIter # -1 => iterations' <= MaxIter
  PROVE  LoopInv'
  <1>1. /\ r \in Seq(Items) /\ Len(r) \in Nat
        /\ \A i \in 1 .. Len(r) : r[i] \in ready
    BY ReportFacts
  <1>2. evl' = r /\ nInitial' = Len(r) /\ loaded' = 0 /\ at' = "load"
    BY DEF Report
  <1>3. LoopTypes'
    BY <1>1, <1>2 DEF LoopInv, LoopTypes
  <1>4. QueueRegistered' /\ InjectedRegistered'
    BY DEF LoopInv, QueueRegistered, InjectedRegistered
  <1>5. QED
    BY <1>1, <1>2, <1>3, <1>4 DEF LoopInv, ReportedReady, AtLoad, AtHandler

\* A descriptor becomes readable.
LEMMA ArriveStep == ASSUME LoopInv, NEW e \in Items, Arrive(e) PROVE LoopInv'
  <1>1. /\ ready' = ready \cup {e}
        /\ UNCHANGED <<bq, taken, status, evl, nInitial, loaded, iterations, at, injected,
                       slipped>>
    BY DEF Arrive
  <1>2. IsFiniteSet(ready') /\ ready' \subseteq Items
    BY <1>1, FS_AddElement DEF LoopInv, LoopTypes
  <1>3. LoopTypes'
    BY <1>1, <1>2 DEF LoopInv, LoopTypes
  <1>4. QED
    BY <1>1, <1>3 DEF LoopInv, QueueRegistered, InjectedRegistered, ReportedReady, AtLoad,
                      AtHandler, Queued

\* A reported event is loaded, unless it was deleted.
LEMMA LoadStep == ASSUME LoopInv, Load PROVE LoopInv'
  <1> DEFINE e == evl[loaded + 1]
  <1>1. /\ at = "load" /\ loaded < nInitial /\ loaded' = loaded + 1
        /\ UNCHANGED <<taken, status, evl, nInitial, iterations, at, ready, injected, slipped>>
    BY DEF Load
  <1>2. evl \in Seq(Items) /\ nInitial = Len(evl) /\ loaded \in 0 .. nInitial /\ Len(evl) \in Nat
    BY <1>1, LenProperties DEF LoopInv, LoopTypes
  <1>3. loaded + 1 \in 1 .. Len(evl) /\ e \in Items
    BY <1>1, <1>2, ElementOfSeq
  <1>4. status[e] \in {MK_EVENT_NONE, MK_EVENT_REGISTERED} /\ Placed(bq)
    BY <1>3 DEF LoopInv, LoopTypes
  <1>5. \/ status[e] = MK_EVENT_NONE /\ bq' = bq
        \/ status[e] = MK_EVENT_REGISTERED /\ Loads(bq, e, bq')
    <2>1. CASE status[e] = MK_EVENT_NONE
      BY <2>1 DEF Load
    <2>2. CASE status[e] = MK_EVENT_REGISTERED
      <3>1. bq' = flb_event_load_bucket_queue_event(bq, e)
        BY <2>2 DEF Load, MK_EVENT_NONE, MK_EVENT_REGISTERED
      <3>2. QED
        BY <1>3, <1>4, <2>2, <3>1, LoadFacts
    <2>3. QED
      BY <1>4, <2>1, <2>2
  <1> HIDE DEF e
  <1>6. /\ Placed(bq') /\ In(bq) \subseteq In(bq')
        /\ \A x \in In(bq') : x \in In(bq) \/ (x = e /\ status[e] = MK_EVENT_REGISTERED)
        /\ e \in In(bq') \/ Priority(e) >= Count \/ status[e] = MK_EVENT_NONE
    BY <1>4, <1>5 DEF Loads
  <1>7. LoopTypes'
    BY <1>1, <1>2, <1>6 DEF LoopInv, LoopTypes
  <1>8. QueueRegistered'
    BY <1>1, <1>6 DEF LoopInv, QueueRegistered
  <1>9. ASSUME NEW i \in 1 .. loaded' PROVE (Queued(evl[i]) \/ status[evl[i]] = MK_EVENT_NONE)'
    <2>1. CASE i = loaded + 1
      BY <1>1, <1>6, <2>1 DEF Queued, e
    <2>2. CASE i \in 1 .. loaded
      BY <1>1, <1>6, <2>2 DEF LoopInv, AtLoad, Queued
    <2>3. QED
      BY <1>1, <1>2, <2>1, <2>2
  <1>10. AtLoad'
    BY <1>1, <1>9 DEF AtLoad
  <1>11. QED
    BY <1>1, <1>7, <1>8, <1>10 DEF LoopInv, InjectedRegistered, ReportedReady, AtHandler

\* The best event is popped.
LEMMA TakeStep == ASSUME LoopInv, Take PROVE LoopInv'
  <1>1. /\ at = "load" /\ loaded = nInitial /\ taken' = flb_bucket_queue_find_min(bq)
        /\ bq' = IF taken' = NULL THEN flb_bucket_queue_seek(bq)
                 ELSE flb_bucket_queue_delete_min(bq)
        /\ at' = IF taken' # NULL /\ Again THEN "body" ELSE "wait"
        /\ injected' = IF at' = "body" THEN injected \ {taken'} ELSE injected
        /\ slipped' = slipped \ {taken'}
        /\ UNCHANGED <<status, evl, nInitial, loaded, iterations, ready>>
    BY DEF Take
  <1>2. Takes(bq, taken')
    BY <1>1, TakeFacts DEF LoopInv, LoopTypes
  <1>3. nInitial = Len(evl) /\ Len(evl) \in Nat
    BY <1>1, LenProperties DEF LoopInv, LoopTypes
  <1>4. Placed(bq') /\ \A e \in In(bq') : e \in In(bq) /\ e # taken'
    BY <1>1, <1>2 DEF Takes
  <1>5. \A e \in In(bq) : e \in In(bq') \/ e = taken'
    BY <1>1, <1>2 DEF Takes
  <1>6. LoopTypes'
    BY <1>1, <1>3, <1>4, LoopAssumption DEF LoopInv, LoopTypes, Again
  <1>7. QueueRegistered' /\ InjectedRegistered'
    BY <1>1, <1>4 DEF LoopInv, QueueRegistered, InjectedRegistered
  <1>8. AtHandler'
    <2> SUFFICES ASSUME at' = "body" PROVE AtHandler'
      BY <1>1 DEF AtHandler
    <2>1. ASSUME NEW i \in 1 .. nInitial PROVE Queued(evl[i])' \/ evl'[i] \notin injected'
      <3>1. Queued(evl[i]) \/ evl[i] \notin injected
        BY <1>1, <1>3 DEF LoopInv, AtLoad, InjectedRegistered, MK_EVENT_NONE,
                          MK_EVENT_REGISTERED
      <3>2. QED
        BY <1>1, <1>5, <3>1 DEF Queued
    <2>2. nInitial + 1 .. Len(evl) = {}
      BY <1>3
    <2>3. QED
      BY <1>1, <2>1, <2>2 DEF AtHandler
  <1>9. QED
    BY <1>1, <1>6, <1>7, <1>8 DEF LoopInv, ReportedReady, AtLoad

\* What an effect of a handler leaves alone, and what is left to show for it.
LEMMA EffectStep ==
  ASSUME LoopInv, Effect, Placed(bq'),
         status' \in [Items -> {MK_EVENT_NONE, MK_EVENT_REGISTERED}],
         evl' \in Seq(Items), nInitial <= Len(evl'), injected' \subseteq Items,
         QueueRegistered', InjectedRegistered', AtHandler'
  PROVE  LoopInv'
  <1>1. at = "body" /\ UNCHANGED <<taken, nInitial, loaded, iterations, at, ready>>
    BY DEF Effect
  <1>2. Len(evl) \in Nat /\ Len(evl') \in Nat
    BY LenProperties DEF LoopInv, LoopTypes
  <1>3. LoopTypes'
    BY <1>1, <1>2 DEF LoopInv, LoopTypes
  <1>4. QED
    BY <1>1, <1>3 DEF LoopInv, ReportedReady, AtLoad

\* What is known while a handler runs.
LEMMA BodyFacts ==
  ASSUME LoopInv, Effect
  PROVE  /\ at = "body" /\ at' = "body" /\ nInitial' = nInitial
         /\ nInitial \in Nat /\ nInitial <= Len(evl) /\ evl \in Seq(Items) /\ Len(evl) \in Nat
         /\ status \in [Items -> {MK_EVENT_NONE, MK_EVENT_REGISTERED}] /\ Placed(bq)
         /\ \A i \in 1 .. nInitial : Queued(evl[i]) \/ evl[i] \notin injected
         /\ \A i \in nInitial + 1 .. Len(evl) :
              status[evl[i]] = MK_EVENT_REGISTERED \/ evl[i] \in slipped
         /\ \A i \in 1 .. Len(evl) : evl[i] \in Items
  <1>1. at = "body" /\ at' = "body" /\ nInitial' = nInitial
    BY DEF Effect
  <1>2. /\ nInitial \in 0 .. Len(evl) /\ evl \in Seq(Items) /\ Len(evl) \in Nat
        /\ status \in [Items -> {MK_EVENT_NONE, MK_EVENT_REGISTERED}] /\ Placed(bq)
    BY LenProperties DEF LoopInv, LoopTypes
  <1>3. AtHandler
    BY DEF LoopInv
  <1>4. \A i \in 1 .. Len(evl) : evl[i] \in Items
    BY <1>2, ElementOfSeq
  <1>5. QED
    BY <1>1, <1>2, <1>3, <1>4 DEF AtHandler

\* A handler injects an event behind the reported ones.
LEMMA InjectStep == ASSUME LoopInv, NEW e \in Items, HandleInject(e) PROVE LoopInv'
  <1>1. /\ Effect /\ status[e] = MK_EVENT_REGISTERED
        /\ e \notin ToSet(evl) /\ evl' = Append(evl, e)
        /\ injected' = injected \cup {e}
        /\ UNCHANGED <<bq, status, slipped>>
    BY DEF HandleInject
  <1>2. /\ at' = "body" /\ nInitial' = nInitial
        /\ nInitial \in Nat /\ nInitial <= Len(evl) /\ evl \in Seq(Items) /\ Len(evl) \in Nat
        /\ status \in [Items -> {MK_EVENT_NONE, MK_EVENT_REGISTERED}] /\ Placed(bq)
        /\ \A i \in 1 .. nInitial : Queued(evl[i]) \/ evl[i] \notin injected
        /\ \A i \in nInitial + 1 .. Len(evl) :
             status[evl[i]] = MK_EVENT_REGISTERED \/ evl[i] \in slipped
    BY <1>1, BodyFacts
  <1>3. /\ evl' \in Seq(Items) /\ Len(evl') = Len(evl) + 1 /\ evl'[Len(evl) + 1] = e
        /\ \A i \in 1 .. Len(evl) : evl'[i] = evl[i]
    BY <1>1, <1>2, AppendProperties
  <1>4. \A i \in 1 .. Len(evl) : evl[i] # e
    BY <1>1, <1>2, ElementsAt
  <1>5. QueueRegistered' /\ InjectedRegistered'
    BY <1>1 DEF LoopInv, QueueRegistered, InjectedRegistered
  <1>6. ASSUME NEW i \in 1 .. nInitial PROVE Queued(evl[i])' \/ evl'[i] \notin injected'
    <2>1. i \in 1 .. Len(evl) /\ evl'[i] = evl[i] /\ evl[i] # e
      BY <1>2, <1>3, <1>4
    <2>2. QED
      BY <1>1, <1>2, <2>1 DEF Queued
  <1>7. ASSUME NEW i \in nInitial + 1 .. Len(evl')
        PROVE  status'[evl'[i]] = MK_EVENT_REGISTERED \/ evl'[i] \in slipped'
    <2>1. CASE i = Len(evl) + 1
      BY <1>1, <1>3, <2>1
    <2>2. CASE i # Len(evl) + 1
      <3>1. i \in nInitial + 1 .. Len(evl) /\ i \in 1 .. Len(evl)
        BY <1>2, <1>3, <2>2
      <3>2. QED
        BY <1>1, <1>2, <1>3, <3>1
    <2>3. QED
      BY <2>1, <2>2
  <1>8. AtHandler'
    BY <1>2, <1>6, <1>7 DEF AtHandler
  <1>9. nInitial <= Len(evl') /\ Placed(bq') /\ injected' \subseteq Items
    BY <1>1, <1>2, <1>3 DEF LoopInv, LoopTypes
  <1>10. status' \in [Items -> {MK_EVENT_NONE, MK_EVENT_REGISTERED}]
    BY <1>1, <1>2
  <1>11. QED
    BY <1>1, <1>3, <1>5, <1>8, <1>9, <1>10, EffectStep

\* A handler deletes an event, its own or another one: what it had injected slips.
LEMMA DeleteStep == ASSUME LoopInv, NEW e \in Items, HandleDelete(e) PROVE LoopInv'
  <1>1. /\ Effect /\ status' = [status EXCEPT ![e] = MK_EVENT_NONE]
        /\ bq' = IF e \in In(bq) THEN Unlink(bq, e) ELSE bq
        /\ injected' = injected \ {e}
        /\ slipped' = IF e \in JustInjected THEN slipped \cup {e} ELSE slipped
        /\ evl' = evl
    BY DEF HandleDelete, MK_EVENT_NEW
  <1>2. /\ at' = "body" /\ nInitial' = nInitial
        /\ nInitial \in Nat /\ nInitial <= Len(evl) /\ evl \in Seq(Items) /\ Len(evl) \in Nat
        /\ status \in [Items -> {MK_EVENT_NONE, MK_EVENT_REGISTERED}] /\ Placed(bq)
        /\ \A i \in 1 .. nInitial : Queued(evl[i]) \/ evl[i] \notin injected
        /\ \A i \in nInitial + 1 .. Len(evl) :
             status[evl[i]] = MK_EVENT_REGISTERED \/ evl[i] \in slipped
        /\ \A i \in 1 .. Len(evl) : evl[i] \in Items
    BY <1>1, BodyFacts
  <1>3. Unlinks(bq, e, bq')
    BY <1>1, <1>2, UnlinkFacts
  <1>4. /\ status' \in [Items -> {MK_EVENT_NONE, MK_EVENT_REGISTERED}]
        /\ \A x \in Items : x # e => status'[x] = status[x]
        /\ slipped \subseteq slipped'
    BY <1>1, <1>2
  <1>5. QueueRegistered'
    <2>1. ASSUME NEW x \in In(bq') PROVE status'[x] = MK_EVENT_REGISTERED \/ x \in slipped'
      <3>1. x \in In(bq) /\ x # e
        BY <1>3 DEF Unlinks
      <3>2. x \in Items /\ (status[x] = MK_EVENT_REGISTERED \/ x \in slipped)
        BY <1>2, <3>1, PlacedFacts DEF LoopInv, QueueRegistered
      <3>3. QED
        BY <1>4, <3>1, <3>2
    <2>2. QED
      BY <2>1 DEF QueueRegistered
  <1>6. InjectedRegistered'
    <2>1. ASSUME NEW x \in injected' PROVE status'[x] = MK_EVENT_REGISTERED
      <3>1. x # e /\ status[x] = MK_EVENT_REGISTERED
        BY <1>1 DEF LoopInv, InjectedRegistered
      <3>2. x \in Items => status'[x] = status[x]
        BY <1>4, <3>1
      <3>3. x \in Items
        BY <1>1 DEF LoopInv, LoopTypes
      <3>4. QED
        BY <3>1, <3>2, <3>3
    <2>2. QED
      BY <2>1 DEF InjectedRegistered
  <1>7. ASSUME NEW i \in 1 .. nInitial PROVE Queued(evl[i])' \/ evl'[i] \notin injected'
    BY <1>1, <1>2, <1>3 DEF Queued, Unlinks
  <1>8. ASSUME NEW i \in nInitial + 1 .. Len(evl')
        PROVE  status'[evl'[i]] = MK_EVENT_REGISTERED \/ evl'[i] \in slipped'
    <2>1. i \in nInitial + 1 .. Len(evl) /\ i \in 1 .. Len(evl) /\ evl'[i] = evl[i]
      BY <1>1, <1>2
    <2>2. CASE evl[i] = e
      BY <1>1, <2>1, <2>2 DEF JustInjected
    <2>3. CASE evl[i] # e
      BY <1>2, <1>4, <2>1, <2>3
    <2>4. QED
      BY <2>2, <2>3
  <1>9. AtHandler'
    BY <1>2, <1>7, <1>8 DEF AtHandler
  <1>10. /\ Placed(bq') /\ nInitial <= Len(evl') /\ evl' \in Seq(Items)
         /\ injected' \subseteq Items
    BY <1>1, <1>2, <1>3 DEF Unlinks, LoopInv, LoopTypes
  <1>11. QED
    BY <1>1, <1>4, <1>5, <1>6, <1>9, <1>10, EffectStep

\* A handler registers an event.
LEMMA RegisterStep == ASSUME LoopInv, NEW e \in Items, HandleRegister(e) PROVE LoopInv'
  <1>1. /\ Effect /\ status' = [status EXCEPT ![e] = MK_EVENT_REGISTERED]
        /\ slipped' = slipped \ {e}
        /\ UNCHANGED <<bq, evl, injected>>
    BY DEF HandleRegister
  <1>2. /\ at' = "body" /\ nInitial' = nInitial
        /\ nInitial \in Nat /\ nInitial <= Len(evl) /\ evl \in Seq(Items) /\ Len(evl) \in Nat
        /\ status \in [Items -> {MK_EVENT_NONE, MK_EVENT_REGISTERED}] /\ Placed(bq)
        /\ \A i \in 1 .. nInitial : Queued(evl[i]) \/ evl[i] \notin injected
        /\ \A i \in nInitial + 1 .. Len(evl) :
             status[evl[i]] = MK_EVENT_REGISTERED \/ evl[i] \in slipped
        /\ \A i \in 1 .. Len(evl) : evl[i] \in Items
    BY <1>1, BodyFacts
  <1>3. /\ status' \in [Items -> {MK_EVENT_NONE, MK_EVENT_REGISTERED}]
        /\ status'[e] = MK_EVENT_REGISTERED
        /\ \A x \in Items : x # e => status'[x] = status[x] /\ (x \in slipped' <=> x \in slipped)
    BY <1>1, <1>2
  <1>4. QueueRegistered' /\ InjectedRegistered'
    <2>1. \A x \in In(bq) : x \in Items
      BY <1>2, PlacedFacts
    <2>2. injected \subseteq Items
      BY DEF LoopInv, LoopTypes
    <2>3. QED
      BY <1>1, <1>3, <2>1, <2>2 DEF LoopInv, QueueRegistered, InjectedRegistered
  <1>5. ASSUME NEW i \in 1 .. nInitial PROVE Queued(evl[i])' \/ evl'[i] \notin injected'
    BY <1>1, <1>2 DEF Queued
  <1>6. ASSUME NEW i \in nInitial + 1 .. Len(evl')
        PROVE  status'[evl'[i]] = MK_EVENT_REGISTERED \/ evl'[i] \in slipped'
    <2>1. i \in nInitial + 1 .. Len(evl) /\ i \in 1 .. Len(evl) /\ evl'[i] = evl[i]
      BY <1>1, <1>2
    <2>2. QED
      BY <1>2, <1>3, <2>1
  <1>7. AtHandler'
    BY <1>2, <1>5, <1>6 DEF AtHandler
  <1>8. /\ nInitial <= Len(evl') /\ evl' \in Seq(Items) /\ Placed(bq')
        /\ injected' \subseteq Items
    BY <1>1, <1>2 DEF LoopInv, LoopTypes
  <1>9. QED
    BY <1>1, <1>3, <1>4, <1>7, <1>8, EffectStep

\* The handler has read its descriptor and returns.
LEMMA HandleStep == ASSUME LoopInv, Handle PROVE LoopInv'
  <1>1. /\ at = "body" /\ at' = "update" /\ ready' \subseteq ready
        /\ UNCHANGED <<bq, taken, status, evl, nInitial, loaded, iterations, injected, slipped>>
    BY DEF Handle
  <1>2. ready' \subseteq Items /\ IsFiniteSet(ready')
    BY <1>1, FS_Subset DEF LoopInv, LoopTypes
  <1>3. LoopTypes'
    BY <1>1, <1>2 DEF LoopInv, LoopTypes
  <1>4. QED
    BY <1>1, <1>3 DEF LoopInv, QueueRegistered, InjectedRegistered, ReportedReady, AtLoad,
                      AtHandler, Queued

\* An injected event is loaded.
LEMMA LoadInjectedStep == ASSUME LoopInv, LoadInjected PROVE LoopInv'
  <1> DEFINE e == evl[nInitial + 1]
  <1>1. /\ at = "update" /\ nInitial < Len(evl) /\ nInitial' = nInitial + 1
        /\ bq' = flb_event_load_bucket_queue_event(bq, e)
        /\ UNCHANGED <<taken, status, evl, loaded, iterations, at, ready, injected, slipped>>
    BY DEF LoadInjected
  <1>2. evl \in Seq(Items) /\ nInitial \in 0 .. Len(evl) /\ Len(evl) \in Nat
        /\ loaded \in 0 .. nInitial
    BY LenProperties DEF LoopInv, LoopTypes
  <1>3. nInitial + 1 \in 1 .. Len(evl) /\ nInitial + 1 \in nInitial + 1 .. Len(evl)
    BY <1>1, <1>2
  <1>4. e \in Items /\ (status[e] = MK_EVENT_REGISTERED \/ e \in slipped)
    BY <1>1, <1>2, <1>3, ElementOfSeq DEF LoopInv, AtHandler
  <1>5. Loads(bq, e, bq')
    BY <1>1, <1>4, LoadFacts DEF LoopInv, LoopTypes
  <1> HIDE DEF e
  <1>6. LoopTypes'
    BY <1>1, <1>2, <1>3, <1>5 DEF LoopInv, LoopTypes, Loads
  <1>7. QueueRegistered'
    BY <1>1, <1>4, <1>5 DEF LoopInv, QueueRegistered, Loads
  <1>8. AtHandler'
    <2>1. ASSUME NEW i \in 1 .. nInitial' PROVE Queued(evl[i])' \/ evl'[i] \notin injected'
      <3>1. CASE i = nInitial + 1
        BY <1>1, <1>5, <3>1 DEF Queued, Loads, e
      <3>2. CASE i \in 1 .. nInitial
        BY <1>1, <1>5, <3>2 DEF LoopInv, AtHandler, Queued, Loads
      <3>3. QED
        BY <1>1, <1>2, <3>1, <3>2
    <2>2. ASSUME NEW i \in nInitial' + 1 .. Len(evl')
          PROVE  status'[evl'[i]] = MK_EVENT_REGISTERED \/ evl'[i] \in slipped'
      <3>1. i \in nInitial + 1 .. Len(evl)
        BY <1>1, <1>2
      <3>2. QED
        BY <1>1, <3>1 DEF LoopInv, AtHandler
    <2>3. QED
      BY <2>1, <2>2 DEF AtHandler
  <1>9. QED
    BY <1>1, <1>6, <1>7, <1>8 DEF LoopInv, InjectedRegistered, ReportedReady, AtLoad
-----------------------------------------------------------------------------
(* Every step. *)

\* Every step of the engine, and every descriptor that becomes readable, keeps the
\* invariant.
LEMMA LoopStep == ASSUME LoopInv, [LoopNext]_loopVars PROVE LoopInv'
  <1>1. CASE UNCHANGED loopVars
    BY <1>1 DEF loopVars, LoopInv, LoopTypes, QueueRegistered, InjectedRegistered,
                ReportedReady, AtLoad, AtHandler, Queued
  <1>2. CASE Round
    <2>1. PICK r \in Reports : Report(r)
      BY <1>2 DEF Round
    <2>2. /\ UNCHANGED <<bq, status, ready, injected, slipped>>
          /\ iterations' \in Nat /\ (MaxIter # -1 => iterations' <= MaxIter)
      BY <1>2, LoopAssumption DEF Round
    <2>3. QED
      BY <2>1, <2>2, ReportStep
  <1>3. CASE WaitAgain
    <2>1. PICK r \in Reports : Report(r)
      BY <1>3 DEF WaitAgain
    <2>2. /\ at = "update" /\ UNCHANGED <<bq, status, ready, injected, slipped>>
          /\ iterations' = iterations + 1
      BY <1>3 DEF WaitAgain
    <2>3. iterations' \in Nat /\ (MaxIter # -1 => iterations' <= MaxIter)
      BY <2>2, LoopAssumption DEF LoopInv, LoopTypes
    <2>4. QED
      BY <2>1, <2>2, <2>3, ReportStep
  <1>4. QED
    BY <1>1, <1>2, <1>3, ArriveStep, InjectStep, DeleteStep, RegisterStep, LoadStep, TakeStep,
       HandleStep, LoadInjectedStep DEF LoopNext

\* What a step does to the events that are held.
LEMMA HeldFacts ==
  ASSUME LoopInv
  PROVE  /\ Waiting = In(bq)
         /\ \A e : e \in ToSet(evl) <=> \E i \in 1 .. Len(evl) : evl[i] = e
         /\ \A e : e \in Held <=> e \in In(bq) \/ \E i \in 1 .. Len(evl) : evl[i] = e
  <1>1. Waiting = In(bq)
    BY OrderedFacts DEF LoopInv, LoopTypes, Placed, Waiting
  <1>2. \A e : e \in ToSet(evl) <=> \E i \in 1 .. Len(evl) : evl[i] = e
    BY ElementsAt DEF LoopInv, LoopTypes
  <1>3. QED
    BY <1>1, <1>2 DEF Held

\* A step drops an injected event only as InjectedDroppedOnlyAtBound says.
Kept(e) == \/ e \in Held' \/ e \notin injected' \/ Priority(e) >= Count
           \/ at = "load" /\ iterations = MaxIter /\ e = taken'

LEMMA KeptStep ==
  ASSUME LoopInv, LoopInv', LoopNext, NEW e \in (injected \ ready) \cap Held
  PROVE  Kept(e)
  <1>1. e \in In(bq) \/ \E i \in 1 .. Len(evl) : evl[i] = e
    BY HeldFacts
  <1>2. e \in In(bq') \/ (\E i \in 1 .. Len(evl') : evl'[i] = e) => e \in Held'
    <2>1. Waiting' = In(bq')
      BY OrderedFacts DEF LoopInv, LoopTypes, Placed, Waiting
    <2>2. e \in ToSet(evl') <=> \E i \in 1 .. Len(evl') : evl'[i] = e
      BY ElementsAt DEF LoopInv, LoopTypes
    <2>3. QED
      BY <2>1, <2>2 DEF Held
  <1>3. evl \in Seq(Items) /\ Len(evl) \in Nat /\ Placed(bq)
    BY LenProperties DEF LoopInv, LoopTypes
  <1>4. ASSUME NEW x \in Items, Arrive(x) PROVE Kept(e)
    BY <1>1, <1>2, <1>4 DEF Arrive, Kept
  <1>5. ASSUME NEW x \in Items, HandleInject(x) PROVE Kept(e)
    <2>1. evl' = Append(evl, x) /\ bq' = bq
      BY <1>5 DEF HandleInject
    <2>2. /\ Len(evl') = Len(evl) + 1
          /\ \A i \in 1 .. Len(evl) : evl'[i] = evl[i]
      BY <1>3, <2>1, AppendProperties
    <2>3. CASE e \in In(bq)
      BY <1>2, <2>1, <2>3 DEF Kept
    <2>4. CASE \E i \in 1 .. Len(evl) : evl[i] = e
      <3>1. PICK i \in 1 .. Len(evl) : evl[i] = e
        BY <2>4
      <3>2. i \in 1 .. Len(evl') /\ evl'[i] = e
        BY <1>3, <2>2, <3>1
      <3>3. QED
        BY <1>2, <3>2 DEF Kept
    <2>5. QED
      BY <1>1, <2>3, <2>4
  <1>6. ASSUME NEW x \in Items, HandleDelete(x) PROVE Kept(e)
    <2>1. /\ evl' = evl /\ injected' = injected \ {x}
          /\ bq' = IF x \in In(bq) THEN Unlink(bq, x) ELSE bq
      BY <1>6 DEF HandleDelete
    <2>2. Unlinks(bq, x, bq')
      BY <1>3, <2>1, UnlinkFacts
    <2>3. QED
      BY <1>1, <1>2, <2>1, <2>2 DEF Kept, Unlinks
  <1>7. ASSUME NEW x \in Items, HandleRegister(x) PROVE Kept(e)
    BY <1>1, <1>2, <1>7 DEF HandleRegister, Kept
  <1>8. CASE Handle
    BY <1>1, <1>2, <1>8 DEF Handle, Kept
  <1>9. CASE Round
    <2>1. at = "wait" /\ bq' = bq
      BY <1>9 DEF Round
    <2>2. e \in In(bq)
      BY <1>1, <2>1 DEF LoopInv, ReportedReady
    <2>3. QED
      BY <1>2, <2>1, <2>2 DEF Kept
  <1>10. CASE Load
    <2>1. at = "load" /\ evl' = evl
      BY <1>10 DEF Load
    <2>2. CASE bq' = bq
      BY <1>1, <1>2, <2>1, <2>2 DEF Kept
    <2>3. CASE bq' # bq
      <3>1. bq' = flb_event_load_bucket_queue_event(bq, evl[loaded + 1])
        BY <1>10, <2>3 DEF Load
      <3>2. evl[loaded + 1] \in Items
        <4>1. loaded + 1 \in 1 .. Len(evl)
          BY <1>3, <1>10 DEF Load, LoopInv, LoopTypes
        <4>2. QED
          BY <1>3, <4>1, ElementOfSeq
      <3>3. In(bq) \subseteq In(bq')
        BY <1>3, <3>1, <3>2, LoadFacts DEF Loads
      <3>4. QED
        BY <1>1, <1>2, <2>1, <3>3 DEF Kept
    <2>4. QED
      BY <2>2, <2>3
  <1>11. CASE Take
    <2>1. /\ at = "load" /\ evl' = evl /\ taken' = flb_bucket_queue_find_min(bq)
          /\ bq' = IF taken' = NULL THEN flb_bucket_queue_seek(bq)
                   ELSE flb_bucket_queue_delete_min(bq)
          /\ at' = IF taken' # NULL /\ Again THEN "body" ELSE "wait"
          /\ injected' = IF at' = "body" THEN injected \ {taken'} ELSE injected
      BY <1>11 DEF Take
    <2>2. Takes(bq, taken')
      BY <1>3, <2>1, TakeFacts
    <2>3. CASE e \in In(bq) /\ e # taken'
      <3>1. e \in In(bq')
        BY <2>1, <2>2, <2>3 DEF Takes
      <3>2. QED
        BY <1>2, <3>1 DEF Kept
    <2>4. CASE e \in In(bq) /\ e = taken'
      <3>1. taken' # NULL
        BY <2>2, <2>4 DEF Takes
      <3>2. Again \/ iterations = MaxIter
        BY LoopAssumption DEF LoopInv, LoopTypes, Again
      <3>3. QED
        BY <2>1, <2>4, <3>1, <3>2 DEF Kept
    <2>5. CASE \E i \in 1 .. Len(evl) : evl[i] = e
      BY <1>2, <2>1, <2>5 DEF Kept
    <2>6. QED
      BY <1>1, <2>1, <2>3, <2>4, <2>5
  <1>12. CASE LoadInjected
    <2>1. /\ at = "update" /\ evl' = evl /\ nInitial < Len(evl)
          /\ bq' = flb_event_load_bucket_queue_event(bq, evl[nInitial + 1])
      BY <1>12 DEF LoadInjected
    <2>2. evl[nInitial + 1] \in Items
      <3>1. nInitial + 1 \in 1 .. Len(evl)
        BY <1>3, <2>1 DEF LoopInv, LoopTypes
      <3>2. QED
        BY <1>3, <3>1, ElementOfSeq
    <2>3. In(bq) \subseteq In(bq')
      BY <1>3, <2>1, <2>2, LoadFacts DEF Loads
    <2>4. QED
      BY <1>1, <1>2, <2>1, <2>3 DEF Kept
  <1>13. CASE WaitAgain
    <2>1. at = "update" /\ nInitial = Len(evl) /\ bq' = bq /\ injected' = injected
      BY <1>13 DEF WaitAgain
    <2>2. e \in In(bq) \/ Priority(e) >= Count
      BY <1>1, <2>1 DEF LoopInv, AtHandler, Queued
    <2>3. QED
      BY <1>2, <2>1, <2>2 DEF Kept
  <1>14. QED
    BY <1>4, <1>5, <1>6, <1>7, <1>8, <1>9, <1>10, <1>11, <1>12, <1>13 DEF LoopNext

-----------------------------------------------------------------------------
\* The invariant is one of the specification.
LEMMA LoopInvariant == LoopSpec => []LoopInv
  BY LoopInitially, LoopStep, PTL DEF LoopSpec

\* A handler is entered by popping an event.
LEMMA EnteredByTake ==
  ASSUME LoopNext, at = "load", at' = "body"
  PROVE  Take
  BY DEF LoopNext, Arrive, HandleInject, HandleDelete, HandleRegister, Effect, Round, Load,
         Handle, LoadInjected, WaitAgain, Report

\* What is popped when a handler is entered.
LEMMA EnteredFacts ==
  ASSUME LoopInv, LoopNext, at = "load", at' = "body"
  PROVE  /\ taken' \in In(bq) /\ taken' \in Items /\ Priority(taken') < Count
         /\ \A e \in In(bq) : Priority(taken') <= Priority(e)
         /\ loaded = nInitial /\ nInitial = Len(evl)
  <1>1. Take
    BY EnteredByTake
  <1>2. /\ taken' = flb_bucket_queue_find_min(bq) /\ taken' # NULL /\ loaded = nInitial
    BY <1>1 DEF Take
  <1>3. Takes(bq, taken')
    BY <1>2, TakeFacts DEF LoopInv, LoopTypes
  <1>4. nInitial = Len(evl)
    BY DEF LoopInv, LoopTypes
  <1>5. QED
    BY <1>2, <1>3, <1>4 DEF Takes

\* No handler is entered for a deleted event (flb_event_loop.h:42, flb_bucket_queue.h:21-25),
\* however many events handlers inject, delete and register, but for one that was injected
\* and deleted before it was loaded (line 67).
THEOREM DeletedIsNotHandled == LoopSpec => HandledIsRegistered
  <1>1. ASSUME LoopInv, [LoopNext]_loopVars
        PROVE  [at = "load" /\ at' = "body" =>
                  status[taken'] = MK_EVENT_REGISTERED \/ taken' \in slipped]_loopVars
    BY <1>1, EnteredFacts DEF LoopInv, QueueRegistered
  <1>2. QED
    BY <1>1, LoopInvariant, PTL DEF LoopSpec, HandledIsRegistered

\* The handler that is entered is for an event no live reported event and no waiting one is
\* more urgent than (flb_event_loop.h:74-100), for every max_iter and every size of the report.
THEOREM MostUrgentFirst == LoopSpec => BestFirst
  <1>1. ASSUME LoopInv, LoopNext, at = "load", at' = "body",
               NEW e \in {x \in ToSet(evl) : status[x] = MK_EVENT_REGISTERED} \cup Waiting
        PROVE  Priority(taken') <= Priority(e)
    <2>1. /\ taken' \in In(bq) /\ taken' \in Items /\ Priority(taken') < Count
          /\ \A x \in In(bq) : Priority(taken') <= Priority(x)
          /\ loaded = nInitial /\ nInitial = Len(evl)
      BY <1>1, EnteredFacts
    <2>2. CASE e \in In(bq)
      BY <2>1, <2>2
    <2>3. CASE e \notin In(bq)
      <3>1. status[e] = MK_EVENT_REGISTERED /\ \E i \in 1 .. Len(evl) : evl[i] = e
        BY <1>1, <2>3, HeldFacts
      <3>2. PICK i \in 1 .. Len(evl) : evl[i] = e
        BY <3>1
      <3>3. e \in Items
        BY <1>1, <3>2, ElementOfSeq DEF LoopInv, LoopTypes
      <3>4. Priority(e) >= Count
        BY <1>1, <2>1, <2>3, <3>1, <3>2
           DEF LoopInv, AtLoad, Queued, MK_EVENT_NONE, MK_EVENT_REGISTERED
      <3>5. QED
        BY <2>1, <3>3, <3>4, PriorityFacts, BucketAssumption
    <2>4. QED
      BY <2>2, <2>3
  <1>2. ASSUME LoopInv, [LoopNext]_loopVars
        PROVE  [at = "load" /\ at' = "body" =>
                  \A e \in {x \in ToSet(evl) : status[x] = MK_EVENT_REGISTERED} \cup Waiting :
                    Priority(taken') <= Priority(e)]_loopVars
    BY <1>1, <1>2
  <1>3. QED
    BY <1>2, LoopInvariant, PTL DEF LoopSpec, BestFirst

\* An injected event that no descriptor reports again is lost only when it is the one
\* popped at max_iter, or when no bucket takes it (flb_event_loop.h:86-92, :61-71).
THEOREM InjectedIsNotLost == LoopSpec => InjectedDroppedOnlyAtBound
  <1>1. ASSUME LoopInv, LoopInv', [LoopNext]_loopVars
        PROVE  [\A e \in (injected \ ready) \cap Held :
                  \/ e \in Held' \/ e \notin injected' \/ Priority(e) >= Count
                  \/ at = "load" /\ iterations = MaxIter /\ e = taken']_loopVars
    BY <1>1, KeptStep DEF Kept
  <1>2. QED
    BY <1>1, LoopInvariant, PTL DEF LoopSpec, InjectedDroppedOnlyAtBound
=============================================================================
