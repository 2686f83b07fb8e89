--------------------------- MODULE FlbFlushProofs ---------------------------
(* Theorems about FlbFlush, for any tasks, outputs, threads and routes: the lock of *)
(* the task makes the look at a route and the call of the plugin one step; a route  *)
(* is used once at a time and is active exactly while its callback works; and the   *)
(* users of a task are what still needs it, so it is released with the last one.    *)
EXTENDS FlbFlush, SequenceTheorems, FiniteSetTheorems, FunctionTheorems, TLAPS

-----------------------------------------------------------------------------
(* The inductive invariant. *)

\* The requests and the flush contexts name tasks and outputs.
Shapes == /\ inbox \in [Threads -> Seq(Tasks \X Outs)]
          /\ flush \in [Slots -> FlushRecord \cup {NULL}]
          /\ running \in [Threads -> Slots \cup {NULL}]
          /\ current \in [Threads -> Slots \cup {NULL}]
          /\ lock \in [Tasks -> Threads \cup {NULL}]
          /\ route \in [Routes -> RouteStatus]

\* The coroutine that executes in a thread is the one of flb_coro_get(), and lives there.
CurrentRuns == \A th \in Threads, f \in Slots : running[th] = f =>
                 current[th] = f /\ Live(f) /\ HomeOf(f) = th

Inside == {"entered", "locked", "dropped", "flushing", "returning", "refused", "notified"}

\* A coroutine that is inside its function executes.
InsideRuns == \A f \in Slots : Live(f) /\ flush[f].at \in Inside => running[HomeOf(f)] = f

\* Between the look at the route and the unlock, the task is locked by the thread.
LookIsLocked == \A f \in Slots : Live(f) /\ flush[f].at \in {"locked", "dropped"} =>
                  lock[flush[f].task] = HomeOf(f)

\* What the look found still holds.
LookIsFresh == \A f \in Slots : Live(f) /\ flush[f].at = "locked" =>
                 flb_task_get_route_status(PairOf(f)) # "dropped"

FlushInv == Shapes /\ CurrentRuns /\ InsideRuns /\ LookIsLocked /\ LookIsFresh

-----------------------------------------------------------------------------
\* A finite set put in a sequence is a sequence over it.
LEMMA SetToSeqType ==
  ASSUME NEW S, IsFiniteSet(S) PROVE SetToSeq(S) \in Seq(S)
  <1>1. Cardinality(S) \in Nat /\ ExistsBijection(1 .. Cardinality(S), S)
    BY FS_CardinalityType
  <1>2. \E f \in [1 .. Cardinality(S) -> S] : IsInjective(f)
    BY <1>1 DEF ExistsBijection, Bijection, Injection
  <1>3. SetToSeq(S) \in [1 .. Cardinality(S) -> S]
    BY <1>2 DEF SetToSeq
  <1>4. QED
    BY <1>1, <1>3, SeqDef

\* Every output has a thread, and a thread is never the null pointer.
LEMMA ThreadFacts == /\ \A o : ThreadOf(o) \in Threads
                     /\ NULL \notin Threads
  BY FlushAssumption DEF ThreadOf, Threads

\* Starting a task asks every thread for routes only.
LEMMA StartTaskType ==
  ASSUME Shapes, NEW t \in Tasks, StartTask(t)
  PROVE  Shapes'
  <1> DEFINE asked(th) == {<<t, o>> : o \in {p \in OutsOf(t) : ThreadOf(p) = th}}
  <1>1. ASSUME NEW th \in Threads
        PROVE  inbox[th] \o SetToSeq(asked(th)) \in Seq(Tasks \X Outs)
    <2>1. asked(th) \in SUBSET Routes /\ asked(th) \subseteq Tasks \X Outs
      BY FlushAssumption DEF OutsOf
    <2>2. IsFiniteSet(asked(th))
      BY <2>1, FlushAssumption, FS_Subset
    <2>3. SetToSeq(asked(th)) \in Seq(asked(th))
      BY <2>2, SetToSeqType
    <2>4. SetToSeq(asked(th)) \in Seq(Tasks \X Outs)
      BY <2>1, <2>3, ElementOfSeq, LenProperties, SeqDef
    <2>5. QED
      BY <2>4, ConcatProperties DEF Shapes
  <1>2. inbox' \in [Threads -> Seq(Tasks \X Outs)]
    BY <1>1 DEF StartTask
  <1>3. QED
    BY <1>2 DEF Shapes, StartTask

\* The route's status is one of three.
LEMMA StatusType ==
  ASSUME Shapes, NEW r, NEW status \in RouteStatus
  PROVE  flb_task_set_route_status(r, status) \in [Routes -> RouteStatus]
  BY DEF Shapes, flb_task_set_route_status

\* A step that leaves the coroutines, the locks and the routes alone.
LEMMA FrameStep ==
  ASSUME FlushInv, Shapes', UNCHANGED <<flush, running, current, lock, route>>
  PROVE  FlushInv'
  <1>1. CurrentRuns'
    BY DEF FlushInv, CurrentRuns, Live, HomeOf
  <1>2. InsideRuns'
    BY DEF FlushInv, InsideRuns, Live, HomeOf
  <1>3. LookIsLocked'
    BY DEF FlushInv, LookIsLocked, Live, HomeOf
  <1>4. LookIsFresh'
    BY DEF FlushInv, LookIsFresh, Live, PairOf, flb_task_get_route_status
  <1>5. QED
    BY <1>1, <1>2, <1>3, <1>4 DEF FlushInv

\* What the invariant says of one flush context.
LEMMA OneFlush ==
  ASSUME FlushInv, NEW f \in Slots, Live(f)
  PROVE  /\ flush[f] \in FlushRecord /\ HomeOf(f) \in Threads /\ HomeOf(f) # NULL
         /\ flush[f].task \in Tasks /\ flush[f].out \in Outs
         /\ flush[f].at \in Inside => running[HomeOf(f)] = f /\ current[HomeOf(f)] = f
         /\ flush[f].at \in {"locked", "dropped"} => lock[flush[f].task] = HomeOf(f)
  <1>1. flush[f] \in FlushRecord
    BY DEF FlushInv, Shapes, Live
  <1>2. HomeOf(f) \in Threads /\ HomeOf(f) # NULL
    BY ThreadFacts DEF HomeOf
  <1>3. f # NULL
    BY FlushAssumption
  <1>4. flush[f].at \in Inside => running[HomeOf(f)] = f
    BY DEF FlushInv, InsideRuns
  <1>5. flush[f].at \in Inside => current[HomeOf(f)] = f
    BY <1>2, <1>3, <1>4 DEF FlushInv, CurrentRuns
  <1>6. flush[f].at \in {"locked", "dropped"} => lock[flush[f].task] = HomeOf(f)
    BY DEF FlushInv, LookIsLocked
  <1>7. QED
    BY <1>1, <1>2, <1>4, <1>5, <1>6 DEF FlushRecord

\* A context is created: it is not inside its function yet, and no thread executes it.
LEMMA CreateStep ==
  ASSUME FlushInv, NEW th \in Threads, NEW f \in Slots, NEW noParams \in BOOLEAN,
         CreateFlush(th, f, noParams)
  PROVE  FlushInv'
  <1> DEFINE r == Head(inbox[th])
             new == [task |-> r[1], out |-> r[2], persisted |-> IF noParams THEN NULL ELSE f,
                     ret |-> "none", at |-> IF noParams THEN "stuck" ELSE "created"]
  <1>1. /\ flush' = [flush EXCEPT ![f] = new] /\ ~ Live(f)
        /\ inbox' = [inbox EXCEPT ![th] = Tail(@)]
        /\ UNCHANGED <<running, current, lock, route>>
    BY DEF CreateFlush
  <1>2. inbox[th] \in Seq(Tasks \X Outs) /\ inbox[th] # << >>
    BY DEF CreateFlush, FlushInv, Shapes
  <1>3. r \in Tasks \X Outs /\ Tail(inbox[th]) \in Seq(Tasks \X Outs)
    BY <1>2, HeadTailProperties
  <1>4. new \in FlushRecord /\ new.at \notin Inside /\ new.at \notin {"locked", "dropped"}
    BY <1>3 DEF FlushRecord, Inside
  <1> HIDE DEF new
  <1>5. Shapes'
    BY <1>1, <1>3, <1>4 DEF FlushInv, Shapes
  <1>6. /\ \A g \in Slots : g # f => flush'[g] = flush[g]
        /\ flush'[f] = new
    BY <1>1 DEF FlushInv, Shapes
  <1>7. CurrentRuns'
    <2>1. \A u \in Threads : running[u] # f
      BY <1>1 DEF FlushInv, Shapes, CurrentRuns
    <2>2. QED
      BY <1>1, <1>6, <2>1 DEF FlushInv, CurrentRuns, Live, HomeOf
  <1>8. InsideRuns'
    BY <1>1, <1>4, <1>6 DEF FlushInv, InsideRuns, Live, HomeOf
  <1>9. LookIsLocked'
    BY <1>1, <1>4, <1>6 DEF FlushInv, LookIsLocked, Live, HomeOf
  <1>10. LookIsFresh'
    BY <1>1, <1>4, <1>6 DEF FlushInv, LookIsFresh, Live, PairOf, flb_task_get_route_status
  <1>11. QED
    BY <1>5, <1>7, <1>8, <1>9, <1>10 DEF FlushInv

\* A context of which only the place and the answer change keeps its task and thread.
LEMMA MoveFacts ==
  ASSUME FlushInv, NEW f \in Slots, Live(f), NEW new \in FlushRecord,
         new.task = flush[f].task, new.out = flush[f].out,
         flush' = [flush EXCEPT ![f] = new]
  PROVE  /\ flush' \in [Slots -> FlushRecord \cup {NULL}] /\ flush'[f] = new
         /\ \A g \in Slots : /\ g # f => flush'[g] = flush[g]
                             /\ Live(g)' <=> Live(g)
                             /\ HomeOf(g)' = HomeOf(g) /\ PairOf(g)' = PairOf(g)
                             /\ flush'[g].task = flush[g].task
  <1>1. flush \in [Slots -> FlushRecord \cup {NULL}]
    BY DEF FlushInv, Shapes
  <1>2. /\ flush' \in [Slots -> FlushRecord \cup {NULL}] /\ flush'[f] = new
        /\ \A g \in Slots : g # f => flush'[g] = flush[g]
    BY <1>1
  <1>3. new # NULL
    BY ContextAssumption
  <1>4. \A g \in Slots : flush'[g].task = flush[g].task /\ flush'[g].out = flush[g].out
    BY <1>2
  <1>5. \A g \in Slots : /\ Live(g)' <=> Live(g)
                         /\ HomeOf(g)' = HomeOf(g) /\ PairOf(g)' = PairOf(g)
    BY <1>2, <1>3, <1>4 DEF Live, HomeOf, PairOf
  <1>6. QED
    BY <1>2, <1>4, <1>5

\* The event loop switches to a coroutine: it was idle, so no other one is inside.
LEMMA ResumeStep ==
  ASSUME FlushInv, NEW f \in Slots, Resume(f)
  PROVE  FlushInv'
  <1> DEFINE new == [flush[f] EXCEPT !.at = IF flush[f].at = "created" THEN "entered"
                                                                       ELSE "flushing"]
  <1>1. PICK h : h = HomeOf(f)
    OBVIOUS
  <1>2. /\ Live(f) /\ running[h] = NULL
        /\ current' = [current EXCEPT ![h] = f] /\ running' = [running EXCEPT ![h] = f]
        /\ flush' = [flush EXCEPT ![f] = new]
        /\ UNCHANGED <<inbox, lock, route>>
    BY <1>1 DEF Resume, Go, Idle
  <1>3. flush[f] \in FlushRecord /\ h \in Threads /\ f # NULL /\ Shapes
    BY <1>1, <1>2, OneFlush, FlushAssumption DEF FlushInv
  <1>4. /\ new \in FlushRecord /\ new.task = flush[f].task /\ new.out = flush[f].out
        /\ new.at \in {"entered", "flushing"}
    BY <1>3 DEF FlushRecord
  <1> HIDE DEF new
  <1>5. /\ flush' \in [Slots -> FlushRecord \cup {NULL}] /\ flush'[f] = new
        /\ \A g \in Slots : /\ g # f => flush'[g] = flush[g]
                            /\ Live(g)' <=> Live(g)
                            /\ HomeOf(g)' = HomeOf(g) /\ PairOf(g)' = PairOf(g)
                            /\ flush'[g].task = flush[g].task
    BY <1>2, <1>4, MoveFacts
  <1>6. Shapes'
    BY <1>2, <1>3, <1>5 DEF Shapes
  <1>7. CurrentRuns'
    <2> SUFFICES ASSUME NEW u \in Threads, NEW g \in Slots, running'[u] = g
                 PROVE  current'[u] = g /\ Live(g)' /\ HomeOf(g)' = u
      BY DEF CurrentRuns
    <2>1. CASE u = h
      BY <2>1, <1>1, <1>2, <1>3, <1>5 DEF Shapes
    <2>2. CASE u # h
      <3>1. running[u] = g /\ current'[u] = current[u]
        BY <2>2, <1>2, <1>3 DEF Shapes
      <3>2. current[u] = g /\ Live(g) /\ HomeOf(g) = u
        BY <3>1 DEF FlushInv, CurrentRuns
      <3>3. QED
        BY <3>1, <3>2, <1>5
    <2>3. QED
      BY <2>1, <2>2
  <1>8. InsideRuns'
    <2> SUFFICES ASSUME NEW g \in Slots, Live(g)', flush'[g].at \in Inside
                 PROVE  running'[HomeOf(g)'] = g
      BY DEF InsideRuns
    <2>1. CASE g = f
      BY <2>1, <1>1, <1>2, <1>3, <1>5 DEF Shapes
    <2>2. CASE g # f
      <3>1. running[HomeOf(g)] = g /\ HomeOf(g) \in Threads
        BY <2>2, <1>5, OneFlush
      <3>2. HomeOf(g) # h
        BY <3>1, <1>2, FlushAssumption
      <3>3. QED
        BY <3>1, <3>2, <1>2, <1>5, <1>3 DEF Shapes
    <2>3. QED
      BY <2>1, <2>2
  <1>9. LookIsLocked'
    BY <1>2, <1>4, <1>5 DEF FlushInv, LookIsLocked
  <1>10. LookIsFresh'
    BY <1>2, <1>4, <1>5 DEF FlushInv, LookIsFresh, flb_task_get_route_status
  <1>11. QED
    BY <1>6, <1>7, <1>8, <1>9, <1>10 DEF FlushInv

\* A step of the coroutine that executes: its thread goes on with it.  Of the lock and
\* the routes the invariant only needs what a look relies on.
LEMMA InsideStep ==
  ASSUME FlushInv, NEW f \in Slots, Live(f), flush[f].at \in Inside, NEW new \in FlushRecord,
         new.task = flush[f].task, new.out = flush[f].out, new.at \in Inside,
         flush' = [flush EXCEPT ![f] = new],
         UNCHANGED <<inbox, running, current>>,
         lock' \in [Tasks -> Threads \cup {NULL}], route' \in [Routes -> RouteStatus],
         LookIsLocked', LookIsFresh'
  PROVE  FlushInv'
  <1>1. /\ flush' \in [Slots -> FlushRecord \cup {NULL}] /\ flush'[f] = new
        /\ \A g \in Slots : /\ g # f => flush'[g] = flush[g]
                            /\ Live(g)' <=> Live(g)
                            /\ HomeOf(g)' = HomeOf(g)
    BY MoveFacts
  <1>2. Shapes'
    BY <1>1 DEF FlushInv, Shapes
  <1>3. CurrentRuns'
    BY <1>1 DEF FlushInv, CurrentRuns
  <1>4. InsideRuns'
    BY <1>1 DEF FlushInv, InsideRuns
  <1>5. QED
    BY <1>2, <1>3, <1>4 DEF FlushInv

\* The lock is taken by at most one thread, and a thread executes one coroutine, so a
\* look under the lock excludes every other look at the same task.
LEMMA OneLook ==
  ASSUME FlushInv, NEW f \in Slots, Live(f), NEW g \in Slots, Live(g),
         flush[f].at \in {"locked", "dropped"}, flush[g].at \in {"locked", "dropped"},
         flush[f].task = flush[g].task
  PROVE  f = g
  <1>1. lock[flush[f].task] = HomeOf(f) /\ running[HomeOf(f)] = f
    BY OneFlush DEF Inside
  <1>2. lock[flush[g].task] = HomeOf(g) /\ running[HomeOf(g)] = g
    BY OneFlush DEF Inside
  <1>3. QED
    BY <1>1, <1>2

\* output_pre_cb_flush takes the lock and looks at the route.
LEMMA LockRouteStep ==
  ASSUME FlushInv, NEW f \in Slots, LockRoute(f)
  PROVE  FlushInv'
  <1> DEFINE at == IF flb_task_get_route_status(PairOf(f)) = "dropped" THEN "dropped" ELSE "locked"
             new == [flush[f] EXCEPT !.at = at]
  <1>1. PICK t, h : t = flush[f].task /\ h = HomeOf(f)
    OBVIOUS
  <1>2. /\ Live(f) /\ flush[f].at = "entered" /\ lock[t] = NULL
        /\ lock' = [lock EXCEPT ![t] = h] /\ flush' = [flush EXCEPT ![f] = new]
        /\ UNCHANGED <<inbox, running, current, route>>
    BY <1>1 DEF LockRoute, Go
  <1>3. flush[f] \in FlushRecord /\ t \in Tasks /\ h \in Threads /\ Shapes
    BY <1>1, <1>2, OneFlush DEF FlushInv
  <1>4. /\ new \in FlushRecord /\ new.task = t /\ new.out = flush[f].out /\ new.at = at
        /\ at \in {"locked", "dropped"}
    BY <1>1, <1>3 DEF FlushRecord
  <1> HIDE DEF new
  <1>5. /\ flush'[f] = new
        /\ \A g \in Slots : /\ g # f => flush'[g] = flush[g]
                            /\ Live(g)' <=> Live(g)
                            /\ HomeOf(g)' = HomeOf(g) /\ PairOf(g)' = PairOf(g)
                            /\ flush'[g].task = flush[g].task
    BY <1>1, <1>2, <1>4, MoveFacts
  <1>6. lock' \in [Tasks -> Threads \cup {NULL}]
    BY <1>2, <1>3 DEF Shapes
  <1>7. LookIsLocked'
    <2> SUFFICES ASSUME NEW g \in Slots, Live(g)', flush'[g].at \in {"locked", "dropped"}
                 PROVE  lock'[flush'[g].task] = HomeOf(g)'
      BY DEF LookIsLocked
    <2>1. CASE g = f
      BY <2>1, <1>1, <1>2, <1>3, <1>5 DEF Shapes
    <2>2. CASE g # f
      <3>1. lock[flush[g].task] = HomeOf(g) /\ HomeOf(g) # NULL /\ flush[g].task \in Tasks
        BY <2>2, <1>5, OneFlush
      <3>2. flush[g].task # t
        BY <3>1, <1>2
      <3>3. QED
        BY <3>1, <3>2, <1>2, <1>3, <1>5 DEF Shapes
    <2>3. QED
      BY <2>1, <2>2
  <1>8. LookIsFresh'
    <2>1. \A r : flb_task_get_route_status(r)' = flb_task_get_route_status(r)
      BY <1>2 DEF flb_task_get_route_status
    <2>2. at = "locked" => flb_task_get_route_status(PairOf(f)) # "dropped"
      OBVIOUS
    <2>3. ASSUME NEW g \in Slots, Live(g)', flush'[g].at = "locked"
          PROVE  flb_task_get_route_status(PairOf(g)) # "dropped"
      BY <2>2, <2>3, <1>4, <1>5 DEF FlushInv, LookIsFresh
    <2>4. QED
      BY <2>3, <1>2, <1>5 DEF LookIsFresh, flb_task_get_route_status
  <1>9. QED
    BY <1>1, <1>2, <1>3, <1>4, <1>6, <1>7, <1>8, InsideStep DEF Inside, Shapes

\* The lock is given back: the other looks are at other tasks.
LEMMA UnlockKeepsLooks ==
  ASSUME FlushInv, NEW f \in Slots, Live(f), flush[f].at \in {"locked", "dropped"},
         NEW new \in FlushRecord, new.task = flush[f].task, new.out = flush[f].out,
         new.at \in Inside \ {"locked", "dropped"},
         flush' = [flush EXCEPT ![f] = new], lock' = [lock EXCEPT ![flush[f].task] = NULL]
  PROVE  lock' \in [Tasks -> Threads \cup {NULL}] /\ LookIsLocked'
  <1>1. /\ flush'[f] = new
        /\ \A g \in Slots : /\ g # f => flush'[g] = flush[g]
                            /\ Live(g)' <=> Live(g)
                            /\ HomeOf(g)' = HomeOf(g)
                            /\ flush'[g].task = flush[g].task
    BY MoveFacts
  <1>2. lock \in [Tasks -> Threads \cup {NULL}]
    BY DEF FlushInv, Shapes
  <1>3. ASSUME NEW g \in Slots, Live(g)', flush'[g].at \in {"locked", "dropped"}
        PROVE  lock'[flush'[g].task] = HomeOf(g)'
    <2>1. g # f /\ Live(g) /\ flush[g].at \in {"locked", "dropped"}
      BY <1>1, <1>3
    <2>2. flush[g].task # flush[f].task
      BY <2>1, OneLook
    <2>3. lock[flush[g].task] = HomeOf(g) /\ flush[g].task \in Tasks
      BY <2>1, OneFlush
    <2>4. QED
      BY <2>2, <2>3, <1>1, <1>2
  <1>4. QED
    BY <1>2, <1>3 DEF LookIsLocked

\* A step that drops no route leaves every look fresh.
LEMMA NoDropStep ==
  ASSUME FlushInv, NEW f \in Slots, Live(f), NEW new \in FlushRecord,
         new.task = flush[f].task, new.out = flush[f].out, new.at # "locked",
         flush' = [flush EXCEPT ![f] = new],
         \A p \in Routes : route[p] # "dropped" => route'[p] # "dropped"
  PROVE  LookIsFresh'
  <1>1. /\ flush'[f] = new
        /\ \A g \in Slots : /\ g # f => flush'[g] = flush[g]
                            /\ Live(g)' <=> Live(g)
                            /\ PairOf(g)' = PairOf(g)
    BY MoveFacts
  <1>2. ASSUME NEW g \in Slots, Live(g)', flush'[g].at = "locked"
        PROVE  PairOf(g)' \in Routes => route'[PairOf(g)'] # "dropped"
    <2>1. flb_task_get_route_status(PairOf(g)) # "dropped"
      BY <1>1, <1>2 DEF FlushInv, LookIsFresh
    <2>2. QED
      BY <2>1, <1>1 DEF flb_task_get_route_status
  <1>3. QED
    BY <1>2 DEF LookIsFresh, flb_task_get_route_status

\* The route is activated, the lock released and the plugin called.
LEMMA CallFlushStep ==
  ASSUME FlushInv, NEW f \in Slots, CallFlush(f)
  PROVE  FlushInv'
  <1> DEFINE new == [flush[f] EXCEPT !.at = "flushing"]
  <1>1. /\ Live(f) /\ flush[f].at = "locked" /\ flush' = [flush EXCEPT ![f] = new]
        /\ lock' = [lock EXCEPT ![flush[f].task] = NULL]
        /\ route' = flb_task_set_route_status(PairOf(f), "active")
        /\ UNCHANGED <<inbox, running, current>>
    BY DEF CallFlush, Go, flb_task_activate_route
  <1>2. flush[f] \in FlushRecord
    BY <1>1, OneFlush
  <1>3. new \in FlushRecord /\ new.task = flush[f].task /\ new.out = flush[f].out /\ new.at = "flushing"
    BY <1>2 DEF FlushRecord
  <1> HIDE DEF new
  <1>4. lock' \in [Tasks -> Threads \cup {NULL}] /\ LookIsLocked'
    BY <1>1, <1>3, UnlockKeepsLooks DEF Inside
  <1>5. /\ route' \in [Routes -> RouteStatus]
        /\ \A p \in Routes : route[p] # "dropped" => route'[p] # "dropped"
    BY <1>1, StatusType DEF RouteStatus, flb_task_set_route_status, FlushInv
  <1>6. LookIsFresh'
    BY <1>1, <1>3, <1>5, NoDropStep
  <1>7. QED
    BY <1>1, <1>3, <1>4, <1>5, <1>6, InsideStep DEF Inside

\* A dropped route is refused, and the lock released.
LEMMA RefuseStep ==
  ASSUME FlushInv, NEW f \in Slots, RefuseDropped(f)
  PROVE  FlushInv'
  <1> DEFINE new == [flush[f] EXCEPT !.at = "refused", !.ret = "error"]
  <1>2. flush[f] \in FlushRecord /\ flush \in [Slots -> FlushRecord \cup {NULL}]
    BY OneFlush DEF RefuseDropped, FlushInv, Shapes
  <1>3. new \in FlushRecord /\ new.task = flush[f].task /\ new.out = flush[f].out /\ new.at = "refused"
    BY <1>2 DEF FlushRecord
  <1>1. /\ Live(f) /\ flush[f].at = "dropped" /\ flush' = [flush EXCEPT ![f] = new]
        /\ lock' = [lock EXCEPT ![flush[f].task] = NULL]
        /\ UNCHANGED <<inbox, running, current, route>>
    BY <1>2 DEF RefuseDropped
  <1> HIDE DEF new
  <1>4. lock' \in [Tasks -> Threads \cup {NULL}] /\ LookIsLocked'
    BY <1>1, <1>3, UnlockKeepsLooks DEF Inside
  <1>5. route' \in [Routes -> RouteStatus] /\ LookIsFresh'
    BY <1>1, <1>3, NoDropStep DEF FlushInv, Shapes
  <1>6. QED
    BY <1>1, <1>3, <1>4, <1>5, InsideStep DEF Inside

\* A step that moves a context to a place where no look is under way, without the lock.
LEMMA NoLookStep ==
  ASSUME FlushInv, NEW f \in Slots, Live(f), NEW new \in FlushRecord,
         new.task = flush[f].task, new.out = flush[f].out, new.at \notin {"locked", "dropped"},
         flush' = [flush EXCEPT ![f] = new], lock' = lock
  PROVE  lock' \in [Tasks -> Threads \cup {NULL}] /\ LookIsLocked'
  <1>1. /\ flush'[f] = new
        /\ \A g \in Slots : /\ g # f => flush'[g] = flush[g]
                            /\ Live(g)' <=> Live(g)
                            /\ HomeOf(g)' = HomeOf(g)
                            /\ flush'[g].task = flush[g].task
    BY MoveFacts
  <1>2. QED
    BY <1>1 DEF FlushInv, Shapes, LookIsLocked

\* FLB_OUTPUT_RETURN ends the flush of flb_coro_get(), which is the one that executes.
LEMMA FinishStep ==
  ASSUME FlushInv, NEW th \in Threads, NEW ret \in {"ok", "retry"}, Finish(th, ret)
  PROVE  FlushInv'
  <1>1. PICK f \in Slots : running[th] = f
    BY DEF Finish, Idle, FlushInv, Shapes
  <1>2. current[th] = f /\ Live(f) /\ HomeOf(f) = th
    BY <1>1 DEF FlushInv, CurrentRuns
  <1> DEFINE new == [flush[f] EXCEPT !.at = "returning", !.ret = ret]
  <1>3. flush[f] \in FlushRecord /\ flush \in [Slots -> FlushRecord \cup {NULL}]
    BY <1>2, OneFlush DEF FlushInv, Shapes
  <1>4. /\ new \in FlushRecord /\ new.task = flush[f].task /\ new.out = flush[f].out
        /\ new.at = "returning"
    BY <1>3 DEF FlushRecord
  <1>5. /\ flush[f].at = "flushing" /\ flush' = [flush EXCEPT ![f] = new]
        /\ UNCHANGED <<inbox, running, current, route, lock>>
    BY <1>1, <1>2, <1>3 DEF Finish
  <1> HIDE DEF new
  <1>6. lock' \in [Tasks -> Threads \cup {NULL}] /\ LookIsLocked'
    BY <1>2, <1>4, <1>5, NoLookStep
  <1>7. route' \in [Routes -> RouteStatus] /\ LookIsFresh'
    BY <1>2, <1>4, <1>5, NoDropStep DEF FlushInv, Shapes
  <1>8. QED
    BY <1>2, <1>4, <1>5, <1>6, <1>7, InsideStep DEF Inside

\* flb_output_return deactivates the route.
LEMMA NotifyStep ==
  ASSUME FlushInv, NEW f \in Slots, NEW written \in BOOLEAN, Notify(f, written)
  PROVE  FlushInv'
  <1> DEFINE new == [flush[f] EXCEPT !.at = "notified", !.ret = "none"]
  <1>1. flush[f] \in FlushRecord /\ flush \in [Slots -> FlushRecord \cup {NULL}]
    BY OneFlush DEF Notify, FlushInv, Shapes
  <1>2. new \in FlushRecord /\ new.task = flush[f].task /\ new.out = flush[f].out /\ new.at = "notified"
    BY <1>1 DEF FlushRecord
  <1>3. /\ Live(f) /\ flush[f].at \in {"returning", "refused"} /\ flush' = [flush EXCEPT ![f] = new]
        /\ route' = flb_task_set_route_status(PairOf(f), "inactive")
        /\ UNCHANGED <<inbox, running, current, lock>>
    BY <1>1 DEF Notify, flb_task_deactivate_route
  <1> HIDE DEF new
  <1>4. lock' \in [Tasks -> Threads \cup {NULL}] /\ LookIsLocked'
    BY <1>2, <1>3, NoLookStep
  <1>5. /\ route' \in [Routes -> RouteStatus]
        /\ \A p \in Routes : route[p] # "dropped" => route'[p] # "dropped"
    BY <1>3, StatusType DEF RouteStatus, flb_task_set_route_status, FlushInv
  <1>6. LookIsFresh'
    BY <1>2, <1>3, <1>5, NoDropStep
  <1>7. QED
    BY <1>2, <1>3, <1>4, <1>5, <1>6, InsideStep DEF Inside

\* The coroutine that executes gives its thread back to the event loop: no other one of
\* that thread is inside.
LEMMA LeaveStep ==
  ASSUME FlushInv, NEW f \in Slots, Live(f), running[HomeOf(f)] = f,
         NEW at \in {"waiting", "destroying"},
         flush' = [flush EXCEPT ![f].at = at],
         running' = [running EXCEPT ![HomeOf(f)] = NULL],
         UNCHANGED <<inbox, current, route, lock>>
  PROVE  FlushInv'
  <1> DEFINE new == [flush[f] EXCEPT !.at = at]
  <1>1. PICK h : h = HomeOf(f)
    OBVIOUS
  <1>2. /\ flush[f] \in FlushRecord /\ flush \in [Slots -> FlushRecord \cup {NULL}]
        /\ h \in Threads /\ f # NULL
        /\ running \in [Threads -> Slots \cup {NULL}]
    BY <1>1, OneFlush, FlushAssumption DEF FlushInv, Shapes
  <1>3. new \in FlushRecord /\ new.task = flush[f].task /\ new.out = flush[f].out /\ new.at = at
    BY <1>2 DEF FlushRecord
  <1>4. flush' = [flush EXCEPT ![f] = new] /\ running' = [running EXCEPT ![h] = NULL]
    BY <1>1
  <1> HIDE DEF new
  <1>5. /\ flush' \in [Slots -> FlushRecord \cup {NULL}] /\ flush'[f] = new
        /\ \A g \in Slots : /\ g # f => flush'[g] = flush[g]
                            /\ Live(g)' <=> Live(g)
                            /\ HomeOf(g)' = HomeOf(g)
    BY <1>3, <1>4, MoveFacts
  <1>6. Shapes'
    BY <1>2, <1>4, <1>5 DEF FlushInv, Shapes
  <1>7. CurrentRuns'
    <2> SUFFICES ASSUME NEW u \in Threads, NEW g \in Slots, running'[u] = g
                 PROVE  current'[u] = g /\ Live(g)' /\ HomeOf(g)' = u
      BY DEF CurrentRuns
    <2>1. running[u] = g /\ NULL \notin Slots
      BY <1>2, <1>4, FlushAssumption
    <2>2. QED
      BY <2>1, <1>5 DEF FlushInv, CurrentRuns
  <1>8. InsideRuns'
    <2> SUFFICES ASSUME NEW g \in Slots, Live(g)', flush'[g].at \in Inside
                 PROVE  running'[HomeOf(g)'] = g
      BY DEF InsideRuns
    <2>1. g # f
      BY <1>3, <1>5 DEF Inside
    <2>2. running[HomeOf(g)] = g /\ HomeOf(g) \in Threads
      BY <2>1, <1>5, OneFlush
    <2>3. HomeOf(g) # h
      BY <2>1, <2>2, <1>1
    <2>4. QED
      BY <2>2, <2>3, <1>2, <1>4, <1>5
  <1>9. LookIsLocked'
    BY <1>3, <1>4, NoLookStep
  <1>10. LookIsFresh'
    BY <1>3, <1>4, NoDropStep
  <1>11. QED
    BY <1>6, <1>7, <1>8, <1>9, <1>10 DEF FlushInv

\* A context is freed by an event loop that executes no coroutine.
LEMMA DestroyStep ==
  ASSUME FlushInv, NEW f \in Slots, DestroyFlush(f)
  PROVE  FlushInv'
  <1>1. /\ Live(f) /\ running[HomeOf(f)] = NULL /\ flush' = [flush EXCEPT ![f] = NULL]
        /\ UNCHANGED <<inbox, running, current, route, lock>>
    BY DEF DestroyFlush, Idle
  <1>2. flush \in [Slots -> FlushRecord \cup {NULL}] /\ f # NULL
    BY FlushAssumption DEF FlushInv, Shapes
  <1>3. flush'[f] = NULL /\ \A g \in Slots : g # f => flush'[g] = flush[g]
    BY <1>1, <1>2
  <1>4. Shapes'
    BY <1>1 DEF FlushInv, Shapes
  <1>5. \A u \in Threads : running[u] # f
    BY <1>1, <1>2 DEF FlushInv, CurrentRuns
  <1>6. CurrentRuns'
    BY <1>1, <1>3, <1>5 DEF FlushInv, CurrentRuns, Live, HomeOf
  <1>7. InsideRuns'
    BY <1>1, <1>3 DEF FlushInv, InsideRuns, Live, HomeOf
  <1>8. LookIsLocked'
    BY <1>1, <1>3 DEF FlushInv, LookIsLocked, Live, HomeOf
  <1>9. LookIsFresh'
    BY <1>1, <1>3 DEF FlushInv, LookIsFresh, Live, PairOf, flb_task_get_route_status
  <1>10. QED
    BY <1>4, <1>6, <1>7, <1>8, <1>9 DEF FlushInv

\* The engine drops a route only when it gets the lock: no look at that task is under way.
LEMMA DropStep ==
  ASSUME FlushInv, NEW r \in Routes, DropRoute(r)
  PROVE  FlushInv'
  <1>1. /\ lock[r[1]] = NULL /\ route' = flb_task_set_route_status(r, "dropped")
        /\ UNCHANGED <<inbox, flush, running, current, lock>>
    BY DEF DropRoute, flb_task_drop_route
  <1>2. route' \in [Routes -> RouteStatus]
    BY <1>1, StatusType DEF FlushInv, RouteStatus
  <1>3. Shapes'
    BY <1>1, <1>2 DEF FlushInv, Shapes
  <1>4. ASSUME NEW g \in Slots, Live(g), flush[g].at = "locked"
        PROVE  PairOf(g) \in Routes => route'[PairOf(g)] # "dropped"
    <2>1. lock[flush[g].task] = HomeOf(g) /\ HomeOf(g) # NULL
      BY <1>4, OneFlush
    <2>2. PairOf(g) # r
      BY <2>1, <1>1 DEF PairOf
    <2>3. flb_task_get_route_status(PairOf(g)) # "dropped"
      BY <1>4 DEF FlushInv, LookIsFresh
    <2>4. QED
      BY <2>2, <2>3, <1>1 DEF flb_task_set_route_status, flb_task_get_route_status
  <1>5. LookIsFresh'
    BY <1>1, <1>4 DEF LookIsFresh, Live, PairOf, flb_task_get_route_status
  <1>6. CurrentRuns' /\ InsideRuns' /\ LookIsLocked'
    BY <1>1 DEF FlushInv, CurrentRuns, InsideRuns, LookIsLocked, Live, HomeOf
  <1>7. QED
    BY <1>3, <1>5, <1>6 DEF FlushInv

-----------------------------------------------------------------------------
\* At the start nobody has asked for anything.
LEMMA FlushInitially == ASSUME FlushInit PROVE FlushInv
  <1>1. inbox \in [Threads -> Seq(Tasks \X Outs)]
    BY EmptySeq DEF FlushInit
  <1>2. Shapes
    BY <1>1 DEF FlushInit, Shapes, RouteStatus
  <1>3. CurrentRuns
    BY FlushAssumption DEF FlushInit, CurrentRuns
  <1>4. InsideRuns /\ LookIsLocked /\ LookIsFresh
    BY DEF FlushInit, InsideRuns, LookIsLocked, LookIsFresh, Live
  <1>5. QED
    BY <1>2, <1>3, <1>4 DEF FlushInv

\* Every action keeps the invariant.
LEMMA FlushStep == ASSUME FlushInv, [FlushNext]_flushVars PROVE FlushInv'
  <1> USE DEF flushVars
  <1>1. CASE UNCHANGED flushVars
    <2>1. Shapes'
      BY <1>1 DEF FlushInv, Shapes
    <2>2. QED
      BY <1>1, <2>1, FrameStep
  <1>2. ASSUME NEW t \in Tasks, StartTask(t) PROVE FlushInv'
    <2>1. Shapes'
      BY <1>2, StartTaskType DEF FlushInv
    <2>2. QED
      BY <1>2, <2>1, FrameStep DEF StartTask
  <1>3. ASSUME NEW t \in Tasks, NEW o \in Outs, RetryTask(t, o) PROVE FlushInv'
    <2>1. ThreadOf(o) \in Threads /\ inbox \in [Threads -> Seq(Tasks \X Outs)]
      BY ThreadFacts DEF FlushInv, Shapes
    <2>2. Append(inbox[ThreadOf(o)], <<t, o>>) \in Seq(Tasks \X Outs)
      BY <2>1, AppendProperties
    <2>3. inbox' \in [Threads -> Seq(Tasks \X Outs)]
      BY <1>3, <2>1, <2>2 DEF RetryTask
    <2>4. Shapes'
      BY <1>3, <2>3 DEF FlushInv, Shapes, RetryTask
    <2>5. QED
      BY <1>3, <2>4, FrameStep DEF RetryTask
  <1>4. ASSUME NEW th \in Threads, CreateFails(th) PROVE FlushInv'
    <2>1. inbox[th] \in Seq(Tasks \X Outs) /\ inbox[th] # << >>
      BY <1>4 DEF CreateFails, FlushInv, Shapes
    <2>2. Tail(inbox[th]) \in Seq(Tasks \X Outs)
      BY <2>1, HeadTailProperties
    <2>3. inbox' = [inbox EXCEPT ![th] = Tail(@)] /\ UNCHANGED <<flush, running, current, lock, route>>
      BY <1>4 DEF CreateFails
    <2>4. Shapes'
      BY <2>2, <2>3 DEF FlushInv, Shapes
    <2>5. QED
      BY <2>3, <2>4, FrameStep
  <1>5. ASSUME NEW th \in Threads, Forward(th) PROVE FlushInv'
    <2>1. UNCHANGED <<inbox, flush, running, current, lock, route>>
      BY <1>5 DEF Forward
    <2>2. Shapes'
      BY <2>1 DEF FlushInv, Shapes
    <2>3. QED
      BY <2>1, <2>2, FrameStep
  <1>6. CASE HandleReturn
    <2>1. UNCHANGED <<inbox, flush, running, current, lock, route>>
      BY <1>6 DEF HandleReturn
    <2>2. Shapes'
      BY <2>1 DEF FlushInv, Shapes
    <2>3. QED
      BY <2>1, <2>2, FrameStep
  <1>7. ASSUME NEW f \in Slots, Yield(f) PROVE FlushInv'
    BY <1>7, LeaveStep DEF Yield, Go
  <1>8. ASSUME NEW f \in Slots, PrepareDestroy(f) PROVE FlushInv'
    <2>1. Live(f) /\ flush[f].at = "notified"
      BY <1>8 DEF PrepareDestroy
    <2>2. running[HomeOf(f)] = f
      BY <2>1, OneFlush DEF Inside
    <2>3. QED
      BY <1>8, <2>2, LeaveStep DEF PrepareDestroy, Go
  <1>9. ASSUME NEW f \in Slots, CoroutineStep(f) PROVE FlushInv'
    BY <1>9, <1>8, ResumeStep, LockRouteStep, CallFlushStep, RefuseStep, NotifyStep, DestroyStep
       DEF CoroutineStep
  <1>10. QED
    BY <1>1, <1>2, <1>3, <1>4, <1>5, <1>6, <1>7, <1>9, CreateStep, FinishStep, NotifyStep, DropStep
       DEF FlushNext

\* Only the step that calls the plugin starts a flush, and its look was fresh.
LEMMA FlushStartsFresh ==
  ASSUME FlushInv, [FlushNext]_flushVars, NEW f \in Slots, Live(f), Live(f)',
         flush[f].at # "flushing", flush[f].at # "waiting", flush'[f].at = "flushing"
  PROVE  flb_task_get_route_status(PairOf(f)) # "dropped"
  <1>1. flush \in [Slots -> FlushRecord \cup {NULL}] /\ flush[f] \in FlushRecord
    BY OneFlush DEF FlushInv, Shapes
  <1>2. CASE UNCHANGED flush
    BY <1>2
  <1>3. ASSUME NEW th \in Threads, NEW g \in Slots, NEW noParams \in BOOLEAN,
               CreateFlush(th, g, noParams)
        PROVE  FALSE
    <2>1. g # f
      BY <1>3 DEF CreateFlush
    <2>2. flush'[f] = flush[f]
      BY <1>1, <1>3, <2>1 DEF CreateFlush
    <2>3. QED
      BY <2>2
  <1>4. ASSUME NEW g \in Slots, NEW at, flush' = Go(g, at), at = "flushing" => g # f
        PROVE  FALSE
    BY <1>1, <1>4 DEF Go, FlushRecord
  <1>5. ASSUME NEW g \in Slots, Resume(g) PROVE FALSE
    <2>1. g = f => flush[f].at = "created"
      BY <1>5 DEF Resume
    <2>2. QED
      BY <1>4, <1>5, <2>1 DEF Resume
  <1>6. ASSUME NEW g \in Slots, LockRoute(g) \/ PrepareDestroy(g) \/ Yield(g) PROVE FALSE
    BY <1>4, <1>6 DEF LockRoute, PrepareDestroy, Yield
  <1>7. ASSUME NEW g \in Slots, CallFlush(g)
        PROVE  flb_task_get_route_status(PairOf(f)) # "dropped"
    <2>1. g = f /\ flush[f].at = "locked"
      BY <1>4, <1>7 DEF CallFlush
    <2>2. QED
      BY <2>1 DEF FlushInv, LookIsFresh
  <1>8. ASSUME NEW g \in Slots, NEW at, NEW ret, at # "flushing",
               flush' = [flush EXCEPT ![g].at = at, ![g].ret = ret]
        PROVE  FALSE
    BY <1>1, <1>8 DEF FlushRecord
  <1>9. ASSUME NEW g \in Slots, RefuseDropped(g) \/ \E written \in BOOLEAN : Notify(g, written)
        PROVE  FALSE
    <2>1. CASE RefuseDropped(g)
      <3>1. flush' = [flush EXCEPT ![g].at = "refused", ![g].ret = "error"]
        BY <2>1 DEF RefuseDropped
      <3>2. QED
        BY <3>1, <1>8
    <2>2. CASE \E written \in BOOLEAN : Notify(g, written)
      <3>1. flush' = [flush EXCEPT ![g].at = "notified", ![g].ret = "none"]
        BY <2>2 DEF Notify
      <3>2. QED
        BY <3>1, <1>8
    <2>3. QED
      BY <1>9, <2>1, <2>2
  <1>10. ASSUME NEW th \in Threads, NEW ret \in {"ok", "retry"}, Finish(th, ret) PROVE FALSE
    <2>1. PICK g \in Slots : running[th] = g
      BY <1>10 DEF Finish, Idle, FlushInv, Shapes
    <2>2. current[th] = g
      BY <2>1 DEF FlushInv, CurrentRuns
    <2>3. QED
      BY <1>8, <1>10, <2>2 DEF Finish
  <1>11. ASSUME NEW g \in Slots, DestroyFlush(g) PROVE FALSE
    <2>1. g # f
      BY <1>1, <1>11 DEF DestroyFlush, Live
    <2>2. flush'[f] = flush[f]
      BY <1>1, <1>11, <2>1 DEF DestroyFlush
    <2>3. QED
      BY <2>2
  <1>12. ASSUME \/ \E t \in Tasks : StartTask(t) \/ \E o \in Outs : RetryTask(t, o)
                \/ \E th \in Threads : CreateFails(th) \/ Forward(th)
                \/ HandleReturn \/ (\E r \in Routes : DropRoute(r)) \/ UNCHANGED flushVars
         PROVE  UNCHANGED flush
    BY <1>12 DEF StartTask, RetryTask, CreateFails, Forward, HandleReturn, DropRoute, flushVars
  <1>13. QED
    BY <1>2, <1>3, <1>5, <1>6, <1>7, <1>9, <1>10, <1>11, <1>12 DEF FlushNext, CoroutineStep

-----------------------------------------------------------------------------
\* A route that is dropped before its flush looked is never given to the plugin, whatever
\* the number of tasks, outputs and worker threads (flb_output.h:573-583).
THEOREM DroppedRoutesStayDropped == FlushSpec => DroppedIsNotFlushed
  <1>1. FlushInv /\ [FlushNext]_flushVars =>
          [\A f \in Slots : (Live(f) /\ Live(f)' /\ flush[f].at # "flushing" /\ flush[f].at # "waiting"
              /\ flush'[f].at = "flushing") => flb_task_get_route_status(PairOf(f)) # "dropped"]_flushVars
    BY FlushStartsFresh
  <1>2. QED
    BY <1>1, FlushInitially, FlushStep, PTL DEF FlushSpec, DroppedIsNotFlushed

-----------------------------------------------------------------------------
(* Queues of threads: requests and return events are counted by their places. *)

\* The places in the threads' queues that hold a member of X.
Marks(box, X) == {m \in Threads \X Nat : m[2] \in 1 .. Len(box[m[1]]) /\ box[m[1]][m[2]] \in X}

\* Empty queues have no places.
LEMMA NoMarks == ASSUME NEW box, box = [th \in Threads |-> << >>], NEW X PROVE Marks(box, X) = {}
  <1>1. \A m \in Threads \X Nat : Len(box[m[1]]) = 0
    BY EmptySeq
  <1>2. QED
    BY <1>1 DEF Marks

AtMostOne(M) == \A x, y \in M : x = y

\* Two sets of which one is the image of the other, without merging, are of one size.
LEMMA SameSize ==
  ASSUME NEW S, IsFiniteSet(S), NEW T, NEW F \in [S -> T],
         \A x, y \in S : F[x] = F[y] => x = y, \A y \in T : \E x \in S : F[x] = y
  PROVE  IsFiniteSet(T) /\ Cardinality(T) = Cardinality(S)
  <1>1. F \in Surjection(S, T)
    BY DEF Surjection
  <1>2. F \in Injection(S, T)
    BY DEF Injection, IsInjective
  <1>3. QED
    BY <1>1, <1>2, FS_Surjection

\* What an element put at the end of a thread's queue does to the places.
Grows(old, new, place, inX) ==
  /\ new = IF inX THEN old \cup {place} ELSE old
  /\ place \notin old

LEMMA AppendMarks ==
  ASSUME NEW S, NEW box \in [Threads -> Seq(S)], NEW th \in Threads, NEW e \in S, NEW X,
         NEW new, new[th] = Append(box[th], e), \A u \in Threads : u # th => new[u] = box[u]
  PROVE  Grows(Marks(box, X), Marks(new, X), <<th, Len(box[th]) + 1>>, e \in X)
  <1> DEFINE n == Len(box[th])
             s == Append(box[th], e)
  <1>1. n \in Nat /\ box[th] \in Seq(S)
    BY LenProperties
  <1>2. Len(s) = n + 1 /\ s[n + 1] = e /\ \A i \in 1 .. n : s[i] = box[th][i]
    BY <1>1, AppendProperties
  <1>3. new[th] = s /\ \A u \in Threads : u # th => new[u] = box[u]
    OBVIOUS
  <1> HIDE DEF s
  <1>4. ASSUME NEW m \in Threads \X Nat, m[1] # th PROVE m \in Marks(new, X) <=> m \in Marks(box, X)
    BY <1>3, <1>4 DEF Marks
  <1>5. ASSUME NEW i \in Nat
        PROVE  <<th, i>> \in Marks(new, X) <=> (<<th, i>> \in Marks(box, X) \/ (i = n + 1 /\ e \in X))
    <2>1. i \in 1 .. n + 1 <=> i \in 1 .. n \/ i = n + 1
      BY <1>1
    <2>2. ~ (n + 1 \in 1 .. n)
      BY <1>1
    <2> HIDE DEF n
    <2>3. QED
      BY <1>2, <1>3, <2>1, <2>2 DEF Marks, n
  <1>6. \A m \in Threads \X Nat : m = <<m[1], m[2]>> /\ m[1] \in Threads /\ m[2] \in Nat
    OBVIOUS
  <1>7. n + 1 \in Nat /\ <<th, n + 1>> \in Threads \X Nat
    BY <1>1
  <1>8. ASSUME NEW m \in Threads \X Nat
        PROVE  m \in Marks(new, X) <=> (m \in Marks(box, X) \/ (m = <<th, n + 1>> /\ e \in X))
    <2>1. CASE m[1] # th
      BY <1>4, <2>1
    <2>2. CASE m[1] = th
      <3>1. m = <<th, m[2]>> /\ m[2] \in Nat
        BY <1>6, <2>2
      <3>2. m = <<th, n + 1>> <=> m[2] = n + 1
        BY <3>1
      <3> HIDE DEF n
      <3>3. QED
        BY <1>5, <3>1, <3>2
    <2>3. QED
      BY <2>1, <2>2
  <1>9. Marks(new, X) \subseteq Threads \X Nat /\ Marks(box, X) \subseteq Threads \X Nat
    BY DEF Marks
  <1> HIDE DEF n
  <1>10. Marks(new, X) = IF e \in X THEN Marks(box, X) \cup {<<th, n + 1>>} ELSE Marks(box, X)
    <2>1. CASE e \in X
      BY <1>7, <1>8, <1>9, <2>1
    <2>2. CASE e \notin X
      BY <1>8, <1>9, <2>2
    <2>3. QED
      BY <2>1, <2>2
  <1>11. <<th, n + 1>> \notin Marks(box, X)
    <2>1. ~ (n + 1 \in 1 .. n)
      BY <1>1 DEF n
    <2>2. QED
      BY <2>1 DEF Marks, n
  <1>12. QED
    BY <1>10, <1>11 DEF n, Grows

\* What the first element's leaving does to the places.
Shifts(old, new, th, inX) ==
  /\ new # {} => old # {}
  /\ \A y \in new : \E x \in old : x[1] = y[1]
  /\ AtMostOne(old) => AtMostOne(new) /\ (inX => new = {})
  /\ inX => \E x \in old : x[1] = th
  /\ IsFiniteSet(old) => /\ IsFiniteSet(new)
                         /\ Cardinality(new) = IF inX THEN Cardinality(old) - 1 ELSE Cardinality(old)

LEMMA TailMarks ==
  ASSUME NEW S, NEW box \in [Threads -> Seq(S)], NEW th \in Threads, box[th] # << >>, NEW X
  PROVE  Shifts(Marks(box, X), Marks([box EXCEPT ![th] = Tail(@)], X), th, Head(box[th]) \in X)
  <1> DEFINE s == Tail(box[th])
             new == [box EXCEPT ![th] = s]
             first == <<th, 1>>
             back(m) == IF m[1] = th THEN <<th, m[2] + 1>> ELSE m
  <1>1. box[th] \in Seq(S) /\ Len(box[th]) \in Nat \ {0} /\ Head(box[th]) = box[th][1]
    BY EmptySeq
  <1>2. Len(s) = Len(box[th]) - 1 /\ \A i \in 1 .. Len(s) : s[i] = box[th][i + 1]
    BY <1>1, HeadTailProperties
  <1>3. new[th] = s /\ \A u \in Threads : u # th => new[u] = box[u]
    OBVIOUS
  <1> HIDE DEF s, new
  <1>4. ASSUME NEW m \in Threads \X Nat, m \in Marks(new, X)
        PROVE  back(m) \in Marks(box, X) /\ back(m) # first /\ back(m)[1] = m[1]
    <2>1. CASE m[1] # th
      BY <1>3, <1>4, <2>1 DEF Marks
    <2>2. CASE m[1] = th
      <3>1. m[2] \in Nat /\ m[2] \in 1 .. Len(s) /\ s[m[2]] \in X
        BY <1>3, <1>4, <2>2 DEF Marks
      <3>2. m[2] + 1 \in 1 .. Len(box[th]) /\ m[2] + 1 # 1 /\ m[2] + 1 \in Nat
        BY <1>1, <1>2, <3>1
      <3>3. box[th][m[2] + 1] \in X
        BY <1>2, <3>1
      <3>4. QED
        BY <2>2, <3>2, <3>3 DEF Marks
    <2>3. QED
      BY <2>1, <2>2
  <1>5. ASSUME NEW x \in Marks(box, X), x # first
        PROVE  \E m \in Marks(new, X) : back(m) = x
    <2>1. x \in Threads \X Nat /\ x = <<x[1], x[2]>>
      BY DEF Marks
    <2>2. CASE x[1] # th
      <3>1. x \in Marks(new, X) /\ back(x) = x
        BY <1>3, <2>1, <2>2 DEF Marks
      <3>2. QED
        BY <3>1
    <2>3. CASE x[1] = th
      <3>1. x[2] \in 1 .. Len(box[th]) /\ box[th][x[2]] \in X /\ x[2] # 1 /\ x[2] \in Nat
        BY <1>5, <2>1, <2>3 DEF Marks
      <3>2. PICK k \in Nat : k = x[2] - 1
        BY <1>1, <3>1
      <3>3. k \in 1 .. Len(s) /\ k + 1 = x[2]
        BY <1>1, <1>2, <3>1, <3>2
      <3>4. s[k] \in X
        BY <1>2, <3>1, <3>3
      <3>5. <<th, k>> \in Marks(new, X)
        BY <1>3, <3>3, <3>4 DEF Marks
      <3>6. back(<<th, k>>) = x
        BY <2>1, <2>3, <3>3
      <3>7. QED
        BY <3>5, <3>6
    <2>4. QED
      BY <2>2, <2>3
  <1>6. first \in Marks(box, X) <=> Head(box[th]) \in X
    <2>1. 1 \in 1 .. Len(box[th]) /\ first \in Threads \X Nat
      BY <1>1
    <2>2. QED
      BY <1>1, <2>1 DEF Marks
  <1>7. ASSUME NEW m \in Threads \X Nat, NEW n \in Threads \X Nat, back(m) = back(n) PROVE m = n
    <2>1. m = <<m[1], m[2]>> /\ n = <<n[1], n[2]>> /\ m[2] \in Nat /\ n[2] \in Nat
      OBVIOUS
    <2>2. back(m)[1] = m[1] /\ back(n)[1] = n[1]
      OBVIOUS
    <2>3. m[1] = n[1]
      BY <1>7, <2>2
    <2>4. CASE m[1] = th
      <3>1. <<th, m[2] + 1>> = <<th, n[2] + 1>>
        BY <1>7, <2>3, <2>4
      <3>2. m[2] + 1 = n[2] + 1
        BY <3>1
      <3>3. QED
        BY <2>1, <2>3, <3>2
    <2>5. CASE m[1] # th
      BY <1>7, <2>3, <2>5
    <2>6. QED
      BY <2>4, <2>5
  <1>8. Marks(new, X) \subseteq Threads \X Nat
    BY DEF Marks
  <1> DEFINE old == Marks(box, X)
             now == Marks(new, X)
             inX == Head(box[th]) \in X
  <1>9. first \in old <=> inX
    BY <1>6
  <1>10. \A y \in now : back(y) \in old /\ back(y) # first /\ back(y)[1] = y[1]
    BY <1>4, <1>8
  <1>11. \A x \in old : x # first => \E m \in now : back(m) = x
    BY <1>5
  <1>12. \A x, y \in now : back(x) = back(y) => x = y
    BY <1>7, <1>8
  <1>13. PICK F : F = [x \in now |-> back(x)]
    OBVIOUS
  <1>14. first[1] = th
    OBVIOUS
  <1> HIDE DEF old, now, inX, back, first
  <1>15. \A x \in now : F[x] = back(x)
    BY <1>13
  <1>16. IsFiniteSet(old) => /\ IsFiniteSet(now)
                             /\ Cardinality(now) = IF inX THEN Cardinality(old) - 1 ELSE Cardinality(old)
    <2> SUFFICES ASSUME IsFiniteSet(old)
                 PROVE  /\ IsFiniteSet(now)
                        /\ Cardinality(now) = IF inX THEN Cardinality(old) - 1 ELSE Cardinality(old)
      OBVIOUS
    <2> DEFINE rest == old \ {first}
    <2>1. /\ IsFiniteSet(rest)
          /\ Cardinality(rest) = IF inX THEN Cardinality(old) - 1 ELSE Cardinality(old)
      BY <1>9, FS_RemoveElement
    <2>2. F \in [now -> rest]
      BY <1>10, <1>13
    <2>3. F \in Injection(now, rest)
      BY <2>2, <1>12, <1>15 DEF Injection, IsInjective
    <2>4. F \in Surjection(now, rest)
      BY <2>2, <1>11, <1>15 DEF Surjection
    <2>5. IsFiniteSet(now) /\ Cardinality(now) = Cardinality(rest)
      BY <2>1, <2>3, <2>4, FS_Injection
    <2>6. QED
      BY <2>1, <2>5
  <1>17. AtMostOne(old) => AtMostOne(now) /\ (inX => now = {})
    BY <1>9, <1>10, <1>12 DEF AtMostOne
  <1>18. Shifts(old, now, th, inX)
    BY <1>9, <1>10, <1>14, <1>16, <1>17 DEF Shifts
  <1>19. QED
    BY <1>18 DEF old, now, inX, new, s
-----------------------------------------------------------------------------
(* The use of a route. *)

\* A return event, as the pipes carry it.
ReturnEvent == [ret : {"ok", "error", "retry", "none"}, task : Tasks, out : Outs]

EventsOf(r) == {e \in ReturnEvent : e.task = r[1] /\ e.out = r[2]}
AskedFor(r)  == Marks(inbox, {r})
AnswerFor(r) == Marks(pipe, EventsOf(r))
InUse(r, f)  == Live(f) /\ PairOf(f) = r /\ flush[f].at # "destroying"
Timer(r)     == task[r[1]].retries[r[2]] = "timer"

\* The tasks and the pipes are well formed; that no count is negative is shown later.
TaskShape  == [status : {"new", "running", "destroyed"}, users : Int,
               retries : [Outs -> {"none", "timer", "sent"}]]
TaskShapes == task \in [Tasks -> TaskShape] /\ pipe \in [Threads -> Seq(ReturnEvent)]

\* A route is asked for, flushed, answered for or waits for its timer, one of them once;
\* only a flush that has just answered is still there beside its answer, which has not
\* left its thread.
OneUse(r) ==
  /\ AtMostOne(AskedFor(r)) /\ AtMostOne(AnswerFor(r))
  /\ \A f, g \in Slots : InUse(r, f) /\ InUse(r, g) => f = g
  /\ AskedFor(r) # {} => AnswerFor(r) = {} /\ ~ Timer(r) /\ \A f \in Slots : ~ InUse(r, f)
  /\ AnswerFor(r) # {} => ~ Timer(r)
  /\ \A f \in Slots : InUse(r, f) =>
       /\ ~ Timer(r)
       /\ \A x \in AnswerFor(r) : flush[f].at = "notified" /\ x[1] = HomeOf(f)
  /\ task[r[1]].status = "new" =>
       /\ AskedFor(r) = {} /\ AnswerFor(r) = {} /\ ~ Timer(r)
       /\ \A f \in Slots : ~ InUse(r, f)

OneUses == \A r \in Tasks \X Outs : OneUse(r)

\* The parameters a coroutine copied are its own.
OwnParams == \A f \in Slots : Live(f) /\ flush[f].at # "stuck" => flush[f].persisted = f

UseInv == FlushInv /\ TaskShapes /\ OneUses /\ OwnParams /\ ActiveIffFlushing

-----------------------------------------------------------------------------
(* Steps of a coroutine. *)

\* A flush goes on from one of the places `from` to one of `to`.
Hop(f, from, to) ==
  /\ f \in Slots /\ Live(f) /\ flush[f].at \in from
  /\ \E new \in FlushRecord : /\ new.task = flush[f].task /\ new.out = flush[f].out
                              /\ new.persisted = flush[f].persisted /\ new.at \in to
                              /\ flush' = [flush EXCEPT ![f] = new]

\* What a hop changes and what it keeps.
LEMMA HopFacts ==
  ASSUME FlushInv, NEW f, NEW from, NEW to, Hop(f, from, to)
  PROVE  /\ f \in Slots /\ Live(f) /\ Live(f)' /\ flush[f].at \in from /\ flush'[f].at \in to
         /\ flush[f] \in FlushRecord /\ PairOf(f) \in Tasks \X Outs
         /\ \A g \in Slots : /\ g # f => flush'[g] = flush[g]
                             /\ Live(g)' <=> Live(g)
                             /\ HomeOf(g)' = HomeOf(g) /\ PairOf(g)' = PairOf(g)
                             /\ flush'[g].task = flush[g].task
                             /\ flush'[g].persisted = flush[g].persisted
  <1>1. f \in Slots /\ Live(f) /\ flush[f].at \in from
    BY DEF Hop
  <1>2. PICK new \in FlushRecord : /\ new.task = flush[f].task /\ new.out = flush[f].out
                                   /\ new.persisted = flush[f].persisted /\ new.at \in to
                                   /\ flush' = [flush EXCEPT ![f] = new]
    BY DEF Hop
  <1>3. /\ flush'[f] = new
        /\ \A g \in Slots : /\ g # f => flush'[g] = flush[g]
                            /\ Live(g)' <=> Live(g)
                            /\ HomeOf(g)' = HomeOf(g) /\ PairOf(g)' = PairOf(g)
                            /\ flush'[g].task = flush[g].task
    BY <1>1, <1>2, MoveFacts
  <1>4. flush[f] \in FlushRecord /\ PairOf(f) \in Tasks \X Outs
    BY <1>1, OneFlush DEF PairOf
  <1>5. QED
    BY <1>1, <1>2, <1>3, <1>4

\* A change of the place, alone or with the answer, is a hop.
LEMMA GoIsHop ==
  ASSUME FlushInv, NEW f \in Slots, Live(f), NEW at, NEW to, at \in to,
         to \subseteq {"created", "entered", "locked", "dropped", "flushing", "waiting",
                       "returning", "refused", "notified", "destroying", "stuck"},
         \/ flush' = Go(f, at)
         \/ \E ret \in {"ok", "error", "retry", "none"} :
              flush' = [flush EXCEPT ![f].at = at, ![f].ret = ret]
  PROVE  Hop(f, {flush[f].at}, to)
  <1>1. flush[f] \in FlushRecord /\ flush \in [Slots -> FlushRecord \cup {NULL}]
    BY OneFlush DEF FlushInv, Shapes
  <1>2. CASE flush' = Go(f, at)
    <2> DEFINE new == [flush[f] EXCEPT !.at = at]
    <2>1. /\ new \in FlushRecord /\ new.task = flush[f].task /\ new.out = flush[f].out
          /\ new.persisted = flush[f].persisted /\ new.at = at
      BY <1>1 DEF FlushRecord
    <2>2. flush' = [flush EXCEPT ![f] = new]
      BY <1>2 DEF Go
    <2> HIDE DEF new
    <2>3. QED
      BY <2>1, <2>2 DEF Hop
  <1>3. ASSUME NEW ret \in {"ok", "error", "retry", "none"},
               flush' = [flush EXCEPT ![f].at = at, ![f].ret = ret]
        PROVE  Hop(f, {flush[f].at}, to)
    <2> DEFINE new == [flush[f] EXCEPT !.at = at, !.ret = ret]
    <2>1. /\ new \in FlushRecord /\ new.task = flush[f].task /\ new.out = flush[f].out
          /\ new.persisted = flush[f].persisted /\ new.at = at
      BY <1>1 DEF FlushRecord
    <2>2. flush' = [flush EXCEPT ![f] = new]
      BY <1>1, <1>3
    <2> HIDE DEF new
    <2>3. QED
      BY <2>1, <2>2 DEF Hop
  <1>4. QED
    BY <1>2, <1>3

\* The places of a flush whose callback works, and of one that has not reached it or is
\* refused.
Working == {"flushing", "waiting", "returning"}
Idling  == {"created", "entered", "locked", "dropped", "refused"}

\* The coroutine steps as hops.
LEMMA ResumeHop ==
  ASSUME FlushInv, NEW f \in Slots, Resume(f)
  PROVE  Hop(f, Working, Working) \/ Hop(f, Idling, Idling)
  <1>1. Live(f) /\ flush[f].at \in {"created", "waiting"}
        /\ flush' = Go(f, IF flush[f].at = "created" THEN "entered" ELSE "flushing")
    BY DEF Resume
  <1>2. CASE flush[f].at = "created"
    <2>1. Hop(f, {flush[f].at}, Idling)
      BY <1>1, <1>2, GoIsHop DEF Idling
    <2>2. QED
      BY <1>2, <2>1 DEF Hop, Idling
  <1>3. CASE flush[f].at = "waiting"
    <2>1. Hop(f, {flush[f].at}, Working)
      BY <1>1, <1>3, GoIsHop DEF Working
    <2>2. QED
      BY <1>3, <2>1 DEF Hop, Working
  <1>4. QED
    BY <1>1, <1>2, <1>3

LEMMA LockHop ==
  ASSUME FlushInv, NEW f \in Slots, LockRoute(f)
  PROVE  Hop(f, {"entered"}, {"locked", "dropped"})
  <1> DEFINE at == IF flb_task_get_route_status(PairOf(f)) = "dropped" THEN "dropped" ELSE "locked"
  <1>1. Live(f) /\ flush[f].at = "entered" /\ flush' = Go(f, at)
    BY DEF LockRoute
  <1>2. at \in {"locked", "dropped"}
    OBVIOUS
  <1> HIDE DEF at
  <1>3. Hop(f, {flush[f].at}, {"locked", "dropped"})
    BY <1>1, <1>2, GoIsHop
  <1>4. QED
    BY <1>1, <1>3

LEMMA CallHop ==
  ASSUME FlushInv, NEW f \in Slots, CallFlush(f) PROVE Hop(f, {"locked"}, {"flushing"})
  <1>1. Live(f) /\ flush[f].at = "locked" /\ flush' = Go(f, "flushing")
    BY DEF CallFlush
  <1>2. Hop(f, {flush[f].at}, {"flushing"})
    BY <1>1, GoIsHop
  <1>3. QED
    BY <1>1, <1>2

LEMMA RefuseHop ==
  ASSUME FlushInv, NEW f \in Slots, RefuseDropped(f) PROVE Hop(f, {"dropped"}, {"refused"})
  <1>1. Live(f) /\ flush[f].at = "dropped"
        /\ flush' = [flush EXCEPT ![f].at = "refused", ![f].ret = "error"]
    BY DEF RefuseDropped
  <1>2. Hop(f, {flush[f].at}, {"refused"})
    BY <1>1, GoIsHop
  <1>3. QED
    BY <1>1, <1>2

LEMMA YieldHop ==
  ASSUME FlushInv, NEW f \in Slots, Yield(f) PROVE Hop(f, {"flushing"}, {"waiting"})
  <1>1. Live(f) /\ flush[f].at = "flushing" /\ flush' = Go(f, "waiting")
    BY DEF Yield
  <1>2. Hop(f, {flush[f].at}, {"waiting"})
    BY <1>1, GoIsHop
  <1>3. QED
    BY <1>1, <1>2

LEMMA FinishHop ==
  ASSUME FlushInv, NEW th \in Threads, NEW ret \in {"ok", "retry"}, Finish(th, ret)
  PROVE  \E f \in Slots : Hop(f, {"flushing"}, {"returning"})
  <1>1. PICK f \in Slots : running[th] = f
    BY DEF Finish, Idle, FlushInv, Shapes
  <1>2. current[th] = f /\ Live(f)
    BY <1>1 DEF FlushInv, CurrentRuns
  <1>3. flush[f].at = "flushing" /\ flush' = [flush EXCEPT ![f].at = "returning", ![f].ret = ret]
    BY <1>1, <1>2 DEF Finish
  <1>4. Hop(f, {flush[f].at}, {"returning"})
    BY <1>2, <1>3, GoIsHop
  <1>5. QED
    BY <1>3, <1>4

LEMMA NotifyHop ==
  ASSUME FlushInv, NEW f \in Slots, NEW written, Notify(f, written)
  PROVE  Hop(f, {"returning", "refused"}, {"notified"})
  <1>1. Live(f) /\ flush[f].at \in {"returning", "refused"}
        /\ flush' = [flush EXCEPT ![f].at = "notified", ![f].ret = "none"]
    BY DEF Notify
  <1>2. Hop(f, {flush[f].at}, {"notified"})
    BY <1>1, GoIsHop
  <1>3. QED
    BY <1>1, <1>2 DEF Hop

LEMMA PrepareHop ==
  ASSUME FlushInv, NEW f \in Slots, PrepareDestroy(f) PROVE Hop(f, {"notified"}, {"destroying"})
  <1>1. Live(f) /\ flush[f].at = "notified" /\ flush' = Go(f, "destroying")
    BY DEF PrepareDestroy
  <1>2. Hop(f, {flush[f].at}, {"destroying"})
    BY <1>1, GoIsHop
  <1>3. QED
    BY <1>1, <1>2

-----------------------------------------------------------------------------
(* The task's operations. *)

\* flb_task_retry_clean and flb_task_retry_create change one entry of the list.
LEMMA SetRetryFacts ==
  ASSUME NEW tk \in TaskShape, NEW o \in Outs, NEW st \in {"none", "timer", "sent"}
  PROVE  LET d == SetRetry(tk, o, st)
         IN  /\ d \in TaskShape /\ d.status = tk.status /\ d.users = tk.users
             /\ d.retries = [tk.retries EXCEPT ![o] = st]
  BY DEF SetRetry, TaskShape

\* flb_task_users_inc counts one more.
LEMMA IncFacts ==
  ASSUME NEW tk \in TaskShape
  PROVE  LET d == flb_task_users_inc(tk)
         IN  /\ d \in TaskShape /\ d.status = tk.status /\ d.users = tk.users + 1
             /\ d.retries = tk.retries
  BY DEF flb_task_users_inc, TaskShape

\* flb_task_users_dec counts one less and releases a task that nobody uses or retries.
LEMMA DecFacts ==
  ASSUME NEW tk \in TaskShape, NEW check \in BOOLEAN
  PROVE  LET d == flb_task_users_dec(tk, check)
         IN  /\ d \in TaskShape /\ d.users = tk.users - 1 /\ d.retries = tk.retries
             /\ \/ d.status = tk.status
                \/ d.status = "destroyed" /\ d.users = 0 /\ \A o \in Outs : tk.retries[o] = "none"
  <1> DEFINE m == [tk EXCEPT !.users = @ - 1]
             d == flb_task_users_dec(tk, check)
  <1>1. m \in TaskShape /\ m.users = tk.users - 1 /\ m.retries = tk.retries /\ m.status = tk.status
    BY DEF TaskShape
  <1>2. CASE check /\ m.users = 0 /\ \A o \in Outs : m.retries[o] = "none"
    <2>1. d = [m EXCEPT !.status = "destroyed"]
      BY <1>2 DEF flb_task_users_dec, flb_task_users_release
    <2> HIDE DEF m, d
    <2>2. /\ d \in TaskShape /\ d.users = m.users /\ d.retries = m.retries
          /\ d.status = "destroyed"
      BY <1>1, <2>1 DEF TaskShape
    <2>3. QED
      BY <1>1, <1>2, <2>2 DEF d
  <1>3. CASE ~ (check /\ m.users = 0 /\ \A o \in Outs : m.retries[o] = "none")
    <2>1. d = m
      BY <1>3 DEF flb_task_users_dec, flb_task_users_release
    <2> HIDE DEF m
    <2>2. QED
      BY <1>1, <2>1
  <1>4. QED
    BY <1>2, <1>3

-----------------------------------------------------------------------------
(* Less use is in order too. *)

Fewer(old, new) == /\ AtMostOne(old) => AtMostOne(new)
                   /\ \A y \in new : \E x \in old : x[1] = y[1]

LessUse(r) ==
  /\ Fewer(AskedFor(r), AskedFor(r)') /\ Fewer(AnswerFor(r), AnswerFor(r)')
  /\ Timer(r)' => Timer(r)
  /\ task'[r[1]].status = "new" => task[r[1]].status = "new"
  /\ \A f \in Slots : InUse(r, f)' => /\ InUse(r, f) /\ HomeOf(f)' = HomeOf(f)
                                      /\ flush[f].at = "notified" => flush'[f].at = "notified"

LEMMA LessUseStep == ASSUME NEW r, OneUse(r), LessUse(r) PROVE OneUse(r)'
  <1>1. AtMostOne(AskedFor(r))' /\ AtMostOne(AnswerFor(r))'
    BY DEF OneUse, LessUse, Fewer
  <1>2. AskedFor(r)' # {} => AskedFor(r) # {}
    BY DEF LessUse, Fewer
  <1>3. AnswerFor(r)' # {} => AnswerFor(r) # {}
    BY DEF LessUse, Fewer
  <1>4. \A f, g \in Slots : InUse(r, f)' /\ InUse(r, g)' => f = g
    BY DEF OneUse, LessUse
  <1>5. AskedFor(r)' # {} => AnswerFor(r)' = {} /\ ~ Timer(r)' /\ \A f \in Slots : ~ InUse(r, f)'
    BY <1>2, <1>3 DEF OneUse, LessUse
  <1>6. AnswerFor(r)' # {} => ~ Timer(r)'
    BY <1>3 DEF OneUse, LessUse
  <1>7. ASSUME NEW f \in Slots, InUse(r, f)'
        PROVE  /\ ~ Timer(r)'
               /\ \A y \in AnswerFor(r)' : flush'[f].at = "notified" /\ y[1] = HomeOf(f)'
    <2>1. /\ InUse(r, f) /\ HomeOf(f)' = HomeOf(f)
          /\ flush[f].at = "notified" => flush'[f].at = "notified"
      BY <1>7 DEF LessUse
    <2>2. \A y \in AnswerFor(r)' : \E x \in AnswerFor(r) : x[1] = y[1]
      BY DEF LessUse, Fewer
    <2>3. /\ ~ Timer(r)
          /\ \A x \in AnswerFor(r) : flush[f].at = "notified" /\ x[1] = HomeOf(f)
      BY <2>1 DEF OneUse
    <2>4. QED
      BY <2>1, <2>2, <2>3 DEF LessUse
  <1>8. task'[r[1]].status = "new" =>
          /\ AskedFor(r)' = {} /\ AnswerFor(r)' = {} /\ ~ Timer(r)'
          /\ \A f \in Slots : ~ InUse(r, f)'
    BY <1>2, <1>3 DEF OneUse, LessUse
  <1>9. QED
    BY <1>1, <1>4, <1>5, <1>6, <1>7, <1>8 DEF OneUse

\* A queue that is left alone, and one whose first element leaves, have no more places.
LEMMA FewerFacts ==
  /\ \A M : Fewer(M, M)
  /\ \A old, new, th, inX : Shifts(old, new, th, inX) => Fewer(old, new)
  BY DEF Fewer, Shifts

\* Where no queue and no task changes, a flush that ends or goes on uses no more.
LEMMA QuietStep ==
  ASSUME OneUses, UNCHANGED <<inbox, pipe, task>>,
         \A r \in Tasks \X Outs : \A f \in Slots :
           InUse(r, f)' => /\ InUse(r, f) /\ HomeOf(f)' = HomeOf(f)
                           /\ flush[f].at = "notified" => flush'[f].at = "notified"
  PROVE  OneUses'
  <1>1. ASSUME NEW r \in Tasks \X Outs PROVE OneUse(r)'
    <2>1. AskedFor(r)' = AskedFor(r) /\ AnswerFor(r)' = AnswerFor(r) /\ (Timer(r)' <=> Timer(r))
      BY DEF AskedFor, AnswerFor, Timer
    <2>2. LessUse(r)
      BY <2>1, FewerFacts DEF LessUse
    <2>3. QED
      BY <2>2, LessUseStep DEF OneUses
  <1>2. QED
    BY <1>1 DEF OneUses

\* A hop within the callback, or before and beside it, or to the list of the ended ones.
LEMMA HopKeepsUse ==
  ASSUME UseInv, NEW f, NEW from, NEW to, Hop(f, from, to), UNCHANGED <<inbox, pipe, task>>,
         "destroying" \notin from, "stuck" \notin from,
         "notified" \in from => to = {"destroying"}
  PROVE  OneUses' /\ OwnParams'
  <1>1. /\ f \in Slots /\ Live(f) /\ flush[f].at \in from /\ flush'[f].at \in to
        /\ \A g \in Slots : /\ g # f => flush'[g] = flush[g]
                            /\ Live(g)' <=> Live(g)
                            /\ HomeOf(g)' = HomeOf(g) /\ PairOf(g)' = PairOf(g)
                            /\ flush'[g].persisted = flush[g].persisted
    BY HopFacts DEF UseInv
  <1>2. ASSUME NEW r \in Tasks \X Outs, NEW g \in Slots, InUse(r, g)'
        PROVE  /\ InUse(r, g) /\ HomeOf(g)' = HomeOf(g)
               /\ flush[g].at = "notified" => flush'[g].at = "notified"
    <2>1. CASE g = f
      <3>1. flush[f].at # "destroying"
        BY <1>1
      <3>2. flush[f].at # "notified"
        BY <1>1, <1>2, <2>1 DEF InUse
      <3>3. QED
        BY <1>1, <1>2, <2>1, <3>1, <3>2 DEF InUse
    <2>2. CASE g # f
      BY <1>1, <1>2, <2>2 DEF InUse
    <2>3. QED
      BY <2>1, <2>2
  <1>3. OneUses'
    BY <1>2, QuietStep DEF UseInv
  <1>4. OwnParams'
    BY <1>1 DEF UseInv, OwnParams
  <1>5. QED
    BY <1>3, <1>4

\* A hop that neither starts nor ends a callback leaves the routes right.
LEMMA HopKeepsActive ==
  ASSUME UseInv, NEW f, NEW from, NEW to, Hop(f, from, to), route' = route,
         (from \subseteq Working /\ to \subseteq Working) \/ (from \cup to) \cap Working = {}
  PROVE  ActiveIffFlushing'
  <1>1. /\ f \in Slots /\ Live(f) /\ flush[f].at \in from /\ flush'[f].at \in to
        /\ \A g \in Slots : /\ g # f => flush'[g] = flush[g]
                            /\ Live(g)' <=> Live(g)
                            /\ PairOf(g)' = PairOf(g)
    BY HopFacts DEF UseInv
  <1>2. \A g \in Slots : flush'[g].at \in Working <=> flush[g].at \in Working
    BY <1>1
  <1>3. ASSUME NEW r \in Routes
        PROVE  route'[r] = "active" <=>
                 \E g \in Slots : Live(g)' /\ PairOf(g)' = r /\ flush'[g].at \in Working
    <2>1. route[r] = "active" <=>
            \E g \in Slots : Live(g) /\ PairOf(g) = r /\ flush[g].at \in Working
      BY DEF UseInv, ActiveIffFlushing, Working
    <2>2. QED
      BY <1>1, <1>2, <2>1
  <1>4. QED
    BY <1>3 DEF ActiveIffFlushing, Working

-----------------------------------------------------------------------------
(* The actions that move no request and no answer. *)

LEMMA QuietHopStep ==
  ASSUME UseInv, NEW f, NEW from, NEW to, Hop(f, from, to), UNCHANGED <<inbox, pipe, task, route>>,
         "destroying" \notin from, "stuck" \notin from,
         "notified" \in from => to = {"destroying"},
         (from \subseteq Working /\ to \subseteq Working) \/ (from \cup to) \cap Working = {}
  PROVE  TaskShapes' /\ OneUses' /\ OwnParams' /\ ActiveIffFlushing'
  <1>1. TaskShapes'
    BY DEF UseInv, TaskShapes
  <1>2. QED
    BY <1>1, HopKeepsUse, HopKeepsActive

\* The plugin is called: its route becomes active with it.
LEMMA CallUse ==
  ASSUME UseInv, NEW f \in Slots, CallFlush(f)
  PROVE  TaskShapes' /\ OneUses' /\ OwnParams' /\ ActiveIffFlushing'
  <1>1. /\ UNCHANGED <<inbox, pipe, task>>
        /\ route' = flb_task_set_route_status(PairOf(f), "active")
    BY DEF CallFlush, flb_task_activate_route
  <1>2. Hop(f, {"locked"}, {"flushing"})
    BY CallHop DEF UseInv
  <1>3. TaskShapes' /\ OneUses' /\ OwnParams'
    BY <1>1, <1>2, HopKeepsUse DEF UseInv, TaskShapes
  <1>4. /\ Live(f) /\ flush[f].at = "locked" /\ flush'[f].at = "flushing"
        /\ \A g \in Slots : /\ g # f => flush'[g] = flush[g]
                            /\ Live(g)' <=> Live(g)
                            /\ PairOf(g)' = PairOf(g)
    BY <1>2, HopFacts DEF UseInv
  <1>5. ASSUME NEW r \in Routes
        PROVE  route'[r] = "active" <=>
                 \E g \in Slots : Live(g)' /\ PairOf(g)' = r /\ flush'[g].at \in Working
    <2>1. CASE r = PairOf(f)
      <3>1. route'[r] = "active"
        BY <1>1, <2>1 DEF flb_task_set_route_status
      <3>2. Live(f)' /\ PairOf(f)' = r /\ flush'[f].at \in Working
        BY <1>4, <2>1 DEF Working
      <3>3. QED
        BY <3>1, <3>2
    <2>2. CASE r # PairOf(f)
      <3>1. route'[r] = route[r]
        BY <1>1, <2>2 DEF flb_task_set_route_status
      <3>2. route[r] = "active" <=>
              \E g \in Slots : Live(g) /\ PairOf(g) = r /\ flush[g].at \in Working
        BY DEF UseInv, ActiveIffFlushing, Working
      <3>3. QED
        BY <1>4, <2>2, <3>1, <3>2
    <2>3. QED
      BY <2>1, <2>2
  <1>6. QED
    BY <1>3, <1>5 DEF ActiveIffFlushing, Working

\* The engine drops a route only while none of its task is active.
LEMMA DropUse ==
  ASSUME UseInv, NEW r \in Routes, DropRoute(r)
  PROVE  TaskShapes' /\ OneUses' /\ OwnParams' /\ ActiveIffFlushing'
  <1>1. /\ UNCHANGED <<inbox, pipe, task, flush>> /\ flb_task_get_active_route_count(r[1]) = 0
        /\ route' = flb_task_set_route_status(r, "dropped")
    BY DEF DropRoute, flb_task_drop_route
  <1>2. TaskShapes'
    BY <1>1 DEF UseInv, TaskShapes
  <1>3. OneUses'
    BY <1>1, QuietStep DEF UseInv, InUse, Live, PairOf, HomeOf
  <1>4. OwnParams'
    BY <1>1 DEF UseInv, OwnParams, Live
  <1>5. route[r] # "active"
    <2> DEFINE A == {s \in Routes : s[1] = r[1] /\ route[s] = "active"}
    <2>1. IsFiniteSet(A)
      BY FlushAssumption, FS_Subset
    <2>2. A = {}
      BY <1>1, <2>1, FS_EmptySet DEF flb_task_get_active_route_count
    <2>3. QED
      BY <2>2
  <1>6. \A s \in Routes : route'[s] = "active" <=> route[s] = "active"
    BY <1>1, <1>5 DEF flb_task_set_route_status
  <1>7. ActiveIffFlushing'
    BY <1>1, <1>6 DEF UseInv, ActiveIffFlushing, Live, PairOf
  <1>8. QED
    BY <1>2, <1>3, <1>4, <1>7

\* A context is freed.
LEMMA DestroyUse ==
  ASSUME UseInv, NEW f \in Slots, DestroyFlush(f)
  PROVE  TaskShapes' /\ OneUses' /\ OwnParams' /\ ActiveIffFlushing'
  <1>1. /\ Live(f) /\ flush[f].at = "destroying" /\ flush' = [flush EXCEPT ![f] = NULL]
        /\ UNCHANGED <<inbox, pipe, task, route>>
    BY DEF DestroyFlush
  <1>2. flush'[f] = NULL /\ \A g \in Slots : g # f => flush'[g] = flush[g]
    BY <1>1 DEF UseInv, FlushInv, Shapes
  <1>3. ~ Live(f)' /\ \A g \in Slots : g # f => /\ Live(g)' <=> Live(g)
                                                /\ PairOf(g)' = PairOf(g) /\ HomeOf(g)' = HomeOf(g)
    BY <1>2 DEF Live, PairOf, HomeOf
  <1>4. TaskShapes'
    BY <1>1 DEF UseInv, TaskShapes
  <1>5. OneUses'
    BY <1>1, <1>2, <1>3, QuietStep DEF UseInv, InUse
  <1>6. OwnParams'
    BY <1>2, <1>3 DEF UseInv, OwnParams
  <1>7. ASSUME NEW g \in Slots, NEW r
        PROVE  (Live(g)' /\ PairOf(g)' = r /\ flush'[g].at \in {"flushing", "waiting", "returning"})
                 <=> (Live(g) /\ PairOf(g) = r /\ flush[g].at \in {"flushing", "waiting", "returning"})
    BY <1>1, <1>2, <1>3
  <1>8. ActiveIffFlushing'
    BY <1>1, <1>7 DEF UseInv, ActiveIffFlushing
  <1>9. QED
    BY <1>4, <1>5, <1>6, <1>8

-----------------------------------------------------------------------------
(* The actions that move requests and answers. *)

\* The flushes and the routes stay: only the queues and the task change.
LEMMA QueueFrame ==
  ASSUME UseInv, UNCHANGED <<flush, route>>
  PROVE  /\ OwnParams' /\ ActiveIffFlushing'
         /\ \A r : \A f \in Slots : /\ InUse(r, f)' <=> InUse(r, f)
                                    /\ HomeOf(f)' = HomeOf(f) /\ flush'[f].at = flush[f].at
  <1>1. OwnParams'
    BY DEF UseInv, OwnParams, Live
  <1>2. ActiveIffFlushing'
    BY DEF UseInv, ActiveIffFlushing, Live, PairOf
  <1>3. QED
    BY <1>1, <1>2 DEF InUse, Live, PairOf, HomeOf

\* A request that fails only ends a use.
LEMMA CreateFailsUse ==
  ASSUME UseInv, NEW th \in Threads, CreateFails(th)
  PROVE  TaskShapes' /\ OneUses' /\ OwnParams' /\ ActiveIffFlushing'
  <1> DEFINE t == Head(inbox[th])[1]
             o == Head(inbox[th])[2]
             d == flb_task_users_dec(SetRetry(task[t], o, "none"), TRUE)
  <1>1. /\ inbox[th] # << >> /\ inbox' = [inbox EXCEPT ![th] = Tail(@)]
        /\ UNCHANGED <<flush, route, pipe>>
        /\ task' = [task EXCEPT ![t] = d] \/ task' = task
    BY DEF CreateFails
  <1>2. inbox \in [Threads -> Seq(Tasks \X Outs)]
    BY DEF UseInv, FlushInv, Shapes
  <1>3. Head(inbox[th]) \in Tasks \X Outs
    BY <1>1, <1>2, HeadTailProperties
  <1>4. t \in Tasks /\ o \in Outs /\ task[t] \in TaskShape
    BY <1>3 DEF UseInv, TaskShapes
  <1> HIDE DEF t, o
  <1>5. /\ d \in TaskShape /\ d.retries = [task[t].retries EXCEPT ![o] = "none"]
        /\ d.status = "new" => task[t].status = "new"
    <2>1. PICK m : m = SetRetry(task[t], o, "none")
      OBVIOUS
    <2>2. /\ m \in TaskShape /\ m.status = task[t].status
          /\ m.retries = [task[t].retries EXCEPT ![o] = "none"]
      BY <1>4, <2>1, SetRetryFacts
    <2>3. /\ d \in TaskShape /\ d.retries = m.retries
          /\ d.status = m.status \/ d.status = "destroyed"
      BY <2>1, <2>2, DecFacts
    <2> HIDE DEF d
    <2>4. QED
      BY <2>2, <2>3
  <1> HIDE DEF d
  <1>6. /\ task' \in [Tasks -> TaskShape]
        /\ \A u \in Tasks : /\ task'[u].status = "new" => task[u].status = "new"
                            /\ \A p \in Outs : task'[u].retries[p] = "timer"
                                                => task[u].retries[p] = "timer"
    <2>1. task \in [Tasks -> TaskShape]
      BY DEF UseInv, TaskShapes
    <2>2. CASE task' = task
      BY <2>1, <2>2
    <2>3. CASE task' = [task EXCEPT ![t] = d]
      <3>1. task' \in [Tasks -> TaskShape] /\ task'[t] = d /\ \A u \in Tasks : u # t => task'[u] = task[u]
        BY <1>4, <1>5, <2>1, <2>3
      <3>2. task[t].retries \in [Outs -> {"none", "timer", "sent"}]
        BY <1>4 DEF TaskShape
      <3>3. \A p \in Outs : d.retries[p] = "timer" => task[t].retries[p] = "timer"
        BY <1>5, <3>2
      <3>4. QED
        BY <1>5, <3>1, <3>3
    <2>4. QED
      BY <1>1, <2>2, <2>3
  <1>7. TaskShapes'
    BY <1>1, <1>6 DEF UseInv, TaskShapes
  <1>8. ASSUME NEW r \in Tasks \X Outs PROVE OneUse(r)'
    <2>1. AnswerFor(r)' = AnswerFor(r)
      BY <1>1 DEF AnswerFor
    <2>2. Shifts(AskedFor(r), AskedFor(r)', th, Head(inbox[th]) \in {r})
      BY <1>1, <1>2, TailMarks DEF AskedFor
    <2>3. (Timer(r)' => Timer(r)) /\ (task'[r[1]].status = "new" => task[r[1]].status = "new")
      BY <1>6 DEF Timer
    <2>4. LessUse(r)
      BY <1>1, <2>1, <2>2, <2>3, FewerFacts, QueueFrame DEF LessUse
    <2>5. QED
      BY <2>4, LessUseStep DEF UseInv, OneUses
  <1>9. QED
    BY <1>1, <1>7, <1>8, QueueFrame DEF OneUses

\* A timer that expires becomes the route's only request.
LEMMA RetryUse ==
  ASSUME UseInv, NEW t \in Tasks, NEW o \in Outs, RetryTask(t, o)
  PROVE  TaskShapes' /\ OneUses' /\ OwnParams' /\ ActiveIffFlushing'
  <1> DEFINE d == SetRetry(flb_task_users_inc(task[t]), o, "sent")
             e == <<t, o>>
             h == ThreadOf(o)
  <1>1. /\ task[t].status = "running" /\ task[t].retries[o] = "timer"
        /\ task' = [task EXCEPT ![t] = d] /\ inbox' = [inbox EXCEPT ![h] = Append(@, e)]
        /\ UNCHANGED <<flush, route, pipe>>
    BY DEF RetryTask
  <1>2. /\ inbox \in [Threads -> Seq(Tasks \X Outs)] /\ task \in [Tasks -> TaskShape]
        /\ e \in Tasks \X Outs /\ h \in Threads
    BY ThreadFacts DEF UseInv, FlushInv, Shapes, TaskShapes
  <1>3. /\ d \in TaskShape /\ d.retries = [task[t].retries EXCEPT ![o] = "sent"]
        /\ d.status = task[t].status
    <2>1. PICK m : m = flb_task_users_inc(task[t])
      OBVIOUS
    <2>2. m \in TaskShape /\ m.status = task[t].status /\ m.retries = task[t].retries
      BY <1>2, <2>1, IncFacts
    <2>3. /\ d \in TaskShape /\ d.status = m.status
          /\ d.retries = [m.retries EXCEPT ![o] = "sent"]
      BY <2>1, <2>2, SetRetryFacts
    <2> HIDE DEF d
    <2>4. QED
      BY <2>2, <2>3
  <1> HIDE DEF d
  <1>4. task[t].retries \in [Outs -> {"none", "timer", "sent"}]
    BY <1>2 DEF TaskShape
  <1>5. /\ task' \in [Tasks -> TaskShape] /\ task'[t] = d
        /\ \A u \in Tasks : u # t => task'[u] = task[u]
    BY <1>1, <1>2, <1>3
  <1>6. TaskShapes'
    BY <1>1, <1>5 DEF UseInv, TaskShapes
  <1>7. ASSUME NEW r \in Tasks \X Outs PROVE OneUse(r)'
    <2>1. AnswerFor(r)' = AnswerFor(r)
      BY <1>1 DEF AnswerFor
    <2>2. AskedFor(r)' = IF r = e THEN AskedFor(r) \cup {<<h, Len(inbox[h]) + 1>>} ELSE AskedFor(r)
      <3> HIDE DEF e, h
      <3>1. inbox'[h] = Append(inbox[h], e) /\ \A u \in Threads : u # h => inbox'[u] = inbox[u]
        BY <1>1, <1>2
      <3>2. Grows(AskedFor(r), AskedFor(r)', <<h, Len(inbox[h]) + 1>>, e \in {r})
        BY <1>2, <3>1, AppendMarks DEF AskedFor
      <3>3. QED
        BY <3>2 DEF Grows
    <2>3. OneUse(r)
      BY DEF UseInv, OneUses
    <2>4. CASE r # e
      <3>1. r = <<r[1], r[2]>> /\ r[1] \in Tasks /\ r[2] \in Outs
        OBVIOUS
      <3>2. (Timer(r)' => Timer(r)) /\ (task'[r[1]].status = "new" => task[r[1]].status = "new")
        BY <1>3, <1>4, <1>5, <2>4, <3>1 DEF Timer
      <3>3. LessUse(r)
        BY <1>1, <2>1, <2>2, <2>4, <3>2, FewerFacts, QueueFrame DEF LessUse
      <3>4. QED
        BY <2>3, <3>3, LessUseStep
    <2>5. CASE r = e
      <3>1. r[1] = t /\ r[2] = o
        BY <2>5
      <3>2. Timer(r) /\ ~ Timer(r)' /\ task'[r[1]].status # "new"
        BY <1>1, <1>3, <1>4, <1>5, <3>1 DEF Timer
      <3>3. AskedFor(r) = {} /\ AnswerFor(r) = {} /\ \A f \in Slots : ~ InUse(r, f)
        BY <2>3, <3>2 DEF OneUse
      <3>4. AskedFor(r)' = {<<h, Len(inbox[h]) + 1>>} /\ AnswerFor(r)' = {}
        BY <2>1, <2>2, <2>5, <3>3
      <3>5. \A f \in Slots : ~ InUse(r, f)'
        BY <1>1, <3>3, QueueFrame
      <3>6. AtMostOne(AskedFor(r)') /\ AtMostOne(AnswerFor(r)')
        BY <3>4 DEF AtMostOne
      <3>7. QED
        BY <3>2, <3>4, <3>5, <3>6 DEF OneUse
    <2>6. QED
      BY <2>4, <2>5
  <1>8. QED
    BY <1>1, <1>6, <1>7, QueueFrame DEF OneUses

\* A request becomes a flush.
LEMMA CreateUse ==
  ASSUME UseInv, NEW th \in Threads, NEW f \in Slots, NEW noParams \in BOOLEAN,
         CreateFlush(th, f, noParams)
  PROVE  TaskShapes' /\ OneUses' /\ OwnParams' /\ ActiveIffFlushing'
  <1> DEFINE e == Head(inbox[th])
             new == [task |-> e[1], out |-> e[2], persisted |-> IF noParams THEN NULL ELSE f,
                     ret |-> "none", at |-> IF noParams THEN "stuck" ELSE "created"]
  <1>1. /\ flush' = [flush EXCEPT ![f] = new] /\ ~ Live(f) /\ inbox[th] # << >>
        /\ inbox' = [inbox EXCEPT ![th] = Tail(@)]
        /\ UNCHANGED <<task, route, pipe>>
    BY DEF CreateFlush
  <1>2. inbox \in [Threads -> Seq(Tasks \X Outs)] /\ flush \in [Slots -> FlushRecord \cup {NULL}]
    BY DEF UseInv, FlushInv, Shapes
  <1>3. e \in Tasks \X Outs /\ e = <<e[1], e[2]>>
    BY <1>1, <1>2, HeadTailProperties
  <1>4. /\ new \in FlushRecord /\ new.at \in {"stuck", "created"} /\ new.task = e[1] /\ new.out = e[2]
        /\ new.at # "stuck" => new.persisted = f
    BY <1>3 DEF FlushRecord
  <1> HIDE DEF new
  <1>5. flush'[f] = new /\ new # NULL /\ \A g \in Slots : g # f => flush'[g] = flush[g]
    BY <1>1, <1>2, <1>4, ContextAssumption
  <1>6. /\ Live(f)' /\ PairOf(f)' = e
        /\ \A g \in Slots : g # f => /\ Live(g)' <=> Live(g)
                                     /\ PairOf(g)' = PairOf(g) /\ HomeOf(g)' = HomeOf(g)
    BY <1>3, <1>4, <1>5 DEF Live, PairOf, HomeOf
  <1> HIDE DEF e
  <1>7. TaskShapes'
    BY <1>1 DEF UseInv, TaskShapes
  <1>8. OwnParams'
    BY <1>4, <1>5, <1>6 DEF UseInv, OwnParams
  <1>9. ASSUME NEW g \in Slots, NEW r
        PROVE  (Live(g)' /\ PairOf(g)' = r /\ flush'[g].at \in {"flushing", "waiting", "returning"})
                 <=> (Live(g) /\ PairOf(g) = r /\ flush[g].at \in {"flushing", "waiting", "returning"})
    BY <1>1, <1>4, <1>5, <1>6
  <1>10. ActiveIffFlushing'
    <2>1. ASSUME NEW r \in Routes
          PROVE  route'[r] = "active" <=>
                   \E g \in Slots : Live(g)' /\ PairOf(g)' = r
                                   /\ flush'[g].at \in {"flushing", "waiting", "returning"}
      <3>1. route[r] = "active" <=>
              \E g \in Slots : Live(g) /\ PairOf(g) = r
                              /\ flush[g].at \in {"flushing", "waiting", "returning"}
        BY DEF UseInv, ActiveIffFlushing
      <3>2. route'[r] = route[r]
        BY <1>1
      <3>3. QED
        BY <1>9, <3>1, <3>2
    <2>2. QED
      BY <2>1 DEF ActiveIffFlushing
  <1>11. ASSUME NEW r \in Tasks \X Outs PROVE OneUse(r)'
    <2>1. AnswerFor(r)' = AnswerFor(r) /\ (Timer(r)' <=> Timer(r)) /\ task' = task
      BY <1>1 DEF AnswerFor, Timer
    <2>2. Shifts(AskedFor(r), AskedFor(r)', th, e \in {r})
      BY <1>1, <1>2, TailMarks DEF AskedFor, e
    <2>3. OneUse(r)
      BY DEF UseInv, OneUses
    <2>4. CASE r # e
      <3>1. ASSUME NEW g \in Slots, InUse(r, g)'
            PROVE  /\ InUse(r, g) /\ HomeOf(g)' = HomeOf(g)
                   /\ flush[g].at = "notified" => flush'[g].at = "notified"
        BY <1>5, <1>6, <2>4, <3>1 DEF InUse
      <3>2. LessUse(r)
        BY <2>1, <2>2, <3>1, FewerFacts DEF LessUse
      <3>3. QED
        BY <2>3, <3>2, LessUseStep
    <2>5. CASE r = e
      <3>1. AskedFor(r) # {} /\ AskedFor(r)' = {}
        BY <2>2, <2>3, <2>5 DEF Shifts, OneUse
      <3>2. /\ AnswerFor(r)' = {} /\ ~ Timer(r)' /\ task'[r[1]].status # "new"
            /\ \A g \in Slots : ~ InUse(r, g)
        BY <2>1, <2>3, <3>1 DEF OneUse
      <3>3. \A g \in Slots : InUse(r, g)' => g = f
        BY <1>5, <1>6, <3>2 DEF InUse
      <3>4. AtMostOne(AskedFor(r)') /\ AtMostOne(AnswerFor(r)')
        BY <3>1, <3>2 DEF AtMostOne
      <3>5. QED
        BY <3>1, <3>2, <3>3, <3>4 DEF OneUse
    <2>6. QED
      BY <2>4, <2>5
  <1>12. QED
    BY <1>7, <1>8, <1>10, <1>11 DEF OneUses

\* A flush that answers deactivates its route; the answer stays in its thread's pipe.
LEMMA NotifyUse ==
  ASSUME UseInv, NEW f \in Slots, NEW written \in BOOLEAN, Notify(f, written)
  PROVE  TaskShapes' /\ OneUses' /\ OwnParams' /\ ActiveIffFlushing'
  <1> DEFINE e == [ret |-> flush[f].ret, task |-> flush[f].task, out |-> flush[f].out]
  <1>1. PICK h, p : h = HomeOf(f) /\ p = PairOf(f)
    OBVIOUS
  <1>2. /\ UNCHANGED <<inbox, task>>
        /\ route' = flb_task_set_route_status(p, "inactive")
        /\ pipe' = IF written THEN [pipe EXCEPT ![h] = Append(@, e)] ELSE pipe
    BY <1>1 DEF Notify, PipeOf, flb_task_deactivate_route
  <1>3. Hop(f, {"returning", "refused"}, {"notified"})
    BY NotifyHop DEF UseInv
  <1>4. /\ Live(f) /\ flush[f].at \in {"returning", "refused"} /\ flush'[f].at = "notified"
        /\ flush[f] \in FlushRecord /\ p \in Tasks \X Outs
        /\ \A g \in Slots : /\ g # f => flush'[g] = flush[g]
                            /\ Live(g)' <=> Live(g)
                            /\ PairOf(g)' = PairOf(g) /\ HomeOf(g)' = HomeOf(g)
    BY <1>1, <1>3, HopFacts DEF UseInv
  <1>5. /\ e \in ReturnEvent /\ e.task = p[1] /\ e.out = p[2] /\ h \in Threads
    BY <1>1, <1>4, ThreadFacts DEF ReturnEvent, FlushRecord, PairOf, HomeOf
  <1> HIDE DEF e
  <1>6. pipe \in [Threads -> Seq(ReturnEvent)]
    BY DEF UseInv, TaskShapes
  <1>7. TaskShapes'
    <2>1. Append(pipe[h], e) \in Seq(ReturnEvent)
      BY <1>5, <1>6, AppendProperties
    <2>2. pipe' \in [Threads -> Seq(ReturnEvent)]
      BY <1>2, <1>5, <1>6, <2>1
    <2>3. QED
      BY <1>2, <2>2 DEF UseInv, TaskShapes
  <1>8. OwnParams'
    <2>1. \A g \in Slots : flush'[g].persisted = flush[g].persisted
      BY <1>3, HopFacts DEF UseInv
    <2>2. QED
      BY <1>4, <2>1 DEF UseInv, OwnParams
  <1>9. OneUse(p) /\ InUse(p, f)
    BY <1>1, <1>4 DEF UseInv, OneUses, InUse
  <1>10. ActiveIffFlushing'
    <2>1. ASSUME NEW r \in Routes
          PROVE  route'[r] = "active" <=>
                   \E g \in Slots : Live(g)' /\ PairOf(g)' = r /\ flush'[g].at \in Working
      <3>1. CASE r = p
        <4>1. route'[r] # "active"
          BY <1>2, <3>1 DEF flb_task_set_route_status
        <4>2. ASSUME NEW g \in Slots, Live(g)', PairOf(g)' = r, flush'[g].at \in Working
              PROVE  FALSE
          <5>1. g # f
            BY <1>4, <4>2 DEF Working
          <5>2. InUse(p, g)
            BY <1>4, <3>1, <4>2, <5>1 DEF InUse, Working
          <5>3. QED
            BY <1>9, <5>1, <5>2 DEF OneUse
        <4>3. QED
          BY <4>1, <4>2
      <3>2. CASE r # p
        <4>1. route'[r] = route[r]
          BY <1>2, <3>2 DEF flb_task_set_route_status
        <4>2. route[r] = "active" <=>
                \E g \in Slots : Live(g) /\ PairOf(g) = r /\ flush[g].at \in Working
          BY DEF UseInv, ActiveIffFlushing, Working
        <4>3. \A g \in Slots : PairOf(g) = r => g # f
          BY <1>1, <3>2
        <4>4. QED
          BY <1>4, <4>1, <4>2, <4>3
      <3>3. QED
        BY <3>1, <3>2
    <2>2. QED
      BY <2>1 DEF ActiveIffFlushing, Working
  <1>11. ASSUME NEW r \in Tasks \X Outs PROVE OneUse(r)'
    <2>1. AskedFor(r)' = AskedFor(r) /\ (Timer(r)' <=> Timer(r)) /\ task' = task
      BY <1>2 DEF AskedFor, Timer
    <2>2. written => Grows(AnswerFor(r), AnswerFor(r)', <<h, Len(pipe[h]) + 1>>, e \in EventsOf(r))
      <3> SUFFICES ASSUME written
                   PROVE  Grows(AnswerFor(r), AnswerFor(r)', <<h, Len(pipe[h]) + 1>>, e \in EventsOf(r))
        OBVIOUS
      <3>1. pipe'[h] = Append(pipe[h], e) /\ \A u \in Threads : u # h => pipe'[u] = pipe[u]
        BY <1>2, <1>5, <1>6
      <3>2. EventsOf(r)' = EventsOf(r)
        BY DEF EventsOf, ReturnEvent
      <3>3. QED
        BY <1>5, <1>6, <3>1, <3>2, AppendMarks DEF AnswerFor
    <2>3. ~ written => AnswerFor(r)' = AnswerFor(r)
      BY <1>2 DEF AnswerFor, EventsOf, ReturnEvent
    <2>4. e \in EventsOf(r) <=> r = p
      <3>1. r = <<r[1], r[2]>> /\ p = <<p[1], p[2]>>
        BY <1>4
      <3>2. e \in EventsOf(r) <=> p[1] = r[1] /\ p[2] = r[2]
        BY <1>5 DEF EventsOf
      <3>3. QED
        BY <3>1, <3>2
    <2>5. CASE r # p
      <3>1. AnswerFor(r)' = AnswerFor(r)
        BY <2>2, <2>3, <2>4, <2>5 DEF Grows
      <3>2. ASSUME NEW g \in Slots, InUse(r, g)'
            PROVE  /\ InUse(r, g) /\ HomeOf(g)' = HomeOf(g)
                   /\ flush[g].at = "notified" => flush'[g].at = "notified"
        BY <1>1, <1>4, <2>5, <3>2 DEF InUse
      <3>3. LessUse(r)
        BY <2>1, <3>1, <3>2, FewerFacts DEF LessUse
      <3>4. QED
        BY <3>3, LessUseStep DEF UseInv, OneUses
    <2>6. CASE r = p
      <3>1. AnswerFor(r) = {}
        BY <1>4, <1>9, <2>6 DEF OneUse
      <3>2. AskedFor(r)' = {} /\ ~ Timer(r)' /\ task'[r[1]].status # "new"
        BY <1>9, <2>1, <2>6 DEF OneUse
      <3>3. AnswerFor(r)' \subseteq {<<h, Len(pipe[h]) + 1>>}
        BY <2>2, <2>3, <3>1 DEF Grows
      <3>4. \A x \in AnswerFor(r)' : x[1] = h
        BY <3>3
      <3>5. \A g \in Slots : InUse(r, g)' => g = f
        BY <1>4, <1>9, <2>6 DEF InUse, OneUse
      <3>6. AtMostOne(AskedFor(r)') /\ AtMostOne(AnswerFor(r)')
        BY <3>2, <3>3 DEF AtMostOne
      <3>7. HomeOf(f)' = h
        BY <1>1, <1>4
      <3>8. QED
        BY <1>4, <3>2, <3>4, <3>5, <3>6, <3>7 DEF OneUse
    <2>7. QED
      BY <2>5, <2>6
  <1>12. QED
    BY <1>7, <1>8, <1>10, <1>11 DEF OneUses

\* An answer that its thread, idle, can read is the route's only use.
LEMMA AnsweredAlone ==
  ASSUME UseInv, NEW r \in Tasks \X Outs, NEW x \in AnswerFor(r), Idle(x[1])
  PROVE  /\ AskedFor(r) = {} /\ ~ Timer(r) /\ task[r[1]].status # "new"
         /\ \A f \in Slots : ~ InUse(r, f)
  <1>1. OneUse(r) /\ AnswerFor(r) # {}
    BY DEF UseInv, OneUses
  <1>2. ASSUME NEW f \in Slots, InUse(r, f) PROVE FALSE
    <2>1. Live(f) /\ flush[f].at = "notified" /\ x[1] = HomeOf(f)
      BY <1>1, <1>2 DEF OneUse, InUse
    <2>2. running[x[1]] = f
      BY <2>1, OneFlush DEF Inside, UseInv
    <2>3. QED
      BY <2>2, FlushAssumption DEF Idle
  <1>3. QED
    BY <1>1, <1>2 DEF OneUse

\* A worker passes an answer on.
LEMMA ForwardUse ==
  ASSUME UseInv, NEW w \in Threads, Forward(w)
  PROVE  TaskShapes' /\ OneUses' /\ OwnParams' /\ ActiveIffFlushing'
  <1> DEFINE e == Head(pipe[w])
             mid == [pipe EXCEPT ![w] = Tail(@)]
  <1>1. /\ w # "main" /\ Idle(w) /\ pipe[w] # << >> /\ UNCHANGED <<task, inbox, flush, route>>
        /\ pipe' = [pipe EXCEPT !["main"] = Append(@, e), ![w] = Tail(@)]
    BY DEF Forward
  <1>2. pipe \in [Threads -> Seq(ReturnEvent)] /\ "main" \in Threads
    BY DEF UseInv, TaskShapes, Threads
  <1>3. e \in ReturnEvent /\ Tail(pipe[w]) \in Seq(ReturnEvent)
    BY <1>1, <1>2, HeadTailProperties
  <1>4. mid \in [Threads -> Seq(ReturnEvent)]
    BY <1>2, <1>3
  <1>5. /\ pipe'["main"] = Append(mid["main"], e)
        /\ \A u \in Threads : u # "main" => pipe'[u] = mid[u]
    BY <1>1, <1>2
  <1>6. TaskShapes'
    <2>1. Append(pipe["main"], e) \in Seq(ReturnEvent)
      BY <1>2, <1>3, AppendProperties
    <2>2. pipe' \in [Threads -> Seq(ReturnEvent)]
      BY <1>1, <1>2, <1>3, <2>1
    <2>3. QED
      BY <1>1, <2>2 DEF UseInv, TaskShapes
  <1> HIDE DEF e
  <1>7. ASSUME NEW r \in Tasks \X Outs PROVE OneUse(r)'
    <2> DEFINE mine == e \in EventsOf(r)
               kept == Marks(mid, EventsOf(r))
    <2>1. AskedFor(r)' = AskedFor(r) /\ (Timer(r)' <=> Timer(r)) /\ task' = task
      BY <1>1 DEF AskedFor, Timer
    <2>2. Shifts(AnswerFor(r), kept, w, mine)
      BY <1>1, <1>2, TailMarks DEF AnswerFor, e
    <2>3. PICK place : place[1] = "main" /\ Grows(kept, AnswerFor(r)', place, mine)
      <3>1. EventsOf(r)' = EventsOf(r)
        BY DEF EventsOf, ReturnEvent
      <3> HIDE DEF mid
      <3>2. Grows(kept, Marks(pipe', EventsOf(r)), <<"main", Len(mid["main"]) + 1>>, mine)
        BY <1>2, <1>3, <1>4, <1>5, AppendMarks
      <3>3. QED
        BY <3>1, <3>2 DEF AnswerFor
    <2> HIDE DEF mine, kept
    <2>4. OneUse(r)
      BY DEF UseInv, OneUses
    <2>5. CASE ~ mine
      <3>1. Shifts(AnswerFor(r), AnswerFor(r)', w, mine)
        BY <2>2, <2>3, <2>5 DEF Grows
      <3>2. LessUse(r)
        BY <1>1, <2>1, <3>1, FewerFacts, QueueFrame DEF LessUse
      <3>3. QED
        BY <2>4, <3>2, LessUseStep
    <2>6. CASE mine
      <3>1. PICK x \in AnswerFor(r) : x[1] = w
        BY <2>2, <2>6 DEF Shifts
      <3>2. /\ AskedFor(r) = {} /\ ~ Timer(r) /\ task[r[1]].status # "new"
            /\ \A f \in Slots : ~ InUse(r, f)
        BY <1>1, <3>1, AnsweredAlone
      <3>3. kept = {}
        BY <2>2, <2>4, <2>6 DEF Shifts, OneUse
      <3>4. AnswerFor(r)' = {place}
        BY <2>3, <2>6, <3>3 DEF Grows
      <3>5. \A f \in Slots : ~ InUse(r, f)'
        BY <1>1, <3>2, QueueFrame
      <3>6. AtMostOne(AskedFor(r)') /\ AtMostOne(AnswerFor(r)')
        BY <2>1, <3>2, <3>4 DEF AtMostOne
      <3>7. AskedFor(r)' = {} /\ ~ Timer(r)' /\ task'[r[1]].status # "new"
        BY <2>1, <3>2
      <3>8. QED
        BY <3>5, <3>6, <3>7 DEF OneUse
    <2>7. QED
      BY <2>5, <2>6
  <1>8. QED
    BY <1>1, <1>6, <1>7, QueueFrame DEF OneUses

\* The engine reads e, the first answer, and makes d of its task.
Reads(e, d, st) ==
  /\ e = Head(pipe["main"]) /\ pipe["main"] # << >> /\ Idle("main")
  /\ task' = [task EXCEPT ![e.task] = d] /\ pipe' = [pipe EXCEPT !["main"] = Tail(@)]
  /\ d.users = task[e.task].users - 1
  /\ d.retries = [task[e.task].retries EXCEPT ![e.out] = st]
  /\ \/ d.status = task[e.task].status
     \/ d.status = "destroyed" /\ d.users = 0 /\ \A o \in Outs : d.retries[o] = "none"

LEMMA ReturnTask ==
  ASSUME UseInv, HandleReturn
  PROVE  \E e \in ReturnEvent, d \in TaskShape, st \in {"none", "timer"} : Reads(e, d, st)
  <1> DEFINE e == Head(pipe["main"])
             again == e.ret = "retry" /\ attempts[<<e.task, e.out>>] < RetryLimit[e.out]
             st == IF again THEN "timer" ELSE "none"
             m == SetRetry(task[e.task], e.out, st)
             d == flb_task_users_dec(m, ~ again)
  <1>1. pipe \in [Threads -> Seq(ReturnEvent)] /\ "main" \in Threads /\ task \in [Tasks -> TaskShape]
    BY DEF UseInv, TaskShapes, Threads
  <1>2. pipe["main"] # << >> /\ Idle("main") /\ pipe' = [pipe EXCEPT !["main"] = Tail(@)]
    BY DEF HandleReturn
  <1>3. e \in ReturnEvent
    BY <1>1, <1>2, HeadTailProperties
  <1>4. e.task \in Tasks /\ e.out \in Outs /\ task[e.task] \in TaskShape
    BY <1>1, <1>3 DEF ReturnEvent
  <1>5. task' = [task EXCEPT ![e.task] = d]
    <2>1. CASE again
      BY <2>1 DEF HandleReturn
    <2>2. CASE ~ again
      BY <2>2 DEF HandleReturn
    <2>3. QED
      BY <2>1, <2>2
  <1>6. st \in {"none", "timer"} /\ (~ again) \in BOOLEAN
    OBVIOUS
  <1> HIDE DEF again, st, e
  <1>7. /\ m \in TaskShape /\ m.status = task[e.task].status /\ m.users = task[e.task].users
        /\ m.retries = [task[e.task].retries EXCEPT ![e.out] = st]
    <2>1. st \in {"none", "timer", "sent"}
      BY <1>6
    <2>2. PICK tk \in TaskShape, o \in Outs : tk = task[e.task] /\ o = e.out
      BY <1>4
    <2>3. m = SetRetry(tk, o, st)
      BY <2>2
    <2> HIDE DEF m
    <2>4. /\ m \in TaskShape /\ m.status = tk.status /\ m.users = tk.users
          /\ m.retries = [tk.retries EXCEPT ![o] = st]
      BY <2>1, <2>3 DEF SetRetry, TaskShape
    <2>5. QED
      BY <2>2, <2>4
  <1> HIDE DEF m
  <1>8. /\ d \in TaskShape /\ d.users = m.users - 1 /\ d.retries = m.retries
        /\ \/ d.status = m.status
           \/ d.status = "destroyed" /\ d.users = 0 /\ \A o \in Outs : m.retries[o] = "none"
    BY <1>6, <1>7, DecFacts
  <1> HIDE DEF d
  <1>9. d.retries = [task[e.task].retries EXCEPT ![e.out] = st] /\ d.users = task[e.task].users - 1
    BY <1>7, <1>8
  <1>10. Reads(e, d, st)
    BY <1>2, <1>5, <1>7, <1>8, <1>9 DEF Reads, e
  <1>11. QED
    BY <1>3, <1>6, <1>8, <1>10

\* The engine reads an answer: the use ends, or waits for its timer.
LEMMA ReturnUse ==
  ASSUME UseInv, HandleReturn
  PROVE  TaskShapes' /\ OneUses' /\ OwnParams' /\ ActiveIffFlushing'
  <1>0. PICK e \in ReturnEvent, d \in TaskShape, st \in {"none", "timer"} : Reads(e, d, st)
    BY ReturnTask
  <1>1. /\ e = Head(pipe["main"]) /\ pipe["main"] # << >> /\ Idle("main")
        /\ task' = [task EXCEPT ![e.task] = d] /\ pipe' = [pipe EXCEPT !["main"] = Tail(@)]
        /\ d.retries = [task[e.task].retries EXCEPT ![e.out] = st]
        /\ d.status = task[e.task].status \/ d.status = "destroyed"
    BY <1>0 DEF Reads
  <1>2. UNCHANGED <<inbox, flush, route>>
    BY DEF HandleReturn
  <1>3. pipe \in [Threads -> Seq(ReturnEvent)] /\ "main" \in Threads /\ task \in [Tasks -> TaskShape]
    BY DEF UseInv, TaskShapes, Threads
  <1>4. e.task \in Tasks /\ e.out \in Outs /\ task[e.task] \in TaskShape
    BY <1>3 DEF ReturnEvent
  <1>5. task[e.task].retries \in [Outs -> {"none", "timer", "sent"}]
    BY <1>4 DEF TaskShape
  <1>6. /\ task' \in [Tasks -> TaskShape] /\ task'[e.task] = d
        /\ \A u \in Tasks : u # e.task => task'[u] = task[u]
    BY <1>1, <1>3, <1>4
  <1>7. TaskShapes'
    <2>1. Tail(pipe["main"]) \in Seq(ReturnEvent)
      BY <1>1, <1>3, HeadTailProperties
    <2>2. pipe' \in [Threads -> Seq(ReturnEvent)]
      BY <1>1, <1>3, <2>1
    <2>3. QED
      BY <1>6, <2>2 DEF TaskShapes
  <1>8. ASSUME NEW r \in Tasks \X Outs PROVE OneUse(r)'
    <2> DEFINE mine == e \in EventsOf(r)
    <2>1. AskedFor(r)' = AskedFor(r)
      BY <1>2 DEF AskedFor
    <2>2. Shifts(AnswerFor(r), AnswerFor(r)', "main", mine)
      <3>1. EventsOf(r)' = EventsOf(r)
        BY DEF EventsOf, ReturnEvent
      <3>2. Shifts(Marks(pipe, EventsOf(r)), Marks([pipe EXCEPT !["main"] = Tail(@)], EventsOf(r)),
                   "main", Head(pipe["main"]) \in EventsOf(r))
        BY <1>1, <1>3, TailMarks
      <3>3. QED
        BY <1>1, <3>1, <3>2 DEF AnswerFor
    <2>3. mine <=> e.task = r[1] /\ e.out = r[2]
      BY DEF EventsOf
    <2>4. r[1] \in Tasks /\ r[2] \in Outs
      OBVIOUS
    <2>5. task'[r[1]].status = "new" => task[r[1]].status = "new"
      BY <1>1, <1>6, <2>4
    <2> HIDE DEF mine
    <2>6. OneUse(r)
      BY DEF UseInv, OneUses
    <2>7. CASE ~ mine
      <3>1. Timer(r)' => Timer(r)
        BY <1>1, <1>5, <1>6, <2>3, <2>4, <2>7 DEF Timer
      <3>2. LessUse(r)
        BY <1>2, <2>1, <2>2, <2>5, <3>1, FewerFacts, QueueFrame DEF LessUse
      <3>3. QED
        BY <2>6, <3>2, LessUseStep
    <2>8. CASE mine
      <3>1. PICK x \in AnswerFor(r) : x[1] = "main"
        BY <2>2, <2>8 DEF Shifts
      <3>2. /\ AskedFor(r) = {} /\ ~ Timer(r) /\ task[r[1]].status # "new"
            /\ \A f \in Slots : ~ InUse(r, f)
        BY <1>1, <3>1, AnsweredAlone
      <3>3. AnswerFor(r)' = {} /\ AskedFor(r)' = {}
        BY <2>1, <2>2, <2>6, <2>8, <3>2 DEF Shifts, OneUse
      <3>4. \A f \in Slots : ~ InUse(r, f)'
        BY <1>2, <3>2, QueueFrame
      <3>5. AtMostOne(AskedFor(r)') /\ AtMostOne(AnswerFor(r)')
        BY <3>3 DEF AtMostOne
      <3>6. task'[r[1]].status # "new"
        BY <2>5, <3>2
      <3>7. QED
        BY <3>3, <3>4, <3>5, <3>6 DEF OneUse
    <2>9. QED
      BY <2>7, <2>8
  <1>9. QED
    BY <1>2, <1>7, <1>8, QueueFrame DEF OneUses

-----------------------------------------------------------------------------
(* The start of a task. *)

\* A sequence that lists every member of a set once.
Lists(s, S) == /\ s \in Seq(S)
               /\ \A i, j \in 1 .. Len(s) : s[i] = s[j] => i = j
               /\ \A x \in S : \E i \in 1 .. Len(s) : s[i] = x

LEMMA SetToSeqLists == ASSUME NEW S, IsFiniteSet(S) PROVE Lists(SetToSeq(S), S)
  <1>1. PICK n \in Nat : n = Cardinality(S)
    BY FS_CardinalityType
  <1>2. ExistsBijection(1 .. n, S)
    BY <1>1, FS_CardinalityType
  <1>3. \E f \in [1 .. n -> S] : IsInjective(f)
    BY <1>2 DEF ExistsBijection, Bijection, Injection
  <1>4. PICK s : s = SetToSeq(S)
    OBVIOUS
  <1>5. s \in [1 .. n -> S] /\ IsInjective(s)
    BY <1>1, <1>3, <1>4 DEF SetToSeq
  <1>6. s \in Injection(1 .. n, S)
    BY <1>5 DEF Injection
  <1>7. Cardinality(1 .. n) = n
    BY <1>1, FS_Interval
  <1>8. s \in Surjection(1 .. n, S)
    BY <1>1, <1>6, <1>7, FS_Injection
  <1>9. s \in Seq(S) /\ Len(s) = n
    BY <1>1, <1>5, SeqDef, LenProperties
  <1>10. \A i, j \in 1 .. n : s[i] = s[j] => i = j
    BY <1>5 DEF IsInjective
  <1>11. \A x \in S : \E i \in 1 .. n : s[i] = x
    BY <1>8 DEF Surjection
  <1>12. QED
    BY <1>4, <1>9, <1>10, <1>11 DEF Lists

\* What sequences put at the end of the queues do to the places.
Joins(box, add, new, X, th, k) ==
  <<th, k>> \in Marks(new, X) <=>
    \/ <<th, k>> \in Marks(box, X)
    \/ \E i \in 1 .. Len(add[th]) : k = Len(box[th]) + i /\ add[th][i] \in X

LEMMA ConcatMarks ==
  ASSUME NEW S, NEW box, NEW add, NEW new, NEW X, NEW th \in Threads, NEW k \in Nat,
         box[th] \in Seq(S), add[th] \in Seq(S), new[th] = box[th] \o add[th]
  PROVE  Joins(box, add, new, X, th, k)
  <1>1. PICK m \in Nat, n \in Nat : m = Len(box[th]) /\ n = Len(add[th])
    BY LenProperties
  <1>2. /\ Len(new[th]) = m + n
        /\ \A i \in 1 .. m + n : new[th][i] = IF i <= m THEN box[th][i] ELSE add[th][i - m]
    <2>1. PICK s1 \in Seq(S), s2 \in Seq(S) : s1 = box[th] /\ s2 = add[th]
      OBVIOUS
    <2>2. /\ Len(s1 \o s2) = Len(s1) + Len(s2)
          /\ \A i \in 1 .. Len(s1) + Len(s2) :
               (s1 \o s2)[i] = IF i <= Len(s1) THEN s1[i] ELSE s2[i - Len(s1)]
      BY ConcatProperties
    <2>3. QED
      BY <1>1, <2>1, <2>2
  <1>3. <<th, k>> \in Marks(new, X) <=> k \in 1 .. m + n /\ new[th][k] \in X
    BY <1>2 DEF Marks
  <1>4. <<th, k>> \in Marks(box, X) <=> k \in 1 .. m /\ box[th][k] \in X
    BY <1>1 DEF Marks
  <1>5. /\ \A i \in 1 .. n : m + i \notin 1 .. m /\ m + i \in 1 .. m + n
        /\ k \in 1 .. m => k \in 1 .. m + n /\ k <= m
        /\ k \in 1 .. m + n => k \in 1 .. m \/ \E i \in 1 .. n : k = m + i
        /\ \A i \in 1 .. n : (m + i) - m = i /\ ~ (m + i <= m)
    OBVIOUS
  <1>6. <<th, k>> \in Marks(new, X) <=>
          \/ <<th, k>> \in Marks(box, X)
          \/ \E i \in 1 .. n : k = m + i /\ add[th][i] \in X
    <2>1. CASE k \in 1 .. m
      BY <1>2, <1>3, <1>4, <1>5, <2>1
    <2>2. ASSUME NEW i \in 1 .. n, k = m + i
          PROVE  <<th, k>> \in Marks(new, X) <=> add[th][i] \in X
      BY <1>2, <1>3, <1>5, <2>2
    <2>3. CASE k \notin 1 .. m
      <3>1. ~ (<<th, k>> \in Marks(box, X))
        BY <1>4, <2>3
      <3>2. <<th, k>> \in Marks(new, X) => \E i \in 1 .. n : k = m + i
        BY <1>3, <1>5, <2>3
      <3>3. QED
        BY <2>2, <3>1, <3>2
    <2>4. QED
      BY <2>1, <2>3
  <1>7. QED
    BY <1>1, <1>6 DEF Joins

\* The requests for a task.
RequestsOf(t) == {t} \X Outs
AskedOf(t)    == Marks(inbox, RequestsOf(t))

\* Every route of the task is asked for once.
Spreads(t, box) ==
  /\ \A x \in Marks(box, RequestsOf(t)) : box[x[1]][x[2]][2] \in OutsOf(t)
  /\ \A x, y \in Marks(box, RequestsOf(t)) : box[x[1]][x[2]][2] = box[y[1]][y[2]][2] => x = y
  /\ \A o \in OutsOf(t) : \E x \in Marks(box, RequestsOf(t)) : box[x[1]][x[2]][2] = o

LEMMA StartAsks ==
  ASSUME Shapes, NEW t \in Tasks, StartTask(t)
  PROVE  /\ \A X : X \cap RequestsOf(t) = {} => Marks(inbox', X) = Marks(inbox, X)
         /\ AskedOf(t) = {} => Spreads(t, inbox')
  <1> DEFINE asked(th) == {<<t, o>> : o \in {p \in OutsOf(t) : ThreadOf(p) = th}}
  <1>1. PICK add : add = [th \in Threads |-> SetToSeq(asked(th))]
    OBVIOUS
  <1>2. ASSUME NEW th \in Threads PROVE Lists(add[th], asked(th)) /\ asked(th) \subseteq RequestsOf(t)
    <2>1. asked(th) \in SUBSET Routes
      BY FlushAssumption DEF OutsOf
    <2>2. IsFiniteSet(asked(th))
      BY <2>1, FlushAssumption, FS_Subset
    <2>3. Lists(SetToSeq(asked(th)), asked(th))
      BY <2>2, SetToSeqLists
    <2>4. QED
      <3>1. asked(th) \subseteq RequestsOf(t)
        <4>1. ASSUME NEW o \in OutsOf(t) PROVE <<t, o>> \in RequestsOf(t)
          BY DEF OutsOf, RequestsOf
        <4>2. QED
          BY <4>1
      <3>2. add[th] = SetToSeq(asked(th))
        BY <1>1
      <3> HIDE DEF asked
      <3>3. QED
        BY <2>3, <3>1, <3>2
  <1>3. ASSUME NEW th \in Threads PROVE inbox'[th] = inbox[th] \o add[th]
    BY <1>1 DEF StartTask
  <1>4. ASSUME NEW th \in Threads PROVE add[th] \in Seq(Tasks \X Outs)
    <2>1. add[th] \in Seq(asked(th)) /\ asked(th) \subseteq Tasks \X Outs
      BY <1>2 DEF Lists, RequestsOf
    <2>2. QED
      BY <2>1, ElementOfSeq, LenProperties, SeqDef
  <1>5. add \in [Threads -> Seq(Tasks \X Outs)] /\ inbox \in [Threads -> Seq(Tasks \X Outs)]
    BY <1>1, <1>4 DEF Shapes
  <1>6. ASSUME NEW X, NEW th \in Threads, NEW k \in Nat
        PROVE  <<th, k>> \in Marks(inbox', X) <=>
                 \/ <<th, k>> \in Marks(inbox, X)
                 \/ \E i \in 1 .. Len(add[th]) : k = Len(inbox[th]) + i /\ add[th][i] \in X
    <2>1. /\ inbox'[th] = inbox[th] \o add[th]
          /\ inbox[th] \in Seq(Tasks \X Outs) /\ add[th] \in Seq(Tasks \X Outs)
      BY <1>3, <1>5
    <2>2. Joins(inbox, add, inbox', X, th, k)
      BY <2>1, ConcatMarks
    <2>3. QED
      BY <2>2 DEF Joins
  <1>7. ASSUME NEW th \in Threads, NEW i \in 1 .. Len(add[th])
        PROVE  \E o \in OutsOf(t) : ThreadOf(o) = th /\ add[th][i] = <<t, o>>
    <2>1. add[th] \in Seq(asked(th))
      BY <1>2 DEF Lists
    <2>2. add[th][i] \in asked(th)
      BY <2>1, ElementOfSeq
    <2>3. QED
      BY <2>2
  <1>8. ASSUME NEW X, X \cap RequestsOf(t) = {} PROVE Marks(inbox', X) = Marks(inbox, X)
    <2>1. ASSUME NEW th \in Threads, NEW k \in Nat
          PROVE  <<th, k>> \in Marks(inbox', X) <=> <<th, k>> \in Marks(inbox, X)
      <3>1. ASSUME NEW i \in 1 .. Len(add[th]) PROVE add[th][i] \notin X
        <4>1. PICK o \in OutsOf(t) : add[th][i] = <<t, o>>
          BY <1>7
        <4>2. <<t, o>> \in RequestsOf(t)
          BY DEF OutsOf, RequestsOf
        <4>3. QED
          BY <1>8, <4>1, <4>2
      <3>2. QED
        BY <1>6, <3>1
    <2>2. ASSUME NEW m \in Threads \X Nat
          PROVE  m \in Marks(inbox', X) <=> m \in Marks(inbox, X)
      <3>1. m = <<m[1], m[2]>> /\ m[1] \in Threads /\ m[2] \in Nat
        OBVIOUS
      <3>2. QED
        BY <2>1, <3>1
    <2>3. Marks(inbox', X) \subseteq Threads \X Nat /\ Marks(inbox, X) \subseteq Threads \X Nat
      BY DEF Marks
    <2>4. QED
      BY <2>2, <2>3
  <1>9. ASSUME AskedOf(t) = {} PROVE Spreads(t, inbox')
    <2> DEFINE now == Marks(inbox', RequestsOf(t))
               out(x) == inbox'[x[1]][x[2]][2]
    <2>1. ASSUME NEW x \in now
          PROVE  \E i \in 1 .. Len(add[x[1]]) : \E o \in OutsOf(t) :
                   /\ x = <<x[1], Len(inbox[x[1]]) + i>> /\ x[1] \in Threads
                   /\ ThreadOf(o) = x[1] /\ add[x[1]][i] = <<t, o>> /\ out(x) = o
      <3>1. PICK th \in Threads, k \in Nat : x = <<th, k>>
        BY DEF Marks
      <3>2. PICK i \in 1 .. Len(add[th]) : k = Len(inbox[th]) + i
        <4>1. <<th, k>> \notin Marks(inbox, RequestsOf(t))
          BY <1>9 DEF AskedOf
        <4>2. <<th, k>> \in Marks(inbox', RequestsOf(t))
          BY <3>1
        <4>3. QED
          BY <1>6, <4>1, <4>2
      <3>3. PICK o \in OutsOf(t) : ThreadOf(o) = th /\ add[th][i] = <<t, o>>
        BY <1>7
      <3>4. inbox'[th][k] = add[th][i]
        <4>1. PICK m \in Nat, n \in Nat : m = Len(inbox[th]) /\ n = Len(add[th])
          BY <1>5, LenProperties
        <4>2. \A j \in 1 .. m + n : inbox'[th][j] = IF j <= m THEN inbox[th][j] ELSE add[th][j - m]
          BY <1>3, <1>5, <4>1, ConcatProperties
        <4>3. k \in 1 .. m + n /\ ~ (k <= m) /\ k - m = i
          <5>1. i \in 1 .. n /\ k = m + i
            BY <3>2, <4>1
          <5>2. QED
            BY <5>1
        <4>4. QED
          BY <4>2, <4>3
      <3>5. QED
        BY <3>1, <3>2, <3>3, <3>4
    <2>2. \A x \in now : out(x) \in OutsOf(t)
      BY <2>1
    <2>3. ASSUME NEW x \in now, NEW y \in now, out(x) = out(y) PROVE x = y
      <3>1. PICK i \in 1 .. Len(add[x[1]]) : \E o \in OutsOf(t) :
                   /\ x = <<x[1], Len(inbox[x[1]]) + i>> /\ x[1] \in Threads
                   /\ ThreadOf(o) = x[1] /\ add[x[1]][i] = <<t, o>> /\ out(x) = o
        BY <2>1
      <3>2. PICK j \in 1 .. Len(add[y[1]]) : \E o \in OutsOf(t) :
                   /\ y = <<y[1], Len(inbox[y[1]]) + j>> /\ y[1] \in Threads
                   /\ ThreadOf(o) = y[1] /\ add[y[1]][j] = <<t, o>> /\ out(y) = o
        BY <2>1
      <3> HIDE DEF out, now
      <3>3. x[1] = y[1] /\ add[x[1]][i] = add[x[1]][j] /\ x[1] \in Threads
        BY <2>3, <3>1, <3>2
      <3>4. i = j
        BY <1>2, <3>3 DEF Lists
      <3>5. QED
        BY <3>1, <3>2, <3>3, <3>4
    <2>4. ASSUME NEW o \in OutsOf(t) PROVE \E x \in now : out(x) = o
      <3>1. PICK th \in Threads : th = ThreadOf(o)
        BY ThreadFacts
      <3>2. <<t, o>> \in asked(th)
        BY <3>1
      <3>3. PICK i \in 1 .. Len(add[th]) : add[th][i] = <<t, o>>
        BY <1>2, <3>2 DEF Lists
      <3>4. PICK k \in Nat : k = Len(inbox[th]) + i
        <4>1. Len(inbox[th]) \in Nat /\ Len(add[th]) \in Nat
          BY <1>5, LenProperties
        <4>2. QED
          BY <4>1
      <3>5. <<t, o>> \in RequestsOf(t)
        BY DEF RequestsOf, OutsOf
      <3>6. <<th, k>> \in now
        <4>1. \E j \in 1 .. Len(add[th]) : k = Len(inbox[th]) + j /\ add[th][j] \in RequestsOf(t)
          BY <3>3, <3>4, <3>5
        <4>2. QED
          BY <1>6, <4>1
      <3>7. PICK x \in now : x = <<th, k>>
        BY <3>6
      <3>8. PICK j \in 1 .. Len(add[x[1]]), p \in OutsOf(t) :
                   /\ x = <<x[1], Len(inbox[x[1]]) + j>> /\ x[1] \in Threads
                   /\ ThreadOf(p) = x[1] /\ add[x[1]][j] = <<t, p>> /\ out(x) = p
        BY <2>1
      <3> HIDE DEF out, now
      <3>9. Len(inbox[th]) + j = Len(inbox[th]) + i /\ x[1] = th
        BY <3>4, <3>7, <3>8
      <3>10. j = i
        <4>1. Len(inbox[th]) \in Nat /\ Len(add[th]) \in Nat
          BY <1>5, LenProperties
        <4>2. QED
          BY <3>9, <4>1
      <3>11. <<t, p>> = <<t, o>>
        BY <3>3, <3>8, <3>9, <3>10
      <3>12. QED
        BY <3>8, <3>11
    <2>5. QED
      BY <2>2, <2>3, <2>4 DEF Spreads
  <1>10. QED
    BY <1>8, <1>9

\* A task has finitely many routes.
LEMMA OutsFinite == ASSUME NEW t PROVE IsFiniteSet(OutsOf(t))
  <1> DEFINE rs == {r \in Routes : r[1] = t}
  <1>1. IsFiniteSet(rs)
    BY FlushAssumption, FS_Subset
  <1>2. PICK F : F = [r \in rs |-> r[2]]
    OBVIOUS
  <1>3. F \in Surjection(rs, OutsOf(t))
    <2>1. \A r \in rs : r = <<t, r[2]>> /\ r[2] \in OutsOf(t)
      BY FlushAssumption DEF OutsOf
    <2>2. ASSUME NEW o \in OutsOf(t) PROVE <<t, o>> \in rs /\ F[<<t, o>>] = o
      BY <1>2 DEF OutsOf
    <2>3. QED
      BY <1>2, <2>1, <2>2 DEF Surjection
  <1>4. QED
    BY <1>1, <1>3, FS_Surjection

\* A started task has one request for each of its routes and nothing else.
LEMMA StartUse ==
  ASSUME UseInv, NEW t \in Tasks, StartTask(t)
  PROVE  TaskShapes' /\ OneUses' /\ OwnParams' /\ ActiveIffFlushing'
  <1> DEFINE n == Cardinality(OutsOf(t))
             d == [task[t] EXCEPT !.status = "running", !.users = n]
  <1>1. /\ task[t].status = "new" /\ UNCHANGED <<flush, route, pipe>>
        /\ task' = [task EXCEPT ![t].status = "running", ![t].users = n]
    BY DEF StartTask
  <1>2. task \in [Tasks -> TaskShape] /\ task[t] \in TaskShape
    BY DEF UseInv, TaskShapes
  <1>3. n \in Nat
    BY OutsFinite, FS_CardinalityType
  <1> HIDE DEF n
  <1>4. task' = [task EXCEPT ![t] = d]
    BY <1>1, <1>2
  <1>5. d \in TaskShape /\ d.status = "running" /\ d.retries = task[t].retries
    <2>1. PICK tk \in TaskShape, k \in Int : tk = task[t] /\ k = n
      BY <1>2, <1>3
    <2>2. PICK m : m = [tk EXCEPT !.status = "running", !.users = k]
      OBVIOUS
    <2>3. m \in TaskShape /\ m.status = "running" /\ m.retries = tk.retries /\ m.users = k
      BY <2>2 DEF TaskShape
    <2>4. QED
      BY <2>1, <2>2, <2>3
  <1> HIDE DEF d
  <1>6. /\ task' \in [Tasks -> TaskShape] /\ task'[t] = d
        /\ \A u \in Tasks : u # t => task'[u] = task[u]
    BY <1>2, <1>4, <1>5
  <1>7. TaskShapes'
    BY <1>1, <1>6 DEF UseInv, TaskShapes
  <1>8. \A o \in Outs : /\ AskedFor(<<t, o>>) = {} /\ AnswerFor(<<t, o>>) = {} /\ ~ Timer(<<t, o>>)
                        /\ \A f \in Slots : ~ InUse(<<t, o>>, f)
    <2>1. ASSUME NEW o \in Outs
          PROVE  /\ AskedFor(<<t, o>>) = {} /\ AnswerFor(<<t, o>>) = {} /\ ~ Timer(<<t, o>>)
                 /\ \A f \in Slots : ~ InUse(<<t, o>>, f)
      <3>1. PICK r \in Tasks \X Outs : r = <<t, o>>
        OBVIOUS
      <3>2. OneUse(r) /\ task[r[1]].status = "new"
        BY <1>1, <3>1 DEF UseInv, OneUses
      <3>3. AskedFor(r) = {} /\ AnswerFor(r) = {} /\ ~ Timer(r) /\ \A f \in Slots : ~ InUse(r, f)
        BY <3>2 DEF OneUse
      <3>4. QED
        BY <3>1, <3>3
    <2>2. QED
      BY <2>1
  <1>9. AskedOf(t) = {}
    <2>1. ASSUME NEW x \in AskedOf(t) PROVE FALSE
      <3>1. PICK o \in Outs : inbox[x[1]][x[2]] = <<t, o>>
        BY DEF AskedOf, Marks, RequestsOf
      <3>2. x \in AskedFor(<<t, o>>)
        BY <3>1 DEF AskedOf, AskedFor, Marks
      <3>3. QED
        BY <1>8, <3>2
    <2>2. QED
      BY <2>1
  <1>10. /\ \A X : X \cap RequestsOf(t) = {} => Marks(inbox', X) = Marks(inbox, X)
         /\ Spreads(t, inbox')
    BY <1>9, StartAsks DEF UseInv, FlushInv
  <1>11. ASSUME NEW r \in Tasks \X Outs PROVE OneUse(r)'
    <2>1. AnswerFor(r)' = AnswerFor(r) /\ r[1] \in Tasks /\ r[2] \in Outs /\ r = <<r[1], r[2]>>
      BY <1>1 DEF AnswerFor, EventsOf, ReturnEvent
    <2>2. OneUse(r)
      BY DEF UseInv, OneUses
    <2>3. CASE r[1] # t
      <3>1. {r} \cap RequestsOf(t) = {}
        BY <2>1, <2>3 DEF RequestsOf
      <3>2. AskedFor(r)' = AskedFor(r)
        BY <1>10, <3>1 DEF AskedFor
      <3>3. task'[r[1]] = task[r[1]]
        BY <1>6, <2>1, <2>3
      <3>4. LessUse(r)
        BY <1>1, <2>1, <3>2, <3>3, FewerFacts, QueueFrame DEF LessUse, Timer
      <3>5. QED
        BY <2>2, <3>4, LessUseStep
    <2>4. CASE r[1] = t
      <3>1. PICK o \in Outs : r = <<t, o>>
        BY <2>1, <2>4
      <3>2. AnswerFor(r)' = {} /\ \A f \in Slots : ~ InUse(r, f)'
        BY <1>1, <1>8, <2>1, <3>1, QueueFrame
      <3>3. ~ Timer(r)' /\ task'[r[1]].status # "new"
        BY <1>5, <1>6, <1>8, <2>4, <3>1 DEF Timer
      <3>4. ASSUME NEW x \in AskedFor(r)'
            PROVE  x \in Marks(inbox', RequestsOf(t)) /\ inbox'[x[1]][x[2]][2] = o
        <4>1. x \in Threads \X Nat /\ x[2] \in 1 .. Len(inbox'[x[1]]) /\ inbox'[x[1]][x[2]] = r
          BY DEF AskedFor, Marks
        <4>2. r \in RequestsOf(t)
          BY <3>1 DEF RequestsOf
        <4>3. QED
          BY <3>1, <4>1, <4>2 DEF Marks
      <3>5. AtMostOne(AskedFor(r)')
        BY <1>10, <3>4 DEF AtMostOne, Spreads
      <3>6. AtMostOne(AnswerFor(r)')
        BY <3>2 DEF AtMostOne
      <3>7. QED
        BY <3>2, <3>3, <3>5, <3>6 DEF OneUse
    <2>5. QED
      BY <2>3, <2>4
  <1>12. QED
    BY <1>1, <1>7, <1>11, QueueFrame DEF OneUses

-----------------------------------------------------------------------------
\* At the start no route is in use.
LEMMA UseInitially == ASSUME FlushInit PROVE UseInv
  <1>1. FlushInv
    BY FlushInitially
  <1>2. TaskShapes
    <2>1. pipe \in [Threads -> Seq(ReturnEvent)]
      BY EmptySeq DEF FlushInit
    <2>2. [status |-> "new", users |-> 0, retries |-> [o \in Outs |-> "none"]] \in TaskShape
      BY DEF TaskShape
    <2>3. QED
      BY <2>1, <2>2 DEF FlushInit, TaskShapes
  <1>4. \A f \in Slots : ~ Live(f)
    BY DEF FlushInit, Live
  <1>5. OneUses
    <2>1. ASSUME NEW r \in Tasks \X Outs PROVE OneUse(r)
      <3>1. AskedFor(r) = {} /\ AnswerFor(r) = {}
        BY NoMarks DEF FlushInit, AskedFor, AnswerFor
      <3>2. ~ Timer(r)
        BY DEF FlushInit, Timer
      <3>3. QED
        BY <1>4, <3>1, <3>2 DEF OneUse, AtMostOne, InUse
    <2>2. QED
      BY <2>1 DEF OneUses
  <1>6. OwnParams /\ ActiveIffFlushing
    BY <1>4 DEF OwnParams, ActiveIffFlushing, FlushInit
  <1>7. QED
    BY <1>1, <1>2, <1>5, <1>6 DEF UseInv

\* Every action keeps the use of the routes in order.
LEMMA UseStep == ASSUME UseInv, [FlushNext]_flushVars PROVE UseInv'
  <1> DEFINE Kept == TaskShapes' /\ OneUses' /\ OwnParams' /\ ActiveIffFlushing'
  <1>1. FlushInv'
    BY FlushStep DEF UseInv
  <1>2. ASSUME UNCHANGED flushVars PROVE Kept
    <2>1. UNCHANGED <<task, route, flush, inbox, pipe>>
      BY <1>2 DEF flushVars
    <2>2. TaskShapes'
      BY <2>1 DEF UseInv, TaskShapes
    <2>3. OneUses'
      BY <2>1, QuietStep DEF UseInv, InUse, Live, PairOf, HomeOf
    <2>4. QED
      BY <2>1, <2>2, <2>3, QueueFrame
  <1>3. ASSUME NEW f \in Slots, Resume(f) PROVE Kept
    <2>1. UNCHANGED <<inbox, pipe, task, route>>
      BY <1>3 DEF Resume
    <2>2. CASE Hop(f, Working, Working)
      BY <2>1, <2>2, QuietHopStep DEF Working
    <2>3. CASE Hop(f, Idling, Idling)
      BY <2>1, <2>3, QuietHopStep DEF Working, Idling
    <2>4. QED
      BY <1>3, <2>2, <2>3, ResumeHop DEF UseInv
  <1>4. ASSUME NEW f \in Slots, LockRoute(f) PROVE Kept
    <2>1. UNCHANGED <<inbox, pipe, task, route>> /\ Hop(f, {"entered"}, {"locked", "dropped"})
      BY <1>4, LockHop DEF LockRoute, UseInv
    <2>2. QED
      BY <2>1, QuietHopStep DEF Working
  <1>5. ASSUME NEW f \in Slots, RefuseDropped(f) PROVE Kept
    <2>1. UNCHANGED <<inbox, pipe, task, route>> /\ Hop(f, {"dropped"}, {"refused"})
      BY <1>5, RefuseHop DEF RefuseDropped, UseInv
    <2>2. QED
      BY <2>1, QuietHopStep DEF Working
  <1>6. ASSUME NEW f \in Slots, Yield(f) PROVE Kept
    <2>1. UNCHANGED <<inbox, pipe, task, route>> /\ Hop(f, {"flushing"}, {"waiting"})
      BY <1>6, YieldHop DEF Yield, UseInv
    <2>2. QED
      BY <2>1, QuietHopStep DEF Working
  <1>7. ASSUME NEW f \in Slots, PrepareDestroy(f) PROVE Kept
    <2>1. UNCHANGED <<inbox, pipe, task, route>> /\ Hop(f, {"notified"}, {"destroying"})
      BY <1>7, PrepareHop DEF PrepareDestroy, UseInv
    <2>2. QED
      BY <2>1, QuietHopStep DEF Working
  <1>8. ASSUME NEW th \in Threads, NEW ret \in {"ok", "retry"}, Finish(th, ret) PROVE Kept
    <2>1. UNCHANGED <<inbox, pipe, task, route>>
      BY <1>8 DEF Finish
    <2>2. PICK f \in Slots : Hop(f, {"flushing"}, {"returning"})
      BY <1>8, FinishHop DEF UseInv
    <2>3. QED
      BY <2>1, <2>2, QuietHopStep DEF Working
  <1>9. ASSUME NEW f \in Slots, CoroutineStep(f) \/ Yield(f) \/ Notify(f, FALSE) PROVE Kept
    BY <1>3, <1>4, <1>5, <1>6, <1>7, <1>9, CallUse, NotifyUse, DestroyUse DEF CoroutineStep
  <1>10. ASSUME NEW t \in Tasks, StartTask(t) \/ \E o \in Outs : RetryTask(t, o) PROVE Kept
    BY <1>10, StartUse, RetryUse
  <1>11. ASSUME NEW th \in Threads,
                \/ \E f \in Slots, noParams \in BOOLEAN : CreateFlush(th, f, noParams)
                \/ CreateFails(th) \/ Forward(th)
         PROVE  Kept
    BY <1>11, CreateUse, CreateFailsUse, ForwardUse
  <1>12. Kept
    BY <1>2, <1>8, <1>9, <1>10, <1>11, ReturnUse, DropUse DEF FlushNext
  <1>13. QED
    BY <1>1, <1>12 DEF UseInv

-----------------------------------------------------------------------------
(* The users of a task. *)

\* A set gains k members.
Adds(old, new, k) == IsFiniteSet(old) =>
                       IsFiniteSet(new) /\ Cardinality(new) = Cardinality(old) + k

LEMMA AddsNothing == ASSUME NEW old, NEW new, new = old PROVE Adds(old, new, 0)
  BY FS_CardinalityType DEF Adds

LEMMA AddsOne == ASSUME NEW old, NEW new, NEW x, x \notin old, new = old \cup {x} PROVE Adds(old, new, 1)
  BY FS_AddElement DEF Adds

LEMMA TakesOne == ASSUME NEW old, NEW new, NEW x, x \in old, new = old \ {x} PROVE Adds(old, new, -1)
  <1>1. IsFiniteSet(old) => IsFiniteSet(new) /\ Cardinality(new) = Cardinality(old) - 1
    BY FS_RemoveElement
  <1>2. IsFiniteSet(old) => Cardinality(old) \in Nat
    BY FS_CardinalityType
  <1>3. QED
    BY <1>1, <1>2 DEF Adds

LEMMA AddsBoth ==
  ASSUME NEW A, NEW B, NEW C, NEW i \in Int, NEW j \in Int, Adds(A, B, i), Adds(B, C, j)
  PROVE  Adds(A, C, i + j)
  <1>1. IsFiniteSet(A) => Cardinality(A) \in Nat
    BY FS_CardinalityType
  <1>2. QED
    BY <1>1 DEF Adds

\* A queue's places after the first element left, and after one was put at its end.
LEMMA QueueAdds ==
  ASSUME NEW old, NEW new, NEW th, NEW place, NEW inX \in BOOLEAN
  PROVE  /\ Shifts(old, new, th, inX) => Adds(old, new, IF inX THEN -1 ELSE 0)
         /\ Grows(old, new, place, inX) => Adds(old, new, IF inX THEN 1 ELSE 0)
  <1>1. IsFiniteSet(old) => Cardinality(old) \in Nat
    BY FS_CardinalityType
  <1>2. Shifts(old, new, th, inX) => Adds(old, new, IF inX THEN -1 ELSE 0)
    BY <1>1 DEF Shifts, Adds
  <1>3. CASE inX
    BY <1>2, <1>3, AddsOne DEF Grows
  <1>4. CASE ~ inX
    BY <1>2, <1>4, AddsNothing DEF Grows
  <1>5. QED
    BY <1>3, <1>4

\* The return events of a task.
AnswersTo(t)  == {e \in ReturnEvent : e.task = t}
AnsweredOf(t) == Marks(pipe, AnswersTo(t))

Tally(t) ==
  /\ IsFiniteSet(AskedOf(t)) /\ IsFiniteSet(Unanswered(t)) /\ IsFiniteSet(AnsweredOf(t))
  /\ task[t].users = Cardinality(AskedOf(t)) + Cardinality(Unanswered(t))
                     + Cardinality(AnsweredOf(t)) + lost[t]

\* A task that is new or released has no user, a released one no retry.
Ends(t) ==
  /\ task[t].status = "new" => task[t].users = 0
  /\ task[t].status = "destroyed" =>
       task[t].users = 0 /\ \A o \in Outs : task[t].retries[o] = "none"

\* The lock is held by a flush that looks at its route.
LockHeld(t) == lock[t] # NULL =>
                 \E f \in Unanswered(t) : flush[f].at \in {"locked", "dropped"}

Counted == /\ lost \in [Tasks -> Nat]
           /\ \A t \in Tasks : Tally(t) /\ Ends(t) /\ LockHeld(t)

CountInv == UseInv /\ Counted

\* Each kind of user adds what it adds to the count.
LEMMA TallyStep ==
  ASSUME Counted, TaskShapes, NEW t \in Tasks, NEW a \in Int, NEW b \in Int, NEW c \in Int, NEW l \in Int,
         Adds(AskedOf(t), AskedOf(t)', a), Adds(Unanswered(t), Unanswered(t)', b),
         Adds(AnsweredOf(t), AnsweredOf(t)', c), lost'[t] = lost[t] + l,
         task'[t].users = task[t].users + (a + b + c + l)
  PROVE  Tally(t)'
  <1>1. Tally(t) /\ lost[t] \in Nat
    BY DEF Counted
  <1>2. /\ IsFiniteSet(AskedOf(t)) /\ IsFiniteSet(Unanswered(t)) /\ IsFiniteSet(AnsweredOf(t))
        /\ task[t].users = Cardinality(AskedOf(t)) + Cardinality(Unanswered(t))
                           + Cardinality(AnsweredOf(t)) + lost[t]
    BY <1>1 DEF Tally
  <1>3. /\ Cardinality(AskedOf(t)) \in Nat /\ Cardinality(Unanswered(t)) \in Nat
        /\ Cardinality(AnsweredOf(t)) \in Nat
    BY <1>2, FS_CardinalityType
  <1>4. /\ IsFiniteSet(AskedOf(t)') /\ IsFiniteSet(Unanswered(t)') /\ IsFiniteSet(AnsweredOf(t)')
        /\ Cardinality(AskedOf(t)') = Cardinality(AskedOf(t)) + a
        /\ Cardinality(Unanswered(t)') = Cardinality(Unanswered(t)) + b
        /\ Cardinality(AnsweredOf(t)') = Cardinality(AnsweredOf(t)) + c
    BY <1>2 DEF Adds
  <1>5. task'[t].users = Cardinality(AskedOf(t)') + Cardinality(Unanswered(t)')
                         + Cardinality(AnsweredOf(t)') + lost'[t]
    BY <1>1, <1>2, <1>3, <1>4
  <1>6. QED
    BY <1>4, <1>5 DEF Tally

\* A task with a user is neither new nor released.
LEMMA InUseRuns ==
  ASSUME Counted, NEW t \in Tasks, AskedOf(t) # {} \/ Unanswered(t) # {} \/ AnsweredOf(t) # {}
  PROVE  task[t].users # 0 /\ task[t].status \notin {"new", "destroyed"}
  <1>1. Tally(t) /\ Ends(t) /\ lost[t] \in Nat
    BY DEF Counted
  <1>2. /\ Cardinality(AskedOf(t)) \in Nat /\ Cardinality(Unanswered(t)) \in Nat
        /\ Cardinality(AnsweredOf(t)) \in Nat
        /\ Cardinality(AskedOf(t)) = 0 => AskedOf(t) = {}
        /\ Cardinality(Unanswered(t)) = 0 => Unanswered(t) = {}
        /\ Cardinality(AnsweredOf(t)) = 0 => AnsweredOf(t) = {}
    BY <1>1, FS_CardinalityType, FS_EmptySet DEF Tally
  <1>3. task[t].users # 0
    BY <1>1, <1>2 DEF Tally
  <1>4. QED
    BY <1>1, <1>3 DEF Ends

\* The lock stays where it is, and so does the flush that holds it.
LEMMA LocksKept ==
  ASSUME Counted, lock' = lock,
         \A g \in Slots : Live(g) /\ flush[g].at \in {"locked", "dropped"} => flush'[g] = flush[g],
         NEW t \in Tasks
  PROVE  LockHeld(t)'
  <1>1. CASE lock[t] = NULL
    BY <1>1 DEF LockHeld
  <1>2. CASE lock[t] # NULL
    <2>1. PICK f \in Unanswered(t) : flush[f].at \in {"locked", "dropped"}
      BY <1>2 DEF Counted, LockHeld
    <2>2. f \in Slots /\ Live(f) /\ flush'[f] = flush[f]
      BY <2>1 DEF Unanswered
    <2>3. f \in Unanswered(t)' /\ flush'[f].at \in {"locked", "dropped"}
      BY <2>1, <2>2 DEF Unanswered, Live
    <2>4. QED
      BY <2>3 DEF LockHeld
  <1>3. QED
    BY <1>1, <1>2

\* A flush that goes on without an answer, or after it, is counted as before.
Ended == {"notified", "destroying", "stuck"}

LEMMA HopTally ==
  ASSUME CountInv, NEW f, NEW from, NEW to, Hop(f, from, to),
         UNCHANGED <<inbox, pipe, task, lost>>,
         (from \subseteq Ended /\ to \subseteq Ended) \/ (from \cup to) \cap Ended = {}
  PROVE  /\ lost' \in [Tasks -> Nat]
         /\ \A t \in Tasks : Unanswered(t)' = Unanswered(t) /\ Tally(t)' /\ Ends(t)'
  <1>1. /\ f \in Slots /\ Live(f) /\ flush[f].at \in from /\ flush'[f].at \in to
        /\ \A g \in Slots : /\ g # f => flush'[g] = flush[g]
                            /\ Live(g)' <=> Live(g)
                            /\ flush'[g].task = flush[g].task
    BY HopFacts DEF CountInv, UseInv
  <1>2. \A g \in Slots : flush'[g].at \in Ended <=> flush[g].at \in Ended
    BY <1>1
  <1>3. ASSUME NEW t \in Tasks PROVE Unanswered(t)' = Unanswered(t) /\ Tally(t)' /\ Ends(t)'
    <2>1. Unanswered(t)' = Unanswered(t)
      BY <1>1, <1>2 DEF Unanswered, Ended
    <2>2. AskedOf(t)' = AskedOf(t) /\ AnsweredOf(t)' = AnsweredOf(t)
      BY DEF AskedOf, AnsweredOf, RequestsOf, AnswersTo, ReturnEvent
    <2>3. Tally(t) /\ Ends(t)
      BY DEF CountInv, Counted
    <2>4. Tally(t)'
      BY <2>1, <2>2, <2>3 DEF Tally
    <2>5. Ends(t)'
      BY <2>3 DEF Ends
    <2>6. QED
      BY <2>1, <2>4, <2>5
  <1>4. QED
    BY <1>3 DEF CountInv, Counted

\* Such a step that leaves the lock alone and does not come from under it.
LEMMA QuietCount ==
  ASSUME CountInv, NEW f, NEW from, NEW to, Hop(f, from, to),
         UNCHANGED <<inbox, pipe, task, lost, lock>>,
         (from \subseteq Ended /\ to \subseteq Ended) \/ (from \cup to) \cap Ended = {},
         from \cap {"locked", "dropped"} = {}
  PROVE  Counted'
  <1>1. \A g \in Slots : Live(g) /\ flush[g].at \in {"locked", "dropped"} => flush'[g] = flush[g]
    BY HopFacts DEF CountInv, UseInv
  <1>2. \A t \in Tasks : LockHeld(t)'
    BY <1>1, LocksKept DEF CountInv
  <1>3. QED
    BY <1>2, HopTally DEF Counted

\* The lock is taken by a flush of a task that is not released.
LEMMA LockCount ==
  ASSUME CountInv, NEW f \in Slots, LockRoute(f) PROVE Counted'
  <1>1. Hop(f, {"entered"}, {"locked", "dropped"})
    BY LockHop DEF CountInv, UseInv
  <1>2. /\ Live(f) /\ flush[f].at = "entered" /\ flush'[f].at \in {"locked", "dropped"}
        /\ \A g \in Slots : g # f => flush'[g] = flush[g]
    BY <1>1, HopFacts DEF CountInv, UseInv
  <1>3. UNCHANGED <<inbox, pipe, task, lost>> /\ lock' = [lock EXCEPT ![flush[f].task] = HomeOf(f)]
    BY DEF LockRoute
  <1>4. /\ lost' \in [Tasks -> Nat]
        /\ \A t \in Tasks : Unanswered(t)' = Unanswered(t) /\ Tally(t)' /\ Ends(t)'
    BY <1>1, <1>3, HopTally DEF Ended
  <1>5. ASSUME NEW t \in Tasks PROVE LockHeld(t)'
    <2>1. CASE t = flush[f].task
      <3>1. f \in Unanswered(t)
        BY <1>2, <2>1 DEF Unanswered
      <3>2. QED
        BY <1>2, <1>4, <3>1 DEF LockHeld
    <2>2. CASE t # flush[f].task
      <3>1. lock'[t] = lock[t]
        BY <1>3, <2>2 DEF CountInv, UseInv, FlushInv, Shapes
      <3>2. LockHeld(t)
        BY DEF CountInv, Counted
      <3>3. ASSUME NEW g \in Unanswered(t), flush[g].at \in {"locked", "dropped"}
            PROVE  g \in Unanswered(t)' /\ flush'[g].at \in {"locked", "dropped"}
        BY <1>2, <1>4, <2>2, <3>3 DEF Unanswered
      <3>4. QED
        BY <3>1, <3>2, <3>3 DEF LockHeld
    <2>3. QED
      BY <2>1, <2>2
  <1>6. QED
    BY <1>4, <1>5 DEF Counted

\* The lock is given back by the flush that held it.
LEMMA UnlockCount ==
  ASSUME CountInv, NEW f \in Slots, NEW from, NEW to, Hop(f, from, to),
         UNCHANGED <<inbox, pipe, task, lost>>, (from \cup to) \cap Ended = {},
         lock' = [lock EXCEPT ![flush[f].task] = NULL]
  PROVE  Counted'
  <1>1. \A g \in Slots : g # f => flush'[g] = flush[g]
    BY HopFacts DEF CountInv, UseInv
  <1>2. /\ lost' \in [Tasks -> Nat]
        /\ \A t \in Tasks : Unanswered(t)' = Unanswered(t) /\ Tally(t)' /\ Ends(t)'
    BY HopTally
  <1>3. ASSUME NEW t \in Tasks PROVE LockHeld(t)'
    <2>1. CASE t = flush[f].task
      <3>1. lock'[t] = NULL
        BY <2>1 DEF CountInv, UseInv, FlushInv, Shapes
      <3>2. QED
        BY <3>1 DEF LockHeld
    <2>2. CASE t # flush[f].task
      <3>1. lock'[t] = lock[t]
        BY <2>2 DEF CountInv, UseInv, FlushInv, Shapes
      <3>2. LockHeld(t)
        BY DEF CountInv, Counted
      <3>3. ASSUME NEW g \in Unanswered(t), flush[g].at \in {"locked", "dropped"}
            PROVE  g \in Unanswered(t)' /\ flush'[g].at \in {"locked", "dropped"}
        <4>1. g \in Slots /\ g # f
          BY <2>2 DEF Unanswered
        <4>2. QED
          BY <1>1, <1>2, <3>3, <4>1
      <3>4. QED
        BY <3>1, <3>2, <3>3 DEF LockHeld
    <2>3. QED
      BY <2>1, <2>2
  <1>4. QED
    BY <1>2, <1>3 DEF Counted

\* A context that is freed was not counted.
LEMMA DestroyCount ==
  ASSUME CountInv, NEW f \in Slots, DestroyFlush(f) PROVE Counted'
  <1>1. /\ Live(f) /\ flush[f].at = "destroying" /\ flush' = [flush EXCEPT ![f] = NULL]
        /\ UNCHANGED <<inbox, pipe, task, lost, lock>>
    BY DEF DestroyFlush
  <1>2. flush'[f] = NULL /\ \A g \in Slots : g # f => flush'[g] = flush[g]
    BY <1>1 DEF CountInv, UseInv, FlushInv, Shapes
  <1>3. ASSUME NEW t \in Tasks PROVE Tally(t)' /\ Ends(t)' /\ LockHeld(t)'
    <2>1. Unanswered(t)' = Unanswered(t)
      BY <1>1, <1>2 DEF Unanswered, Live
    <2>2. AskedOf(t)' = AskedOf(t) /\ AnsweredOf(t)' = AnsweredOf(t)
      BY <1>1 DEF AskedOf, AnsweredOf, RequestsOf, AnswersTo, ReturnEvent
    <2>3. Tally(t) /\ Ends(t)
      BY DEF CountInv, Counted
    <2>4. Tally(t)'
      BY <1>1, <2>1, <2>2, <2>3 DEF Tally
    <2>5. Ends(t)'
      BY <1>1, <2>3 DEF Ends
    <2>6. LockHeld(t)'
      BY <1>1, <1>2, LocksKept DEF CountInv
    <2>7. QED
      BY <2>4, <2>5, <2>6
  <1>4. QED
    BY <1>1, <1>3 DEF CountInv, Counted

\* Steps that leave the flushes and the locks alone.
LEMMA FrameCount ==
  ASSUME CountInv, UNCHANGED <<flush, lock>>, NEW t \in Tasks
  PROVE  Unanswered(t)' = Unanswered(t) /\ LockHeld(t)'
  <1>1. Unanswered(t)' = Unanswered(t)
    BY DEF Unanswered, Live
  <1>2. QED
    BY <1>1, LocksKept DEF CountInv

\* A step that changes neither the queues nor the flushes nor the tasks.
LEMMA StillCount ==
  ASSUME CountInv, UNCHANGED <<flush, lock, inbox, pipe, task, lost>> PROVE Counted'
  <1>1. ASSUME NEW t \in Tasks PROVE Tally(t)' /\ Ends(t)' /\ LockHeld(t)'
    <2>1. Unanswered(t)' = Unanswered(t) /\ LockHeld(t)'
      BY FrameCount
    <2>2. AskedOf(t)' = AskedOf(t) /\ AnsweredOf(t)' = AnsweredOf(t)
      BY DEF AskedOf, AnsweredOf, RequestsOf, AnswersTo, ReturnEvent
    <2>3. Tally(t) /\ Ends(t)
      BY DEF CountInv, Counted
    <2>4. Tally(t)' /\ Ends(t)'
      BY <2>1, <2>2, <2>3 DEF Tally, Ends
    <2>5. QED
      BY <2>1, <2>4
  <1>2. QED
    BY <1>1 DEF CountInv, Counted

\* A request or an answer counts for its own task.
LEMMA OwnTask ==
  /\ \A r \in Tasks \X Outs, t \in Tasks : r \in RequestsOf(t) <=> t = r[1]
  /\ \A e \in ReturnEvent, t \in Tasks : e \in AnswersTo(t) <=> t = e.task
  BY DEF RequestsOf, AnswersTo

\* A request becomes a flush, or one that never answers.
LEMMA CreateCount ==
  ASSUME CountInv, NEW th \in Threads, NEW f \in Slots, NEW noParams \in BOOLEAN,
         CreateFlush(th, f, noParams)
  PROVE  Counted'
  <1> DEFINE new(e) == [task |-> e[1], out |-> e[2], persisted |-> IF noParams THEN NULL ELSE f,
                        ret |-> "none", at |-> IF noParams THEN "stuck" ELSE "created"]
  <1>0. inbox \in [Threads -> Seq(Tasks \X Outs)] /\ flush \in [Slots -> FlushRecord \cup {NULL}]
    BY DEF CountInv, UseInv, FlushInv, Shapes
  <1>1. PICK e \in Tasks \X Outs : e = Head(inbox[th])
    BY <1>0, HeadTailProperties DEF CreateFlush
  <1>2. /\ ~ Live(f) /\ inbox[th] # << >> /\ inbox' = [inbox EXCEPT ![th] = Tail(@)]
        /\ flush' = [flush EXCEPT ![f] = new(e)]
        /\ lost' = [lost EXCEPT ![e[1]] = IF noParams THEN @ + 1 ELSE @]
        /\ UNCHANGED <<task, lock, pipe>>
    BY <1>1 DEF CreateFlush
  <1>3. /\ new(e) \in FlushRecord /\ new(e).task = e[1]
        /\ new(e).at = IF noParams THEN "stuck" ELSE "created"
    BY DEF FlushRecord
  <1>4. PICK c \in FlushRecord : c = new(e)
    BY <1>3
  <1>5. /\ flush'[f] = c /\ c # NULL /\ c.task = e[1] /\ c.at = IF noParams THEN "stuck" ELSE "created"
        /\ \A g \in Slots : g # f => flush'[g] = flush[g]
    BY <1>0, <1>2, <1>3, <1>4, ContextAssumption
  <1>6. e[1] \in Tasks /\ lost \in [Tasks -> Nat]
    BY DEF CountInv, Counted
  <1>7. /\ lost' \in [Tasks -> Nat] /\ \A t \in Tasks : t # e[1] => lost'[t] = lost[t]
        /\ lost'[e[1]] = IF noParams THEN lost[e[1]] + 1 ELSE lost[e[1]]
    BY <1>2, <1>6
  <1>8. ASSUME NEW t \in Tasks PROVE Tally(t)' /\ Ends(t)' /\ LockHeld(t)'
    <2> DEFINE mine == e \in RequestsOf(t)
    <2>1. mine <=> t = e[1]
      BY OwnTask
    <2>2. Adds(AskedOf(t), AskedOf(t)', IF mine THEN -1 ELSE 0)
      <3>1. RequestsOf(t)' = RequestsOf(t)
        BY DEF RequestsOf
      <3>2. Shifts(AskedOf(t), AskedOf(t)', th, mine)
        BY <1>0, <1>1, <1>2, <3>1, TailMarks DEF AskedOf
      <3>3. mine \in BOOLEAN
        OBVIOUS
      <3> HIDE DEF mine
      <3>4. QED
        BY <3>2, <3>3, QueueAdds
    <2>3. Adds(AnsweredOf(t), AnsweredOf(t)', 0)
      BY <1>2, AddsNothing DEF AnsweredOf, AnswersTo, ReturnEvent
    <2>4. f \notin Unanswered(t)
      BY <1>2 DEF Unanswered
    <2>5. \A g \in Slots : g # f => (g \in Unanswered(t)' <=> g \in Unanswered(t))
      BY <1>5 DEF Unanswered, Live
    <2>6. f \in Unanswered(t)' <=> t = e[1] /\ ~ noParams
      BY <1>5 DEF Unanswered, Live
    <2>7. Unanswered(t) \subseteq Slots /\ Unanswered(t)' \subseteq Slots
      BY DEF Unanswered
    <2> HIDE DEF mine
    <2>8. Adds(Unanswered(t), Unanswered(t)', IF mine /\ ~ noParams THEN 1 ELSE 0)
      <3>1. CASE mine /\ ~ noParams
        <4>1. Unanswered(t)' = Unanswered(t) \cup {f}
          BY <2>1, <2>5, <2>6, <2>7, <3>1
        <4>2. QED
          BY <2>4, <3>1, <4>1, AddsOne
      <3>2. CASE ~ (mine /\ ~ noParams)
        <4>1. Unanswered(t)' = Unanswered(t)
          BY <2>1, <2>4, <2>5, <2>6, <2>7, <3>2
        <4>2. QED
          BY <3>2, <4>1, AddsNothing
      <3>3. QED
        BY <3>1, <3>2
    <2>9. task[t].users \in Int /\ task'[t].users = task[t].users /\ lost[t] \in Nat
      BY <1>2, <1>6 DEF CountInv, UseInv, TaskShapes, TaskShape
    <2>10. Tally(t)'
      <3>1. CASE mine /\ noParams
        <4>1. Adds(AskedOf(t), AskedOf(t)', -1) /\ Adds(Unanswered(t), Unanswered(t)', 0)
          BY <2>2, <2>8, <3>1
        <4>2. lost'[t] = lost[t] + 1 /\ task'[t].users = task[t].users + (-1 + 0 + 0 + 1)
          BY <1>7, <2>1, <2>9, <3>1
        <4>3. QED
          BY <2>3, <4>1, <4>2, TallyStep DEF CountInv, UseInv
      <3>2. CASE mine /\ ~ noParams
        <4>1. Adds(AskedOf(t), AskedOf(t)', -1) /\ Adds(Unanswered(t), Unanswered(t)', 1)
          BY <2>2, <2>8, <3>2
        <4>2. lost'[t] = lost[t] + 0 /\ task'[t].users = task[t].users + (-1 + 1 + 0 + 0)
          BY <1>7, <2>1, <2>9, <3>2
        <4>3. QED
          BY <2>3, <4>1, <4>2, TallyStep DEF CountInv, UseInv
      <3>3. CASE ~ mine
        <4>1. Adds(AskedOf(t), AskedOf(t)', 0) /\ Adds(Unanswered(t), Unanswered(t)', 0)
          BY <2>2, <2>8, <3>3
        <4>2. lost'[t] = lost[t] + 0 /\ task'[t].users = task[t].users + (0 + 0 + 0 + 0)
          BY <1>7, <2>1, <2>9, <3>3
        <4>3. QED
          BY <2>3, <4>1, <4>2, TallyStep DEF CountInv, UseInv
      <3>4. QED
        BY <3>1, <3>2, <3>3
    <2>11. Ends(t)'
      BY <1>2 DEF CountInv, Counted, Ends
    <2>12. LockHeld(t)'
      BY <1>2, <1>5, LocksKept DEF CountInv
    <2>13. QED
      BY <2>10, <2>11, <2>12
  <1>9. QED
    BY <1>7, <1>8 DEF Counted

\* A task of which one user ends is released with the last one only.
LEMMA DoneEnds ==
  ASSUME CountInv, NEW u \in Tasks, NEW d, task' = [task EXCEPT ![u] = d],
         AskedOf(u) # {} \/ Unanswered(u) # {} \/ AnsweredOf(u) # {},
         \/ d.status = task[u].status
         \/ d.status = "destroyed" /\ d.users = 0 /\ \A o \in Outs : d.retries[o] = "none",
         NEW t \in Tasks
  PROVE  Ends(t)'
  <1>1. task \in [Tasks -> TaskShape] /\ Counted
    BY DEF CountInv, UseInv, TaskShapes
  <1>2. task'[u] = d /\ \A v \in Tasks : v # u => task'[v] = task[v]
    BY <1>1
  <1>3. task[u].status \notin {"new", "destroyed"}
    BY <1>1, InUseRuns
  <1>4. CASE t = u
    BY <1>2, <1>3, <1>4 DEF Ends
  <1>5. CASE t # u
    BY <1>1, <1>2, <1>5 DEF Counted, Ends
  <1>6. QED
    BY <1>4, <1>5

\* A request fails: the engine takes the user back, a worker loses it.
LEMMA CreateFailsCount ==
  ASSUME CountInv, NEW th \in Threads, CreateFails(th) PROVE Counted'
  <1>0. inbox \in [Threads -> Seq(Tasks \X Outs)] /\ task \in [Tasks -> TaskShape]
        /\ lost \in [Tasks -> Nat]
    BY DEF CountInv, Counted, UseInv, FlushInv, Shapes, TaskShapes
  <1>1. PICK e \in Tasks \X Outs : e = Head(inbox[th])
    BY <1>0, HeadTailProperties DEF CreateFails
  <1>2. PICK u \in Tasks, o \in Outs : e = <<u, o>>
    OBVIOUS
  <1> DEFINE m == SetRetry(task[u], o, "none")
             d == flb_task_users_dec(m, TRUE)
  <1>3. /\ inbox[th] # << >> /\ inbox' = [inbox EXCEPT ![th] = Tail(@)]
        /\ UNCHANGED <<flush, lock, pipe>>
        /\ \/ task' = [task EXCEPT ![u] = d] /\ lost' = lost
           \/ task' = task /\ lost' = [lost EXCEPT ![u] = @ + 1]
    <2>1. u = Head(inbox[th])[1] /\ o = Head(inbox[th])[2]
      BY <1>1, <1>2
    <2> HIDE DEF d
    <2>2. CASE th = "main"
      <3>1. task' = [task EXCEPT ![u] = d] /\ lost' = lost
        BY <2>1, <2>2 DEF CreateFails, d
      <3>2. QED
        BY <3>1 DEF CreateFails
    <2>3. CASE th # "main"
      <3>1. task' = task /\ lost' = [lost EXCEPT ![u] = @ + 1]
        BY <2>1, <2>3 DEF CreateFails
      <3>2. QED
        BY <3>1 DEF CreateFails
    <2>4. QED
      BY <2>2, <2>3
  <1>4. m \in TaskShape /\ m.status = task[u].status /\ m.users = task[u].users
    <2>1. PICK k \in TaskShape : k = SetRetry(task[u], o, "none")
      BY <1>0, SetRetryFacts
    <2>2. k.status = task[u].status /\ k.users = task[u].users
      BY <1>0, <2>1, SetRetryFacts
    <2>3. QED
      BY <2>1, <2>2
  <1> HIDE DEF m
  <1>5. /\ d \in TaskShape /\ d.users = task[u].users - 1
        /\ \/ d.status = task[u].status
           \/ d.status = "destroyed" /\ d.users = 0 /\ \A p \in Outs : d.retries[p] = "none"
    <2>1. /\ d \in TaskShape /\ d.users = m.users - 1 /\ d.retries = m.retries
          /\ \/ d.status = m.status
             \/ d.status = "destroyed" /\ d.users = 0 /\ \A p \in Outs : m.retries[p] = "none"
      BY <1>4, DecFacts
    <2> HIDE DEF d
    <2>2. QED
      BY <1>4, <2>1
  <1> HIDE DEF d
  <1>6. ASSUME NEW t \in Tasks
        PROVE  /\ Shifts(AskedOf(t), AskedOf(t)', th, t = u)
               /\ Adds(AskedOf(t), AskedOf(t)', IF t = u THEN -1 ELSE 0)
    <2>1. RequestsOf(t)' = RequestsOf(t) /\ (e \in RequestsOf(t) <=> t = u)
      BY <1>2, OwnTask DEF RequestsOf
    <2>2. Shifts(AskedOf(t), AskedOf(t)', th, e \in RequestsOf(t))
      BY <1>0, <1>1, <1>3, <2>1, TailMarks DEF AskedOf
    <2>3. (e \in RequestsOf(t)) = (t = u)
      BY <2>1
    <2>4. QED
      BY <2>2, <2>3, QueueAdds
  <1>7. AskedOf(u) # {}
    BY <1>6 DEF Shifts
  <1>8. lost' \in [Tasks -> Nat]
    BY <1>0, <1>3
  <1>9. ASSUME NEW t \in Tasks PROVE Tally(t)' /\ Ends(t)' /\ LockHeld(t)'
    <2>1. Unanswered(t)' = Unanswered(t) /\ LockHeld(t)'
      BY <1>3, FrameCount
    <2>2. Adds(AnsweredOf(t), AnsweredOf(t)', 0) /\ Adds(Unanswered(t), Unanswered(t)', 0)
      BY <1>3, <2>1, AddsNothing DEF AnsweredOf, AnswersTo, ReturnEvent
    <2>3. task[t].users \in Int /\ lost[t] \in Nat
      BY <1>0 DEF TaskShape
    <2>4. Tally(t)'
      <3>1. CASE t # u
        <4>1. lost'[t] = lost[t] + 0 /\ task'[t].users = task[t].users + (0 + 0 + 0 + 0)
          BY <1>0, <1>3, <2>3, <3>1
        <4>2. Adds(AskedOf(t), AskedOf(t)', 0)
          BY <1>6, <3>1
        <4>3. QED
          BY <2>2, <4>1, <4>2, TallyStep DEF CountInv, UseInv
      <3>2. CASE t = u /\ task' = task
        <4>1. lost'[t] = lost[t] + 1 /\ task'[t].users = task[t].users + (-1 + 0 + 0 + 1)
          BY <1>0, <1>3, <1>5, <2>3, <3>2
        <4>2. Adds(AskedOf(t), AskedOf(t)', -1)
          BY <1>6, <3>2
        <4>3. QED
          BY <2>2, <4>1, <4>2, TallyStep DEF CountInv, UseInv
      <3>3. CASE t = u /\ task' # task
        <4>1. lost'[t] = lost[t] + 0 /\ task'[t].users = task[t].users + (-1 + 0 + 0 + 0)
          BY <1>0, <1>3, <1>5, <2>3, <3>3
        <4>2. Adds(AskedOf(t), AskedOf(t)', -1)
          BY <1>6, <3>3
        <4>3. QED
          BY <2>2, <4>1, <4>2, TallyStep DEF CountInv, UseInv
      <3>4. QED
        BY <3>1, <3>2, <3>3
    <2>5. Ends(t)'
      <3>1. CASE task' = task
        BY <3>1 DEF CountInv, Counted, Ends
      <3>2. CASE task' = [task EXCEPT ![u] = d]
        BY <1>5, <1>7, <3>2, DoneEnds
      <3>3. QED
        BY <1>3, <3>1, <3>2
    <2>6. QED
      BY <2>1, <2>4, <2>5
  <1>10. QED
    BY <1>8, <1>9 DEF Counted

\* A flush answers: its answer takes its place, or is lost.
LEMMA NotifyCount ==
  ASSUME CountInv, NEW f \in Slots, NEW written \in BOOLEAN, Notify(f, written) PROVE Counted'
  <1> DEFINE e == [ret |-> flush[f].ret, task |-> flush[f].task, out |-> flush[f].out]
  <1>1. PICK h, u : h = HomeOf(f) /\ u = flush[f].task
    OBVIOUS
  <1>2. /\ UNCHANGED <<inbox, task, lock>>
        /\ pipe' = IF written THEN [pipe EXCEPT ![h] = Append(@, e)] ELSE pipe
        /\ lost' = [lost EXCEPT ![u] = IF written THEN @ ELSE @ + 1]
    BY <1>1 DEF Notify, PipeOf
  <1>3. /\ Live(f) /\ flush[f].at \in {"returning", "refused"} /\ flush'[f].at = "notified"
        /\ flush[f] \in FlushRecord
        /\ \A g \in Slots : /\ g # f => flush'[g] = flush[g]
                            /\ Live(g)' <=> Live(g)
                            /\ flush'[g].task = flush[g].task
    <2>1. Hop(f, {"returning", "refused"}, {"notified"})
      BY NotifyHop DEF CountInv, UseInv
    <2>2. QED
      BY <2>1, HopFacts DEF CountInv, UseInv
  <1>4. e \in ReturnEvent /\ e.task = u /\ h \in Threads /\ u \in Tasks
    BY <1>1, <1>3, ThreadFacts DEF ReturnEvent, FlushRecord, HomeOf
  <1> HIDE DEF e
  <1>5. pipe \in [Threads -> Seq(ReturnEvent)] /\ lost \in [Tasks -> Nat]
    BY DEF CountInv, Counted, UseInv, TaskShapes
  <1>6. /\ lost' \in [Tasks -> Nat] /\ \A t \in Tasks : t # u => lost'[t] = lost[t]
        /\ lost'[u] = IF written THEN lost[u] ELSE lost[u] + 1
    BY <1>2, <1>4, <1>5
  <1>7. ASSUME NEW t \in Tasks PROVE Tally(t)' /\ Ends(t)' /\ LockHeld(t)'
    <2>1. Adds(AskedOf(t), AskedOf(t)', 0)
      BY <1>2, AddsNothing DEF AskedOf, RequestsOf
    <2>2. Adds(AnsweredOf(t), AnsweredOf(t)', IF t = u /\ written THEN 1 ELSE 0)
      <3>1. AnswersTo(t)' = AnswersTo(t) /\ ((e \in AnswersTo(t)) = (t = u))
        BY <1>4, OwnTask DEF AnswersTo, ReturnEvent
      <3>2. CASE written
        <4>1. pipe'[h] = Append(pipe[h], e) /\ \A v \in Threads : v # h => pipe'[v] = pipe[v]
          BY <1>2, <1>4, <1>5, <3>2
        <4>2. Grows(AnsweredOf(t), AnsweredOf(t)', <<h, Len(pipe[h]) + 1>>, e \in AnswersTo(t))
          BY <1>4, <1>5, <3>1, <4>1, AppendMarks DEF AnsweredOf
        <4>3. Adds(AnsweredOf(t), AnsweredOf(t)', IF t = u THEN 1 ELSE 0)
          BY <3>1, <4>2, QueueAdds
        <4>4. QED
          BY <3>2, <4>3
      <3>3. CASE ~ written
        <4>1. AnsweredOf(t)' = AnsweredOf(t)
          BY <1>2, <3>1, <3>3 DEF AnsweredOf
        <4>2. QED
          BY <3>3, <4>1, AddsNothing
      <3>4. QED
        BY <3>2, <3>3
    <2>3. Adds(Unanswered(t), Unanswered(t)', IF t = u THEN -1 ELSE 0)
      <3>1. f \in Unanswered(t) <=> t = u
        BY <1>1, <1>3 DEF Unanswered
      <3>2. f \notin Unanswered(t)'
        BY <1>3 DEF Unanswered
      <3>3. \A g \in Slots : g # f => (g \in Unanswered(t)' <=> g \in Unanswered(t))
        BY <1>3 DEF Unanswered
      <3>4. Unanswered(t) \subseteq Slots /\ Unanswered(t)' \subseteq Slots
        BY DEF Unanswered
      <3>5. CASE t = u
        <4>1. Unanswered(t)' = Unanswered(t) \ {f}
          BY <3>2, <3>3, <3>4
        <4>2. QED
          BY <3>1, <3>5, <4>1, TakesOne
      <3>6. CASE t # u
        <4>1. Unanswered(t)' = Unanswered(t)
          BY <3>1, <3>2, <3>3, <3>4, <3>6
        <4>2. QED
          BY <3>6, <4>1, AddsNothing
      <3>7. QED
        BY <3>5, <3>6
    <2>4. task[t].users \in Int /\ task'[t].users = task[t].users /\ lost[t] \in Nat
      BY <1>2, <1>5 DEF CountInv, UseInv, TaskShapes, TaskShape
    <2>5. Tally(t)'
      <3>1. CASE t = u /\ written
        <4>1. Adds(AnsweredOf(t), AnsweredOf(t)', 1) /\ Adds(Unanswered(t), Unanswered(t)', -1)
          BY <2>2, <2>3, <3>1
        <4>2. lost'[t] = lost[t] + 0 /\ task'[t].users = task[t].users + (0 + -1 + 1 + 0)
          BY <1>6, <2>4, <3>1
        <4>3. QED
          BY <2>1, <4>1, <4>2, TallyStep DEF CountInv, UseInv
      <3>2. CASE t = u /\ ~ written
        <4>1. Adds(AnsweredOf(t), AnsweredOf(t)', 0) /\ Adds(Unanswered(t), Unanswered(t)', -1)
          BY <2>2, <2>3, <3>2
        <4>2. lost'[t] = lost[t] + 1 /\ task'[t].users = task[t].users + (0 + -1 + 0 + 1)
          BY <1>6, <2>4, <3>2
        <4>3. QED
          BY <2>1, <4>1, <4>2, TallyStep DEF CountInv, UseInv
      <3>3. CASE t # u
        <4>1. Adds(AnsweredOf(t), AnsweredOf(t)', 0) /\ Adds(Unanswered(t), Unanswered(t)', 0)
          BY <2>2, <2>3, <3>3
        <4>2. lost'[t] = lost[t] + 0 /\ task'[t].users = task[t].users + (0 + 0 + 0 + 0)
          BY <1>6, <2>4, <3>3
        <4>3. QED
          BY <2>1, <4>1, <4>2, TallyStep DEF CountInv, UseInv
      <3>4. QED
        BY <3>1, <3>2, <3>3
    <2>6. Ends(t)'
      BY <1>2 DEF CountInv, Counted, Ends
    <2>7. LockHeld(t)'
      BY <1>2, <1>3, LocksKept DEF CountInv
    <2>8. QED
      BY <2>5, <2>6, <2>7
  <1>8. QED
    BY <1>6, <1>7 DEF Counted

\* A worker passes an answer on: it is counted once, before and after.
LEMMA ForwardCount ==
  ASSUME CountInv, NEW w \in Threads, Forward(w) PROVE Counted'
  <1> DEFINE mid == [pipe EXCEPT ![w] = Tail(@)]
  <1>1. /\ w # "main" /\ pipe[w] # << >> /\ UNCHANGED <<task, inbox, flush, lock, lost>>
        /\ pipe' = [pipe EXCEPT !["main"] = Append(@, Head(pipe[w])), ![w] = Tail(@)]
    BY DEF Forward
  <1>2. pipe \in [Threads -> Seq(ReturnEvent)] /\ "main" \in Threads
    BY DEF CountInv, UseInv, TaskShapes, Threads
  <1>3. PICK e \in ReturnEvent : e = Head(pipe[w])
    BY <1>1, <1>2, HeadTailProperties
  <1>4. mid \in [Threads -> Seq(ReturnEvent)]
    BY <1>1, <1>2, HeadTailProperties
  <1>5. /\ mid["main"] \in Seq(ReturnEvent) /\ pipe'["main"] = Append(mid["main"], e)
        /\ \A v \in Threads : v # "main" => pipe'[v] = mid[v]
    BY <1>1, <1>2, <1>3
  <1>6. ASSUME NEW t \in Tasks PROVE Tally(t)' /\ Ends(t)' /\ LockHeld(t)'
    <2> DEFINE mine == e \in AnswersTo(t)
               kept == Marks(mid, AnswersTo(t))
    <2>1. Shifts(AnsweredOf(t), kept, w, mine)
      BY <1>1, <1>2, <1>3, TailMarks DEF AnsweredOf
    <2>2. Grows(kept, AnsweredOf(t)', <<"main", Len(mid["main"]) + 1>>, mine)
      <3>1. AnswersTo(t)' = AnswersTo(t)
        BY DEF AnswersTo, ReturnEvent
      <3> HIDE DEF mid
      <3>2. Grows(kept, Marks(pipe', AnswersTo(t)), <<"main", Len(mid["main"]) + 1>>, mine)
        BY <1>2, <1>4, <1>5, AppendMarks
      <3>3. QED
        BY <3>1, <3>2 DEF AnsweredOf
    <2>3. mine \in BOOLEAN
      OBVIOUS
    <2> HIDE DEF mine, kept
    <2>4. Adds(AnsweredOf(t), kept, IF mine THEN -1 ELSE 0)
      BY <2>1, <2>3, QueueAdds
    <2>5. Adds(kept, AnsweredOf(t)', IF mine THEN 1 ELSE 0)
      BY <2>2, <2>3, QueueAdds
    <2>6. Adds(AnsweredOf(t), AnsweredOf(t)', 0)
      <3>1. CASE mine
        <4>1. Adds(AnsweredOf(t), AnsweredOf(t)', -1 + 1)
          BY <2>4, <2>5, <3>1, AddsBoth
        <4>2. QED
          BY <4>1
      <3>2. CASE ~ mine
        <4>1. Adds(AnsweredOf(t), AnsweredOf(t)', 0 + 0)
          BY <2>4, <2>5, <3>2, AddsBoth
        <4>2. QED
          BY <4>1
      <3>3. QED
        BY <3>1, <3>2
    <2>7. Unanswered(t)' = Unanswered(t) /\ LockHeld(t)'
      BY <1>1, FrameCount
    <2>8. Adds(AskedOf(t), AskedOf(t)', 0) /\ Adds(Unanswered(t), Unanswered(t)', 0)
      BY <1>1, <2>7, AddsNothing DEF AskedOf, RequestsOf
    <2>9. task[t].users \in Int /\ lost[t] \in Nat
      BY DEF CountInv, Counted, UseInv, TaskShapes, TaskShape
    <2>10. lost'[t] = lost[t] + 0 /\ task'[t].users = task[t].users + (0 + 0 + 0 + 0)
      BY <1>1, <2>9
    <2>11. Tally(t)'
      BY <2>6, <2>8, <2>10, TallyStep DEF CountInv, UseInv
    <2>12. Ends(t)'
      BY <1>1 DEF CountInv, Counted, Ends
    <2>13. QED
      BY <2>7, <2>11, <2>12
  <1>7. QED
    BY <1>1, <1>6 DEF CountInv, Counted

\* The engine reads an answer: one user less.
LEMMA ReturnCount == ASSUME CountInv, HandleReturn PROVE Counted'
  <1>1. PICK e \in ReturnEvent, d \in TaskShape, st \in {"none", "timer"} : Reads(e, d, st)
    BY ReturnTask DEF CountInv
  <1>2. PICK u : u = e.task
    BY Zenon
  <1>3. /\ e = Head(pipe["main"]) /\ pipe["main"] # << >>
        /\ task' = [task EXCEPT ![u] = d] /\ pipe' = [pipe EXCEPT !["main"] = Tail(@)]
        /\ d.users = task[u].users - 1
        /\ \/ d.status = task[u].status
           \/ d.status = "destroyed" /\ d.users = 0 /\ \A o \in Outs : d.retries[o] = "none"
    BY <1>1, <1>2 DEF Reads
  <1>4. UNCHANGED <<inbox, flush, lock, lost>>
    BY DEF HandleReturn
  <1>5. /\ pipe \in [Threads -> Seq(ReturnEvent)] /\ "main" \in Threads /\ task \in [Tasks -> TaskShape]
        /\ lost \in [Tasks -> Nat] /\ u \in Tasks
    BY <1>2 DEF CountInv, Counted, UseInv, TaskShapes, Threads, ReturnEvent
  <1>6. ASSUME NEW t \in Tasks
        PROVE  /\ Shifts(AnsweredOf(t), AnsweredOf(t)', "main", t = u)
               /\ Adds(AnsweredOf(t), AnsweredOf(t)', IF t = u THEN -1 ELSE 0)
    <2>1. AnswersTo(t)' = AnswersTo(t) /\ ((e \in AnswersTo(t)) = (t = u))
      BY <1>2, OwnTask DEF AnswersTo, ReturnEvent
    <2>2. Shifts(AnsweredOf(t), AnsweredOf(t)', "main", e \in AnswersTo(t))
      BY <1>3, <1>5, <2>1, TailMarks DEF AnsweredOf
    <2>3. QED
      BY <2>1, <2>2, QueueAdds
  <1>7. AnsweredOf(u) # {}
    BY <1>5, <1>6 DEF Shifts
  <1>8. ASSUME NEW t \in Tasks PROVE Tally(t)' /\ Ends(t)' /\ LockHeld(t)'
    <2>1. Unanswered(t)' = Unanswered(t) /\ LockHeld(t)'
      BY <1>4, FrameCount
    <2>2. Adds(AskedOf(t), AskedOf(t)', 0) /\ Adds(Unanswered(t), Unanswered(t)', 0)
      BY <1>4, <2>1, AddsNothing DEF AskedOf, RequestsOf
    <2>3. task[t].users \in Int /\ lost[t] \in Nat
      BY <1>5 DEF TaskShape
    <2>4. Tally(t)'
      <3>1. CASE t # u
        <4>1. lost'[t] = lost[t] + 0 /\ task'[t].users = task[t].users + (0 + 0 + 0 + 0)
          BY <1>3, <1>4, <1>5, <2>3, <3>1
        <4>2. Adds(AnsweredOf(t), AnsweredOf(t)', 0)
          BY <1>6, <3>1
        <4>3. QED
          BY <2>2, <4>1, <4>2, TallyStep DEF CountInv, UseInv
      <3>2. CASE t = u
        <4>1. lost'[t] = lost[t] + 0 /\ task'[t].users = task[t].users + (0 + 0 + -1 + 0)
          BY <1>3, <1>4, <1>5, <2>3, <3>2
        <4>2. Adds(AnsweredOf(t), AnsweredOf(t)', -1)
          BY <1>6, <3>2
        <4>3. QED
          BY <2>2, <4>1, <4>2, TallyStep DEF CountInv, UseInv
      <3>3. QED
        BY <3>1, <3>2
    <2>5. Ends(t)'
      BY <1>3, <1>5, <1>7, DoneEnds
    <2>6. QED
      BY <2>1, <2>4, <2>5
  <1>9. QED
    BY <1>4, <1>8 DEF CountInv, Counted

\* A timer expires: one request and one user more.
LEMMA RetryCount ==
  ASSUME CountInv, NEW u \in Tasks, NEW o \in Outs, RetryTask(u, o) PROVE Counted'
  <1> DEFINE m == flb_task_users_inc(task[u])
             d == SetRetry(m, o, "sent")
             e == <<u, o>>
             h == ThreadOf(o)
  <1>1. /\ task[u].status = "running" /\ task' = [task EXCEPT ![u] = d]
        /\ inbox' = [inbox EXCEPT ![h] = Append(@, e)] /\ UNCHANGED <<flush, lock, pipe, lost>>
    BY DEF RetryTask
  <1>2. /\ inbox \in [Threads -> Seq(Tasks \X Outs)] /\ task \in [Tasks -> TaskShape]
        /\ lost \in [Tasks -> Nat] /\ e \in Tasks \X Outs /\ h \in Threads
    BY ThreadFacts DEF CountInv, Counted, UseInv, FlushInv, Shapes, TaskShapes
  <1>3. m \in TaskShape /\ m.status = task[u].status /\ m.users = task[u].users + 1
    BY <1>2, IncFacts
  <1> HIDE DEF m
  <1>4. d \in TaskShape /\ d.status = "running" /\ d.users = task[u].users + 1
    <2>1. d \in TaskShape /\ d.status = m.status /\ d.users = m.users
      BY <1>3, SetRetryFacts
    <2> HIDE DEF d
    <2>2. QED
      BY <1>1, <1>3, <2>1
  <1> HIDE DEF d, e, h
  <1>5. inbox'[h] = Append(inbox[h], e) /\ \A v \in Threads : v # h => inbox'[v] = inbox[v]
    BY <1>1, <1>2
  <1>6. task'[u] = d /\ \A t \in Tasks : t # u => task'[t] = task[t]
    BY <1>1, <1>2
  <1>7. ASSUME NEW t \in Tasks PROVE Tally(t)' /\ Ends(t)' /\ LockHeld(t)'
    <2>1. Unanswered(t)' = Unanswered(t) /\ LockHeld(t)'
      BY <1>1, FrameCount
    <2>2. Adds(AnsweredOf(t), AnsweredOf(t)', 0) /\ Adds(Unanswered(t), Unanswered(t)', 0)
      BY <1>1, <2>1, AddsNothing DEF AnsweredOf, AnswersTo, ReturnEvent
    <2>3. Adds(AskedOf(t), AskedOf(t)', IF t = u THEN 1 ELSE 0)
      <3>1. RequestsOf(t)' = RequestsOf(t) /\ ((e \in RequestsOf(t)) = (t = u))
        BY <1>2, OwnTask DEF RequestsOf, e
      <3>2. Grows(AskedOf(t), AskedOf(t)', <<h, Len(inbox[h]) + 1>>, e \in RequestsOf(t))
        BY <1>2, <1>5, <3>1, AppendMarks DEF AskedOf
      <3>3. QED
        BY <3>1, <3>2, QueueAdds
    <2>4. task[t].users \in Int /\ lost[t] \in Nat
      BY <1>2 DEF TaskShape
    <2>5. CASE t # u
      <3>1. lost'[t] = lost[t] + 0 /\ task'[t].users = task[t].users + (0 + 0 + 0 + 0)
        BY <1>1, <1>6, <2>4, <2>5
      <3>2. Adds(AskedOf(t), AskedOf(t)', 0)
        BY <2>3, <2>5
      <3>3. Tally(t)'
        BY <2>2, <3>1, <3>2, TallyStep DEF CountInv, UseInv
      <3>4. Ends(t)'
        BY <1>6, <2>5 DEF CountInv, Counted, Ends
      <3>5. QED
        BY <2>1, <3>3, <3>4
    <2>6. CASE t = u
      <3>1. lost'[t] = lost[t] + 0 /\ task'[t].users = task[t].users + (1 + 0 + 0 + 0)
        BY <1>1, <1>4, <1>6, <2>4, <2>6
      <3>2. Adds(AskedOf(t), AskedOf(t)', 1)
        BY <2>3, <2>6
      <3>3. Tally(t)'
        BY <2>2, <3>1, <3>2, TallyStep DEF CountInv, UseInv
      <3>4. Ends(t)'
        BY <1>4, <1>6, <2>6 DEF Ends
      <3>5. QED
        BY <2>1, <3>3, <3>4
    <2>7. QED
      BY <2>5, <2>6
  <1>8. QED
    BY <1>1, <1>7 DEF CountInv, Counted

\* A task starts with one user for every route, each of which is asked for.
LEMMA StartCount ==
  ASSUME CountInv, NEW u \in Tasks, StartTask(u) PROVE Counted'
  <1> DEFINE n == Cardinality(OutsOf(u))
             d == [task[u] EXCEPT !.status = "running", !.users = n]
  <1>1. /\ task[u].status = "new" /\ UNCHANGED <<flush, lock, pipe, lost>>
        /\ task' = [task EXCEPT ![u].status = "running", ![u].users = n]
    BY DEF StartTask
  <1>2. task \in [Tasks -> TaskShape] /\ lost \in [Tasks -> Nat]
    BY DEF CountInv, Counted, UseInv, TaskShapes
  <1>3. n \in Nat
    BY OutsFinite, FS_CardinalityType
  <1> HIDE DEF n
  <1>4. task' = [task EXCEPT ![u] = d]
    BY <1>1, <1>2
  <1>5. d.status = "running" /\ d.users = n
    <2>1. PICK tk \in TaskShape : tk = task[u]
      BY <1>2
    <2>2. PICK m : m = [tk EXCEPT !.status = "running", !.users = n]
      OBVIOUS
    <2>3. m.status = "running" /\ m.users = n
      BY <2>2 DEF TaskShape
    <2>4. QED
      BY <2>1, <2>2, <2>3
  <1> HIDE DEF d
  <1>6. task'[u] = d /\ \A t \in Tasks : t # u => task'[t] = task[t]
    BY <1>2, <1>4
  <1>7. Tally(u) /\ task[u].users = 0
    BY <1>1 DEF CountInv, Counted, Ends
  <1>8. /\ AskedOf(u) = {} /\ Cardinality(Unanswered(u)) = 0 /\ Cardinality(AnsweredOf(u)) = 0
        /\ lost[u] = 0
    <2>1. /\ Cardinality(AskedOf(u)) \in Nat /\ Cardinality(Unanswered(u)) \in Nat
          /\ Cardinality(AnsweredOf(u)) \in Nat /\ lost[u] \in Nat
      BY <1>2, <1>7, FS_CardinalityType DEF Tally
    <2>2. 0 = Cardinality(AskedOf(u)) + Cardinality(Unanswered(u)) + Cardinality(AnsweredOf(u)) + lost[u]
      BY <1>7 DEF Tally
    <2>3. /\ Cardinality(AskedOf(u)) = 0 /\ Cardinality(Unanswered(u)) = 0
          /\ Cardinality(AnsweredOf(u)) = 0 /\ lost[u] = 0
      <3>1. \A a, b, c, l \in Nat : 0 = a + b + c + l => a = 0 /\ b = 0 /\ c = 0 /\ l = 0
        OBVIOUS
      <3>2. QED
        BY <2>1, <2>2, <3>1
    <2>4. QED
      BY <1>7, <2>3, FS_EmptySet DEF Tally
  <1>9. /\ \A X : X \cap RequestsOf(u) = {} => Marks(inbox', X) = Marks(inbox, X)
        /\ Spreads(u, inbox')
    BY <1>8, StartAsks DEF CountInv, UseInv, FlushInv
  <1>10. IsFiniteSet(AskedOf(u)') /\ Cardinality(AskedOf(u)') = n
    <2> DEFINE now == Marks(inbox', RequestsOf(u))
    <2>1. PICK F : F = [x \in now |-> inbox'[x[1]][x[2]][2]]
      OBVIOUS
    <2>2. \A x \in now : F[x] = inbox'[x[1]][x[2]][2]
      BY <2>1
    <2>3. F \in [now -> OutsOf(u)]
      BY <1>9, <2>1 DEF Spreads
    <2>4. F \in Injection(now, OutsOf(u))
      BY <1>9, <2>2, <2>3 DEF Spreads, Injection, IsInjective
    <2>5. F \in Surjection(now, OutsOf(u))
      BY <1>9, <2>2, <2>3 DEF Spreads, Surjection
    <2>6. IsFiniteSet(now) /\ Cardinality(now) = Cardinality(OutsOf(u))
      BY <2>4, <2>5, OutsFinite, FS_Injection
    <2>7. RequestsOf(u)' = RequestsOf(u)
      BY DEF RequestsOf
    <2>8. QED
      BY <2>6, <2>7 DEF AskedOf, n
  <1>11. ASSUME NEW t \in Tasks PROVE Tally(t)' /\ Ends(t)' /\ LockHeld(t)'
    <2>1. Unanswered(t)' = Unanswered(t) /\ LockHeld(t)'
      BY <1>1, FrameCount
    <2>2. AnsweredOf(t)' = AnsweredOf(t)
      BY <1>1 DEF AnsweredOf, AnswersTo, ReturnEvent
    <2>3. Tally(t) /\ Ends(t)
      BY DEF CountInv, Counted
    <2>4. CASE t # u
      <3>1. RequestsOf(t) \cap RequestsOf(u) = {} /\ RequestsOf(t)' = RequestsOf(t)
        BY <2>4 DEF RequestsOf
      <3>2. AskedOf(t)' = AskedOf(t)
        BY <1>9, <3>1 DEF AskedOf
      <3>3. task'[t] = task[t] /\ lost'[t] = lost[t]
        BY <1>1, <1>6, <2>4
      <3>4. Tally(t)' /\ Ends(t)'
        BY <2>1, <2>2, <2>3, <3>2, <3>3 DEF Tally, Ends
      <3>5. QED
        BY <2>1, <3>4
    <2>5. CASE t = u
      <3>1. task'[t].users = n /\ task'[t].status = "running" /\ lost'[t] = 0
        BY <1>1, <1>5, <1>6, <1>8, <2>5
      <3>2. Cardinality(Unanswered(t)') = 0 /\ Cardinality(AnsweredOf(t)') = 0
        BY <1>8, <2>1, <2>2, <2>5
      <3>3. IsFiniteSet(AskedOf(t)') /\ Cardinality(AskedOf(t)') = n
        BY <1>10, <2>5
      <3>4. n = n + 0 + 0 + 0
        BY <1>3
      <3>5. IsFiniteSet(Unanswered(t)') /\ IsFiniteSet(AnsweredOf(t)')
        BY <2>1, <2>2, <2>3 DEF Tally
      <3>6. Tally(t)'
        BY <3>1, <3>2, <3>3, <3>4, <3>5 DEF Tally
      <3>7. Ends(t)'
        BY <3>1 DEF Ends
      <3>8. QED
        BY <2>1, <3>6, <3>7
    <2>6. QED
      BY <2>4, <2>5
  <1>12. QED
    BY <1>1, <1>11 DEF CountInv, Counted

\* At the start no task has a user.
LEMMA CountInitially == ASSUME FlushInit PROVE CountInv
  <1>1. UseInv
    BY UseInitially
  <1>3. ASSUME NEW t \in Tasks PROVE Tally(t) /\ Ends(t) /\ LockHeld(t)
    <2>1. AskedOf(t) = {} /\ AnsweredOf(t) = {}
      BY NoMarks DEF FlushInit, AskedOf, AnsweredOf
    <2>2. Unanswered(t) = {}
      BY DEF FlushInit, Unanswered, Live
    <2>3. task[t].users = 0 /\ task[t].status = "new" /\ lost[t] = 0 /\ lock[t] = NULL
      BY DEF FlushInit
    <2>4. QED
      BY <2>1, <2>2, <2>3, FS_EmptySet DEF Tally, Ends, LockHeld
  <1>4. lost \in [Tasks -> Nat]
    BY DEF FlushInit
  <1>5. QED
    BY <1>1, <1>3, <1>4 DEF CountInv, Counted

\* Every action keeps the count.
LEMMA CountStep == ASSUME CountInv, [FlushNext]_flushVars PROVE CountInv'
  <1>1. UseInv' /\ FlushInv
    BY UseStep DEF CountInv, UseInv
  <1>2. ASSUME UNCHANGED flushVars PROVE Counted'
    BY <1>2, StillCount DEF flushVars
  <1>3. ASSUME NEW f \in Slots, Resume(f) PROVE Counted'
    <2>1. UNCHANGED <<inbox, pipe, task, lost, lock>>
      BY <1>3 DEF Resume
    <2>2. Hop(f, {"created", "waiting"}, {"entered", "flushing"})
      <3>1. /\ Live(f) /\ flush[f].at \in {"created", "waiting"}
            /\ flush' = Go(f, IF flush[f].at = "created" THEN "entered" ELSE "flushing")
        BY <1>3 DEF Resume
      <3>2. Hop(f, {flush[f].at}, {"entered", "flushing"})
        BY <1>1, <3>1, GoIsHop
      <3>3. QED
        BY <3>1, <3>2 DEF Hop
    <2>3. QED
      BY <2>1, <2>2, QuietCount DEF Ended
  <1>4. ASSUME NEW f \in Slots, CallFlush(f) PROVE Counted'
    <2>1. UNCHANGED <<inbox, pipe, task, lost>> /\ lock' = [lock EXCEPT ![flush[f].task] = NULL]
      BY <1>4 DEF CallFlush
    <2>2. Hop(f, {"locked"}, {"flushing"})
      BY <1>1, <1>4, CallHop
    <2>3. QED
      BY <2>1, <2>2, UnlockCount DEF Ended
  <1>5. ASSUME NEW f \in Slots, RefuseDropped(f) PROVE Counted'
    <2>1. UNCHANGED <<inbox, pipe, task, lost>> /\ lock' = [lock EXCEPT ![flush[f].task] = NULL]
      BY <1>5 DEF RefuseDropped
    <2>2. Hop(f, {"dropped"}, {"refused"})
      BY <1>1, <1>5, RefuseHop
    <2>3. QED
      BY <2>1, <2>2, UnlockCount DEF Ended
  <1>6. ASSUME NEW f \in Slots, Yield(f) PROVE Counted'
    <2>1. UNCHANGED <<inbox, pipe, task, lost, lock>> /\ Hop(f, {"flushing"}, {"waiting"})
      BY <1>1, <1>6, YieldHop DEF Yield
    <2>2. QED
      BY <2>1, QuietCount DEF Ended
  <1>7. ASSUME NEW f \in Slots, PrepareDestroy(f) PROVE Counted'
    <2>1. UNCHANGED <<inbox, pipe, task, lost, lock>> /\ Hop(f, {"notified"}, {"destroying"})
      BY <1>1, <1>7, PrepareHop DEF PrepareDestroy
    <2>2. QED
      BY <2>1, QuietCount DEF Ended
  <1>8. ASSUME NEW th \in Threads, NEW ret \in {"ok", "retry"}, Finish(th, ret) PROVE Counted'
    <2>1. UNCHANGED <<inbox, pipe, task, lost, lock>>
      BY <1>8 DEF Finish
    <2>2. PICK f \in Slots : Hop(f, {"flushing"}, {"returning"})
      BY <1>1, <1>8, FinishHop
    <2>3. QED
      BY <2>1, <2>2, QuietCount DEF Ended
  <1>9. ASSUME NEW f \in Slots, CoroutineStep(f) \/ Yield(f) \/ Notify(f, FALSE) PROVE Counted'
    BY <1>3, <1>4, <1>5, <1>6, <1>7, <1>9, LockCount, NotifyCount, DestroyCount DEF CoroutineStep
  <1>10. ASSUME NEW t \in Tasks, StartTask(t) \/ \E o \in Outs : RetryTask(t, o) PROVE Counted'
    BY <1>10, StartCount, RetryCount
  <1>11. ASSUME NEW th \in Threads,
                \/ \E f \in Slots, noParams \in BOOLEAN : CreateFlush(th, f, noParams)
                \/ CreateFails(th) \/ Forward(th)
         PROVE  Counted'
    BY <1>11, CreateCount, CreateFailsCount, ForwardCount
  <1>12. ASSUME NEW r \in Routes, DropRoute(r) PROVE Counted'
    BY <1>12, StillCount DEF DropRoute
  <1>13. Counted'
    BY <1>2, <1>8, <1>9, <1>10, <1>11, <1>12, ReturnCount DEF FlushNext
  <1>14. QED
    BY <1>1, <1>13 DEF CountInv

\* The count is the one the property names.
LEMMA CountIsUsers == ASSUME CountInv PROVE UsersCounted
  <1>1. /\ inbox \in [Threads -> Seq(Tasks \X Outs)] /\ pipe \in [Threads -> Seq(ReturnEvent)]
    BY DEF CountInv, UseInv, FlushInv, Shapes, TaskShapes
  <1>2. ASSUME NEW t \in Tasks
        PROVE  /\ task[t].users = Cardinality(Asked(t)) + Cardinality(Unanswered(t))
                                  + Cardinality(Answered(t)) + lost[t]
               /\ task[t].status = "destroyed" =>
                    /\ task[t].users = 0 /\ lock[t] = NULL
                    /\ \A o \in Outs : task[t].retries[o] = "none"
    <2>1. Asked(t) = AskedOf(t)
      <3>1. ASSUME NEW th \in Threads, NEW i \in Nat
            PROVE  <<th, i>> \in AskedOf(t) <=> i \in DOMAIN inbox[th] /\ inbox[th][i][1] = t
        <4>1. DOMAIN inbox[th] = 1 .. Len(inbox[th])
          BY <1>1, LenProperties
        <4>2. i \in 1 .. Len(inbox[th]) => inbox[th][i] \in Tasks \X Outs
          BY <1>1, ElementOfSeq
        <4>3. i \in 1 .. Len(inbox[th]) => (inbox[th][i] \in RequestsOf(t) <=> inbox[th][i][1] = t)
          BY <4>2, OwnTask
        <4>4. QED
          BY <4>1, <4>3 DEF AskedOf, Marks
      <3>2. \A th \in Threads : DOMAIN inbox[th] \subseteq Nat
        BY <1>1, LenProperties
      <3>3. AskedOf(t) \subseteq Threads \X Nat
        BY DEF AskedOf, Marks
      <3>4. Asked(t) \subseteq AskedOf(t)
        BY <3>1, <3>2 DEF Asked
      <3>5. ASSUME NEW x \in AskedOf(t) PROVE x \in Asked(t)
        <4>1. PICK th \in Threads, i \in Nat : x = <<th, i>>
          BY <3>3
        <4>2. i \in {j \in DOMAIN inbox[th] : inbox[th][j][1] = t}
          BY <3>1, <4>1
        <4>3. QED
          BY <4>1, <4>2 DEF Asked
      <3>6. QED
        BY <3>4, <3>5
    <2>2. Answered(t) = AnsweredOf(t)
      <3>1. ASSUME NEW th \in Threads, NEW i \in Nat
            PROVE  <<th, i>> \in AnsweredOf(t) <=> i \in DOMAIN pipe[th] /\ pipe[th][i].task = t
        <4>1. DOMAIN pipe[th] = 1 .. Len(pipe[th])
          BY <1>1, LenProperties
        <4>2. i \in 1 .. Len(pipe[th]) => pipe[th][i] \in ReturnEvent
          BY <1>1, ElementOfSeq
        <4>3. i \in 1 .. Len(pipe[th]) => (pipe[th][i] \in AnswersTo(t) <=> pipe[th][i].task = t)
          BY <4>2, OwnTask
        <4>4. QED
          BY <4>1, <4>3 DEF AnsweredOf, Marks
      <3>2. \A th \in Threads : DOMAIN pipe[th] \subseteq Nat
        BY <1>1, LenProperties
      <3>3. AnsweredOf(t) \subseteq Threads \X Nat
        BY DEF AnsweredOf, Marks
      <3>4. Answered(t) \subseteq AnsweredOf(t)
        BY <3>1, <3>2 DEF Answered
      <3>5. ASSUME NEW x \in AnsweredOf(t) PROVE x \in Answered(t)
        <4>1. PICK th \in Threads, i \in Nat : x = <<th, i>>
          BY <3>3
        <4>2. i \in {j \in DOMAIN pipe[th] : pipe[th][j].task = t}
          BY <3>1, <4>1
        <4>3. QED
          BY <4>1, <4>2 DEF Answered
      <3>6. QED
        BY <3>4, <3>5
    <2>3. Tally(t) /\ Ends(t) /\ LockHeld(t) /\ Counted
      BY DEF CountInv, Counted
    <2>4. task[t].status = "destroyed" => Unanswered(t) = {}
      BY <2>3, InUseRuns
    <2>5. task[t].status = "destroyed" => lock[t] = NULL
      BY <2>3, <2>4 DEF LockHeld
    <2>6. QED
      BY <2>1, <2>2, <2>3, <2>5 DEF Tally, Ends
  <1>3. QED
    BY <1>2 DEF UsersCounted

-----------------------------------------------------------------------------
\* A coroutine works with its own flush and no route is flushed twice at a time, for any
\* number of tasks, outputs and threads (flb_output.h:558-568).
THEOREM EveryFlushIsItsOwn == FlushSpec => []OwnFlush
  <1>1. UseInv => OwnFlush
    <2> SUFFICES ASSUME UseInv PROVE OwnFlush
      OBVIOUS
    <2>1. OwnParams /\ OneUses
      BY DEF UseInv
    <2>2. ASSUME NEW f \in Slots, NEW g \in Slots, Live(f), Live(g), f # g, PairOf(f) = PairOf(g)
          PROVE  "destroying" \in {flush[f].at, flush[g].at}
      <3>1. PairOf(f) \in Tasks \X Outs
        BY <2>2, OneFlush DEF UseInv, PairOf
      <3>2. OneUse(PairOf(f))
        BY <2>1, <3>1 DEF OneUses
      <3>3. QED
        BY <2>2, <3>2 DEF OneUse, InUse
    <2>3. QED
      BY <2>1, <2>2 DEF OwnFlush, OwnParams
  <1>2. QED
    BY <1>1, UseInitially, UseStep, PTL DEF FlushSpec

\* A route is active exactly while a callback works on it, whichever thread looks
\* (flb_output.h:573-588, 937-941).
THEOREM ActiveWhileFlushing == FlushSpec => []ActiveIffFlushing
  <1>1. UseInv => ActiveIffFlushing
    BY DEF UseInv
  <1>2. QED
    BY <1>1, UseInitially, UseStep, PTL DEF FlushSpec

\* The users of a task are its requests, flushes, unread answers and lost ends: a task is
\* released with the last of them and never before, and no flush finds it released
\* (flb_task.h:162-185, flb_output.h:980-984).
THEOREM TasksAreCounted == FlushSpec => []UsersCounted
  BY CountIsUsers, CountInitially, CountStep, PTL DEF FlushSpec
=============================================================================
