------------------------------ MODULE EventLoop ------------------------------
(* The engine's event loop: flb_event_priority_live_foreach                      *)
(* (fluent-bit/flb_event_loop.h) over the bucket queue and the events the backend *)
(* reports (monkey/mk_core/mk_event.h).  One thread runs the loop; descriptors     *)
(* become readable at any time and stay readable until their handler reads them.  *)
(* The backend (mk_event_wait, mk_event_inject, mk_event_add, mk_event_del) is     *)
(* not in the repository and is modelled by what the header relies on.             *)
EXTENDS BucketQueue, FiniteSets

CONSTANTS Kind,        \* what each event is for: gives its priority
          MaxIter,     \* max_iter of the loop; -1: no bound
          QueueSize,   \* evl->size
          MaxArrivals, \* bound: descriptors that become readable
          MaxEffects   \* bound: injections, deletions and registrations by handlers

ASSUME LoopAssumption ==
  /\ Kind \in [Items -> {"sched", "network", "flush", "thread", "none"}]
  /\ MaxIter \in (Nat \ {0}) \cup {-1} /\ QueueSize \in Nat \ {0}
  /\ MaxArrivals \in Nat /\ MaxEffects \in Nat

VARIABLES status,    \* [Items -> status], the field of struct mk_event
          evl,       \* the reported events, n_events of them
          nInitial,  \* n_events when they were last reported
          loaded,    \* how many of the reported events are loaded into the queue
          iterations,
          at,        \* where the engine thread is
          ready,     \* events whose descriptor is readable
          injected,  \* events injected and not handled, nor deleted, since
          slipped,   \* history: events injected and deleted before they were loaded
          arrivals, effects

engineVars == <<status, evl, nInitial, loaded, iterations, at, ready, injected, slipped,
                arrivals, effects>>

loopVars == <<bq, taken, status, evl, nInitial, loaded, iterations, at, ready, injected,
              slipped, arrivals, effects>>

MK_EVENT_NONE       == 1
MK_EVENT_REGISTERED == 2

\* flb_engine_macros.h: the priority an event is given; "none" stands for a value that
\* names no bucket.
Priority(e) == CASE Kind[e] = "sched"   -> 0
                 [] Kind[e] = "network" -> 1
                 [] Kind[e] = "flush"   -> 2
                 [] Kind[e] = "thread"  -> 6
                 [] Kind[e] = "none"    -> 8

\* MK_EVENT_NEW: the event is deleted or fresh; its link in the queue is not touched.
MK_EVENT_NEW(st, e) == [st EXCEPT ![e] = MK_EVENT_NONE]
-----------------------------------------------------------------------------
flb_event_load_bucket_queue_event(q, e) ==
  IF e \in In(q) THEN q ELSE flb_bucket_queue_add(q, e, Priority(e))

\* mk_event_wait and mk_event_wait_2: what the backend may report, in any order: the
\* readable events, as many as there is room for, and in the room that is left perhaps
\* deleted ones, which the header is prepared for (line 42).
Reports == LET R == {e \in ready : status[e] = MK_EVENT_REGISTERED}
               k == IF Cardinality(R) < QueueSize THEN Cardinality(R) ELSE QueueSize
           IN  {s \in UNION {[1 .. n -> ready] : n \in k .. QueueSize} :
                  /\ \A i, j \in DOMAIN s : s[i] = s[j] => i = j
                  /\ Cardinality({i \in DOMAIN s : s[i] \in R}) = k}

\* The events are reported, n_events is noted, and loading them into the queue starts.
Report(r) == /\ evl' = r
             /\ nInitial' = Len(r)
             /\ loaded' = 0
             /\ at' = "load"
-----------------------------------------------------------------------------
\* MK_EVENT_INIT left every event unregistered and the engine registered them.
EngineInit ==
  /\ status = [e \in Items |-> MK_EVENT_REGISTERED]
  /\ evl = << >> /\ nInitial = 0 /\ loaded = 0 /\ iterations = 0
  /\ at = "wait"
  /\ ready = {} /\ injected = {} /\ slipped = {}
  /\ arrivals = 0 /\ effects = 0

LoopInit == bq = NewQueue /\ taken = NULL /\ EngineInit

Arrive(e) == /\ arrivals < MaxArrivals
             /\ status[e] = MK_EVENT_REGISTERED
             /\ e \notin ready
             /\ ready' = ready \cup {e}
             /\ arrivals' = arrivals + 1
             /\ UNCHANGED <<bq, taken, status, evl, nInitial, loaded, iterations, at, injected,
                            slipped, effects>>

\* mk_event_wait returns and the for statement initialises.
Round == /\ at = "wait"
         /\ \E r \in Reports : r # << >> /\ Report(r)
         /\ iterations' = 0
         /\ UNCHANGED <<bq, taken, status, ready, injected, slipped, arrivals, effects>>

\* The mutated form: a deleted event is loaded, too.
LoadDeleted == /\ at = "load" /\ loaded < nInitial
               /\ loaded' = loaded + 1
               /\ bq' = flb_event_load_bucket_queue_event(bq, evl[loaded + 1])
               /\ UNCHANGED <<taken, status, evl, nInitial, iterations, at, ready, injected,
                              slipped, arrivals, effects>>

\* flb_event_load_bucket_queue, one event of its loop: a deleted event is passed over.
Load == /\ at = "load" /\ loaded < nInitial
        /\ loaded' = loaded + 1
        /\ bq' = IF status[evl[loaded + 1]] = MK_EVENT_NONE THEN bq
                 ELSE flb_event_load_bucket_queue_event(bq, evl[loaded + 1])
        /\ UNCHANGED <<taken, status, evl, nInitial, iterations, at, ready, injected,
                       slipped, arrivals, effects>>

\* The condition of the loop, for the event that was popped.
Again == MaxIter = -1 \/ iterations < MaxIter

\* The best event is popped, then the condition is tested: the one popped when max_iter
\* is reached leaves the queue and is not handled.
Take == /\ at = "load" /\ loaded = nInitial
        /\ taken' = flb_bucket_queue_find_min(bq)
        /\ bq' = IF taken' = NULL THEN flb_bucket_queue_seek(bq)
                 ELSE flb_bucket_queue_delete_min(bq)
        /\ at' = IF taken' # NULL /\ Again THEN "body" ELSE "wait"
        /\ injected' = IF at' = "body" THEN injected \ {taken'} ELSE injected
        /\ slipped' = slipped \ {taken'}
        /\ UNCHANGED <<status, evl, nInitial, loaded, iterations, ready, arrivals, effects>>

\* The body of the loop, a handler: before it returns it may inject, delete and register
\* events, its own too, in any order and number (MaxEffects).
Effect == /\ at = "body" /\ effects < MaxEffects
          /\ effects' = effects + 1
          /\ UNCHANGED <<taken, nInitial, loaded, iterations, at, ready, arrivals>>

\* mk_event_inject with duplicates prevented.
HandleInject(e) == /\ Effect
                   /\ status[e] = MK_EVENT_REGISTERED
                   /\ e \notin ToSet(evl) /\ Len(evl) < QueueSize
                   /\ evl' = Append(evl, e)
                   /\ injected' = injected \cup {e}
                   /\ UNCHANGED <<bq, status, slipped>>

\* The events that were injected since the last report or load.
JustInjected == {evl[i] : i \in nInitial + 1 .. Len(evl)}

\* mk_event_del: an event waiting in the queue is unlinked, as the queue's header allows;
\* one that was just injected stays in the list.
HandleDelete(e) == /\ Effect
                   /\ status[e] = MK_EVENT_REGISTERED
                   /\ status' = MK_EVENT_NEW(status, e)
                   /\ bq' = IF e \in In(bq) THEN Unlink(bq, e) ELSE bq
                   /\ injected' = injected \ {e}
                   /\ slipped' = IF e \in JustInjected THEN slipped \cup {e} ELSE slipped
                   /\ UNCHANGED evl

\* mk_event_add
HandleRegister(e) == /\ Effect
                     /\ status[e] = MK_EVENT_NONE
                     /\ status' = [status EXCEPT ![e] = MK_EVENT_REGISTERED]
                     /\ slipped' = slipped \ {e}
                     /\ UNCHANGED <<bq, evl, injected>>

\* The handler has read the descriptor and returns.
Handle == /\ at = "body"
          /\ ready' = ready \ {taken}
          /\ at' = "update"
          /\ UNCHANGED <<bq, taken, status, evl, nInitial, loaded, iterations, injected,
                         slipped, arrivals, effects>>

\* flb_event_load_injected_events: an event behind the nInitial reported ones.  Its
\* status is not tested.
LoadInjected == /\ at = "update" /\ nInitial < Len(evl)
                /\ nInitial' = nInitial + 1
                /\ bq' = flb_event_load_bucket_queue_event(bq, evl[nInitial + 1])
                /\ UNCHANGED <<taken, status, evl, loaded, iterations, at, ready, injected,
                               slipped, arrivals, effects>>

\* The mutated form: the injected events are overwritten before they are loaded.
WaitTooEarly == /\ at = "update"
                /\ \E r \in Reports : Report(r)
                /\ iterations' = iterations + 1
                /\ UNCHANGED <<bq, taken, status, ready, injected, slipped, arrivals, effects>>

\* The rest of the for statement's update: mk_event_wait_2 with no timeout reports again,
\* after the injected events are loaded.
WaitAgain == /\ at = "update" /\ nInitial = Len(evl)
             /\ \E r \in Reports : Report(r)
             /\ iterations' = iterations + 1
             /\ UNCHANGED <<bq, taken, status, ready, injected, slipped, arrivals, effects>>

LoopNext == \/ \E e \in Items : \/ Arrive(e) \/ HandleInject(e)
                                \/ HandleDelete(e) \/ HandleRegister(e)
            \/ Round \/ Load \/ Take \/ Handle \/ LoadInjected \/ WaitAgain

\* The engine thread always runs on: a wait ends when a descriptor is readable, and a
\* handler returns.
LoopFairness == /\ WF_loopVars(Round) /\ WF_loopVars(Load) /\ WF_loopVars(Take)
                /\ WF_loopVars(Handle) /\ WF_loopVars(LoadInjected) /\ WF_loopVars(WaitAgain)

LoopSpec == LoopInit /\ [][LoopNext]_loopVars /\ LoopFairness
-----------------------------------------------------------------------------
Waiting == IF bq = NULL THEN {} ELSE In(bq)

\* A handler is entered for an event at least as urgent as every live event reported and
\* everything waiting: a more urgent event overtakes the queue in the middle of a round
\* (flb_event_loop.h:74-100).
BestFirst ==
  [][at = "load" /\ at' = "body" =>
       \A e \in {x \in ToSet(evl) : status[x] = MK_EVENT_REGISTERED} \cup Waiting :
         Priority(taken') <= Priority(e)]_loopVars

\* No handler is entered for a deleted event, although reports may hold deleted events
\* and handlers delete, inject and register others, but for one gap: an event that was
\* injected and deleted before it was loaded, because loading injected events does not
\* test the status as loading reported ones does (flb_event_loop.h:42, :67).
HandledIsRegistered ==
  [][at = "load" /\ at' = "body" =>
       status[taken'] = MK_EVENT_REGISTERED \/ taken' \in slipped]_loopVars

\* Where an event is until its handler is entered.
Held == Waiting \cup ToSet(evl)

\* An injected event that no readable descriptor would report again is handed on from the
\* report to the queue and to its handler; it is lost only when it is the event popped at
\* max_iter, or has no bucket (flb_event_loop.h:86-92, :61-71).
InjectedDroppedOnlyAtBound ==
  [][\A e \in (injected \ ready) \cap Held :
       \/ e \in Held' \/ e \notin injected' \/ Priority(e) >= Count
       \/ at = "load" /\ iterations = MaxIter /\ e = taken']_loopVars

\* Every readable descriptor whose priority names a bucket is read or deleted in the end,
\* once no new ones keep arriving: neither the bound on a round nor the lazy top starves it.
ReadyIsHandled ==
  \A e \in Items : Priority(e) < Count =>
    (e \in ready /\ status[e] = MK_EVENT_REGISTERED ~>
       e \notin ready \/ status[e] = MK_EVENT_NONE)
=============================================================================
