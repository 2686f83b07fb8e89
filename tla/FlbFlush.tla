------------------------------ MODULE FlbFlush ------------------------------
(* How a task's chunk is handed to its outputs: the reference counts and route    *)
(* states of fluent-bit/flb_task.h, the flush coroutines of flb_output.h and        *)
(* flb_coro.h, and the worker threads of flb_output_thread.h.  Every thread runs an *)
(* event loop and at most one coroutine at a time.  The engine's side (who starts   *)
(* and retries a task, who reads the pipes, who drops a route) is not in the        *)
(* repository; it is modelled from how these headers are meant to be called.        *)
EXTENDS Integers, Sequences, FiniteSets, SequencesExt

CONSTANTS Tasks, Outs, NULL,
          Threaded,    \* the outputs with a worker thread
          Routes,      \* the pairs <<task, output>>
          Slots,       \* bound: flush contexts alive at a time, numbered
          RetryLimit,  \* retry_limit of each output
          MaxFaults,   \* bound: failed allocations and writes, and routes dropped
          MaxRetries   \* bound: FLB_RETRY answers of the plugins

ASSUME FlushAssumption ==
  /\ Threaded \subseteq Outs /\ Routes \subseteq Tasks \X Outs
  /\ RetryLimit \in [Outs -> Nat] /\ Slots \subseteq Nat /\ MaxFaults \in Nat /\ MaxRetries \in Nat
  /\ NULL \notin Slots \cup Tasks \cup Outs /\ NULL # "main" /\ IsFiniteSet(Routes)

VARIABLES task,     \* [Tasks -> status, users, retries]
          route,    \* [Routes -> route status]
          lock,     \* [Tasks -> the thread that holds task->lock]
          flush,    \* [Slots -> flush context or NULL]
          params,   \* [Threads -> the flush the thread-local out_flush_params describe]
          current,  \* [Threads -> flb_coro_get()]
          running,  \* [Threads -> the flush whose coroutine executes, NULL: the event loop]
          inbox,    \* [Threads -> flushes asked of the thread]
          pipe,     \* [Threads -> return events not read yet]
          attempts, \* [Routes -> retries made]
          lost,     \* [Tasks -> flushes whose end nobody will hear of]
          faults, retries

flushVars == <<task, route, lock, flush, params, current, running, inbox, pipe, attempts,
               lost, faults, retries>>

Threads     == {"main"} \cup Threaded
ThreadOf(o) == IF o \in Threaded THEN o ELSE "main"
OutsOf(t)   == {o \in Outs : <<t, o>> \in Routes}

\* flb_task_route: INACTIVE, ACTIVE or DROPPED.
RouteStatus == {"inactive", "active", "dropped"}

\* struct flb_task; a retry waits for its timer or is on its way.
TaskRecord == [status : {"new", "running", "destroyed"}, users : Nat,
               retries : [Outs -> {"none", "timer", "sent"}]]

\* struct flb_output_flush with its coroutine: "created" is switched out in
\* output_pre_cb_flush, "destroying" is on flush_list_destroy.
FlushRecord == [task : Tasks, out : Outs, persisted : Slots \cup {NULL},
                ret : {"ok", "error", "retry", "none"},
                at : {"created", "entered", "locked", "dropped", "flushing", "waiting",
                      "returning", "refused", "notified", "destroying", "stuck"}]

\* A null pointer is no context.
ASSUME ContextAssumption == NULL \notin FlushRecord

Live(f)    == flush[f] # NULL
PairOf(f)  == <<flush[f].task, flush[f].out>>
HomeOf(f)  == ThreadOf(flush[f].out)
Idle(th)   == running[th] = NULL
Go(f, pc)  == [flush EXCEPT ![f].at = pc]
-----------------------------------------------------------------------------
\* The mutated form: pending retries do not keep the task.
ReleaseDespiteRetries(tk) == IF tk.users = 0 THEN [tk EXCEPT !.status = "destroyed"] ELSE tk

flb_task_users_release(tk) ==
  IF tk.users = 0 /\ \A o \in Outs : tk.retries[o] = "none"
  THEN [tk EXCEPT !.status = "destroyed"] ELSE tk

flb_task_users_inc(tk) == [tk EXCEPT !.users = @ + 1]

\* The mutated form: the last user does not release the task.
DecOnly(tk, release_check) == [tk EXCEPT !.users = @ - 1]

flb_task_users_dec(tk, release_check) ==
  LET d == [tk EXCEPT !.users = @ - 1]
  IN  IF release_check THEN flb_task_users_release(d) ELSE d

flb_task_get_active_route_count(t) ==
  Cardinality({r \in Routes : r[1] = t /\ route[r] = "active"})

flb_task_get_route_status(r) == IF r \in Routes THEN route[r] ELSE "inactive"

flb_task_set_route_status(r, status) == [s \in Routes |-> IF s = r THEN status ELSE route[s]]

\* The mutated form: the route is left as it is.
LeaveRoute(r) == route

flb_task_activate_route(r)   == flb_task_set_route_status(r, "active")
flb_task_deactivate_route(r) == flb_task_set_route_status(r, "inactive")
flb_task_drop_route(r)       == flb_task_set_route_status(r, "dropped")

\* flb_task_retry_clean and flb_task_retry_create, on the task's list of retries.
SetRetry(tk, o, state) == [tk EXCEPT !.retries[o] = state]

\* Co-routines of an output that are on a flush_list, its own or its worker's.
flb_output_coros_size(o) ==
  Cardinality({f \in Slots : Live(f) /\ flush[f].out = o /\ flush[f].at # "destroying"})
-----------------------------------------------------------------------------
FlushInit ==
  /\ task = [t \in Tasks |-> [status |-> "new", users |-> 0, retries |-> [o \in Outs |-> "none"]]]
  /\ route = [r \in Routes |-> "inactive"]
  /\ lock = [t \in Tasks |-> NULL]
  /\ flush = [f \in Slots |-> NULL]
  /\ params = [th \in Threads |-> NULL]
  /\ current = [th \in Threads |-> NULL]
  /\ running = [th \in Threads |-> NULL]
  /\ inbox = [th \in Threads |-> << >>]
  /\ pipe = [th \in Threads |-> << >>]
  /\ attempts = [r \in Routes |-> 0]
  /\ lost = [t \in Tasks |-> 0]
  /\ faults = 0 /\ retries = 0

\* The engine starts a task: one user per route, then every route's thread is asked.
StartTask(t) ==
  /\ Idle("main") /\ task[t].status = "new"
  /\ task' = [task EXCEPT ![t].status = "running", ![t].users = Cardinality(OutsOf(t))]
  /\ inbox' = [th \in Threads |->
                 inbox[th] \o SetToSeq({<<t, o>> : o \in {p \in OutsOf(t) : ThreadOf(p) = th}})]
  /\ UNCHANGED <<route, lock, flush, params, current, running, pipe, attempts, lost, faults, retries>>

\* A retry's timer expires: the route is asked again.
RetryTask(t, o) ==
  /\ Idle("main") /\ task[t].status = "running" /\ task[t].retries[o] = "timer"
  /\ task' = [task EXCEPT ![t] = SetRetry(flb_task_users_inc(@), o, "sent")]
  /\ inbox' = [inbox EXCEPT ![ThreadOf(o)] = Append(@, <<t, o>>)]
  /\ UNCHANGED <<route, lock, flush, params, current, running, pipe, attempts, lost, faults, retries>>

\* flb_output_flush_create: the context is linked to its flush_list, the parameters are
\* published in the thread's storage, and the new coroutine runs up to its first switch,
\* where it has copied them (output_params_set, output_pre_cb_flush).  When the first
\* parameters of the thread cannot be allocated the coroutine is not entered: the resume
\* finds no parameters and it never reports an end.
CreateFlush(th, f, noParams) ==
  /\ Idle(th) /\ inbox[th] # << >>
  /\ ~ Live(f) /\ \A g \in Slots : g < f => Live(g)
  /\ noParams => params[th] = NULL /\ faults < MaxFaults
  /\ LET r == Head(inbox[th])
     IN  /\ flush' = [flush EXCEPT ![f] = [task |-> r[1], out |-> r[2],
                        persisted |-> IF noParams THEN NULL ELSE f,
                        ret |-> "none",
                        at |-> IF noParams THEN "stuck" ELSE "created"]]
         /\ lost' = [lost EXCEPT ![r[1]] = IF noParams THEN @ + 1 ELSE @]
  /\ params' = [params EXCEPT ![th] = IF noParams THEN @ ELSE f]
  /\ inbox' = [inbox EXCEPT ![th] = Tail(@)]
  /\ faults' = IF noParams THEN faults + 1 ELSE faults
  /\ UNCHANGED <<task, route, lock, current, running, pipe, attempts, retries>>

\* flb_output_flush_create returns NULL (no memory, no stack, nothing left by the
\* processors): the engine takes the user back; a worker has nobody to tell.
CreateFails(th) ==
  /\ Idle(th) /\ inbox[th] # << >> /\ faults < MaxFaults
  /\ LET t == Head(inbox[th])[1]
         o == Head(inbox[th])[2]
     IN  IF th = "main"
         THEN /\ task' = [task EXCEPT ![t] = flb_task_users_dec(SetRetry(@, o, "none"), TRUE)]
              /\ UNCHANGED lost
         ELSE /\ lost' = [lost EXCEPT ![t] = @ + 1]
              /\ UNCHANGED task
  /\ inbox' = [inbox EXCEPT ![th] = Tail(@)]
  /\ faults' = faults + 1
  /\ UNCHANGED <<route, lock, flush, params, current, running, pipe, attempts, retries>>

\* The mutated form: the parameters are copied after the first switch, not before it.
ResumeThenCopy(f) ==
  /\ Live(f) /\ flush[f].at \in {"created", "waiting"} /\ Idle(HomeOf(f))
  /\ current' = [current EXCEPT ![HomeOf(f)] = f]
  /\ running' = [running EXCEPT ![HomeOf(f)] = f]
  /\ flush' = [flush EXCEPT ![f].persisted = params[HomeOf(f)],
                            ![f].at = IF @ = "created" THEN "entered" ELSE "flushing"]
  /\ UNCHANGED <<task, route, lock, params, inbox, pipe, attempts, lost, faults, retries>>

\* flb_coro_resume: the thread's current coroutine is set, then it is switched to.
Resume(f) ==
  /\ Live(f) /\ flush[f].at \in {"created", "waiting"} /\ Idle(HomeOf(f))
  /\ current' = [current EXCEPT ![HomeOf(f)] = f]
  /\ running' = [running EXCEPT ![HomeOf(f)] = f]
  /\ flush' = Go(f, IF flush[f].at = "created" THEN "entered" ELSE "flushing")
  /\ UNCHANGED <<task, route, lock, params, inbox, pipe, attempts, lost, faults, retries>>

\* The mutated form: the lock is not held while the status is looked at.
LockRouteNot(f) ==
  /\ Live(f) /\ flush[f].at = "entered" /\ lock[flush[f].task] = NULL
  /\ flush' = Go(f, IF flb_task_get_route_status(PairOf(f)) = "dropped" THEN "dropped" ELSE "locked")
  /\ UNCHANGED <<task, route, lock, params, current, running, inbox, pipe, attempts, lost, faults, retries>>

\* output_pre_cb_flush, resumed: task->lock is taken and the route's status read.
LockRoute(f) ==
  /\ Live(f) /\ flush[f].at = "entered" /\ lock[flush[f].task] = NULL
  /\ lock' = [lock EXCEPT ![flush[f].task] = HomeOf(f)]
  /\ flush' = Go(f, IF flb_task_get_route_status(PairOf(f)) = "dropped" THEN "dropped" ELSE "locked")
  /\ UNCHANGED <<task, route, params, current, running, inbox, pipe, attempts, lost, faults, retries>>

\* The route is activated, the lock released, and the plugin's cb_flush called.
CallFlush(f) ==
  /\ Live(f) /\ flush[f].at = "locked"
  /\ route' = flb_task_activate_route(PairOf(f))
  /\ lock' = [lock EXCEPT ![flush[f].task] = NULL]
  /\ flush' = Go(f, "flushing")
  /\ UNCHANGED <<task, params, current, running, inbox, pipe, attempts, lost, faults, retries>>

\* A dropped route is answered with FLB_ERROR, without the callback.
RefuseDropped(f) ==
  /\ Live(f) /\ flush[f].at = "dropped"
  /\ lock' = [lock EXCEPT ![flush[f].task] = NULL]
  /\ flush' = [flush EXCEPT ![f].at = "refused", ![f].ret = "error"]
  /\ UNCHANGED <<task, route, params, current, running, inbox, pipe, attempts, lost, faults, retries>>

\* The callback waits for its connection: the coroutine yields to the event loop.
Yield(f) ==
  /\ Live(f) /\ flush[f].at = "flushing" /\ running[HomeOf(f)] = f
  /\ running' = [running EXCEPT ![HomeOf(f)] = NULL]
  /\ flush' = Go(f, "waiting")
  /\ UNCHANGED <<task, route, lock, params, current, inbox, pipe, attempts, lost, faults, retries>>

\* FLB_OUTPUT_RETURN in the callback: the flush that ends is the one of flb_coro_get().
\* FLB_ERROR ends the route like FLB_OK does.
Finish(th, ret) ==
  /\ ~ Idle(th) /\ flush[running[th]].at = "flushing"
  /\ ret = "retry" => retries < MaxRetries
  /\ retries' = IF ret = "retry" THEN retries + 1 ELSE retries
  /\ flush' = [flush EXCEPT ![current[th]].at = "returning", ![current[th]].ret = ret]
  /\ UNCHANGED <<task, route, lock, params, current, running, inbox, pipe, attempts, lost, faults>>

\* The pipe of flb_output_return: a worker's own event loop, or the parent's.
PipeOf(f) == HomeOf(f)

\* flb_output_return: the route is deactivated under the lock, a processed chunk is
\* freed, and the return value goes into the pipe; a failed write is only logged.
Notify(f, written) ==
  /\ Live(f) /\ flush[f].at \in {"returning", "refused"} /\ lock[flush[f].task] = NULL
  /\ written \/ faults < MaxFaults
  /\ route' = flb_task_deactivate_route(PairOf(f))
  /\ flush' = [flush EXCEPT ![f].at = "notified", ![f].ret = "none"]
  /\ pipe' = IF written
             THEN [pipe EXCEPT ![PipeOf(f)] = Append(@, [ret |-> flush[f].ret,
                                       task |-> flush[f].task, out |-> flush[f].out])]
             ELSE pipe
  /\ lost' = [lost EXCEPT ![flush[f].task] = IF written THEN @ ELSE @ + 1]
  /\ faults' = IF written THEN faults ELSE faults + 1
  /\ UNCHANGED <<task, lock, params, current, running, inbox, attempts, retries>>

\* flb_output_flush_prepare_destroy moves the context to flush_list_destroy, then the
\* coroutine yields for the last time.
PrepareDestroy(f) ==
  /\ Live(f) /\ flush[f].at = "notified"
  /\ flush' = Go(f, "destroying")
  /\ running' = [running EXCEPT ![HomeOf(f)] = NULL]
  /\ UNCHANGED <<task, route, lock, params, current, inbox, pipe, attempts, lost, faults, retries>>

\* The event loop's cleanup: flb_output_flush_destroy frees context and coroutine.
DestroyFlush(f) ==
  /\ Live(f) /\ flush[f].at = "destroying" /\ Idle(HomeOf(f))
  /\ flush' = [flush EXCEPT ![f] = NULL]
  /\ UNCHANGED <<task, route, lock, params, current, running, inbox, pipe, attempts, lost, faults, retries>>

\* A worker's event loop passes a return event on to the engine.
Forward(w) ==
  /\ w # "main" /\ Idle(w) /\ pipe[w] # << >>
  /\ pipe' = [pipe EXCEPT !["main"] = Append(@, Head(pipe[w])), ![w] = Tail(@)]
  /\ UNCHANGED <<task, route, lock, flush, params, current, running, inbox, attempts, lost, faults, retries>>

\* The engine reads a return event: a retry is scheduled while the limit allows it,
\* everything else ends the route's use of the task.
HandleReturn ==
  /\ Idle("main") /\ pipe["main"] # << >>
  /\ LET e == Head(pipe["main"])
         r == <<e.task, e.out>>
         again == e.ret = "retry" /\ attempts[r] < RetryLimit[e.out]
     IN  /\ task' = [task EXCEPT ![e.task] =
                       IF again THEN flb_task_users_dec(SetRetry(@, e.out, "timer"), FALSE)
                       ELSE flb_task_users_dec(SetRetry(@, e.out, "none"), TRUE)]
         /\ attempts' = [attempts EXCEPT ![r] = IF again THEN @ + 1 ELSE @]
  /\ pipe' = [pipe EXCEPT !["main"] = Tail(@)]
  /\ UNCHANGED <<route, lock, flush, params, current, running, inbox, lost, faults, retries>>

\* The engine drops a route to make room, under the lock and only while no route of the
\* task is active.
DropRoute(r) ==
  /\ Idle("main") /\ faults < MaxFaults /\ task[r[1]].status = "running"
  /\ lock[r[1]] = NULL /\ flb_task_get_active_route_count(r[1]) = 0
  /\ route' = flb_task_drop_route(r)
  /\ faults' = faults + 1
  /\ UNCHANGED <<task, lock, flush, params, current, running, inbox, pipe, attempts, lost, retries>>
-----------------------------------------------------------------------------
\* What a thread does with its coroutines.
CoroutineStep(f) == \/ Resume(f) \/ LockRoute(f) \/ CallFlush(f) \/ RefuseDropped(f)
                    \/ Notify(f, TRUE) \/ PrepareDestroy(f) \/ DestroyFlush(f)

FlushNext ==
  \/ \E t \in Tasks : StartTask(t) \/ \E o \in Outs : RetryTask(t, o)
  \/ \E th \in Threads : \/ \E f \in Slots, noParams \in BOOLEAN : CreateFlush(th, f, noParams)
                         \/ CreateFails(th) \/ Forward(th)
                         \/ \E ret \in {"ok", "retry"} : Finish(th, ret)
  \/ \E f \in Slots : CoroutineStep(f) \/ Yield(f) \/ Notify(f, FALSE)
  \/ HandleReturn
  \/ \E r \in Routes : DropRoute(r)

\* Threads run on, pipes are read, timers expire, and a plugin's callback ends: the
\* header calls FLB_OUTPUT_RETURN mandatory.
FlushFairness ==
  /\ \A t \in Tasks : WF_flushVars(StartTask(t))
  /\ \A r \in Routes : WF_flushVars(RetryTask(r[1], r[2]))
  /\ \A th \in Threads : /\ WF_flushVars(\E f \in Slots : CreateFlush(th, f, FALSE))
                         /\ WF_flushVars(Forward(th))
                         /\ SF_flushVars(\E ret \in {"ok", "retry"} : Finish(th, ret))
  /\ \A f \in Slots : WF_flushVars(CoroutineStep(f))
  /\ WF_flushVars(HandleReturn)

FlushSpec == FlushInit /\ [][FlushNext]_flushVars /\ FlushFairness
-----------------------------------------------------------------------------
\* Flushes of t under way that will still answer.
Unanswered(t) == {f \in Slots : Live(f) /\ flush[f].task = t
                                 /\ flush[f].at \notin {"notified", "destroying", "stuck"}}

Asked(t)    == UNION {{<<th, i>> : i \in {j \in DOMAIN inbox[th] : inbox[th][j][1] = t}} : th \in Threads}
Answered(t) == UNION {{<<th, i>> : i \in {j \in DOMAIN pipe[th] : pipe[th][j].task = t}} : th \in Threads}

\* A task's users are the flushes asked for, under way, answered but not handled, and
\* lost: so the task is not freed under a coroutine that still reads it, and it is kept
\* for ever when an answer is lost (flb_task.h:162-185, flb_output.h:980-984).
UsersCounted ==
  \A t \in Tasks :
    /\ task[t].users = Cardinality(Asked(t)) + Cardinality(Unanswered(t))
                       + Cardinality(Answered(t)) + lost[t]
    /\ task[t].status = "destroyed" =>
         /\ task[t].users = 0 /\ lock[t] = NULL
         /\ \A o \in Outs : task[t].retries[o] = "none"

\* A route is active exactly while a flush callback works on it (flb_output.h:573-588,
\* 937-941).
ActiveIffFlushing ==
  \A r \in Routes : route[r] = "active" <=>
    \E f \in Slots : Live(f) /\ PairOf(f) = r /\ flush[f].at \in {"flushing", "waiting", "returning"}

\* A route that was dropped before its flush looked is not given to the callback, although
\* the drop and the look are in different threads (flb_output.h:573-583).
DroppedIsNotFlushed ==
  [][\A f \in Slots : (Live(f) /\ Live(f)' /\ flush[f].at # "flushing" /\ flush[f].at # "waiting"
                       /\ flush'[f].at = "flushing") => flb_task_get_route_status(PairOf(f)) # "dropped"]_flushVars

\* A coroutine works with the parameters of its own flush, whichever flushes used the
\* thread's storage since, and at most one flush of a route is under way
\* (flb_output.h:558-568).
OwnFlush ==
  /\ \A f \in Slots : Live(f) /\ flush[f].at # "stuck" => flush[f].persisted = f
  /\ \A f, g \in Slots : (Live(f) /\ Live(g) /\ f # g /\ PairOf(f) = PairOf(g)) =>
       "destroying" \in {flush[f].at, flush[g].at}

\* Every task is started and released in the end, unless an answer was lost, and no
\* coroutine stays on a flush list but a stuck one.
TasksAreReleased ==
  <>[](/\ \A t \in Tasks : task[t].status = "destroyed" \/ lost[t] > 0
       /\ \A o \in Outs : flb_output_coros_size(o) =
            Cardinality({f \in Slots : Live(f) /\ flush[f].out = o /\ flush[f].at = "stuck"}))
=============================================================================
