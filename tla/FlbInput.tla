------------------------------ MODULE FlbInput ------------------------------
(* Collectors that run in coroutines (fluent-bit/flb_input.h).  The parameters of  *)
(* a new coroutine go through thread-specific storage, but the key of that storage *)
(* is one global variable, created anew by every collect: collects of two input    *)
(* threads interleave on it.  A coroutine copies its parameters when it is first    *)
(* entered and calls cb_collect when it is resumed.  The allocations of parameters   *)
(* may fail; a collect that gets no coroutine returns before it has changed anything, *)
(* and co_create, whose result is not looked at, succeeds.                            *)
EXTENDS FlbNull, Naturals, FiniteSets

CONSTANTS Collectors, InThreads,
          ThreadOfColl,  \* [Collectors -> the thread of the collector's instance]
          MaxKeys        \* PTHREAD_KEYS_MAX

ASSUME InputAssumption ==
  /\ ThreadOfColl \in [Collectors -> InThreads]
  /\ {NULL, "unset", "blank"} \cap Collectors = {}
  /\ MaxKeys \in Nat

VARIABLES key,       \* libco_in_param_key
          keys,      \* keys created so far
          storage,   \* [InThreads -> [key -> what the params hold, "unset" or "blank"]]
          work,      \* [InThreads -> the collect that the thread is in]
          coro,      \* [Collectors -> input coroutine]
          overtaken, \* history: collectors during whose collect another thread created a key
          starved    \* history: collectors for whose parameters there was no memory

inputVars == <<key, keys, storage, work, coro, overtaken, starved>>

NoWork == [at |-> "loop", coll |-> NULL, slot |-> 0]

\* struct flb_input_coro: on input_coro_list until "ended", then on input_coro_list_destroy.
CoroStates == {"none", "listed", "entered", "running", "waiting", "ended", "crashed"}

InputInit ==
  /\ key = 0 /\ keys = 0
  /\ storage = [th \in InThreads |-> [k \in 0 .. MaxKeys |-> "unset"]]
  /\ work = [th \in InThreads |-> NoWork]
  /\ coro = [c \in Collectors |-> [at |-> "none", coll |-> NULL]]
  /\ overtaken = {} /\ starved = {}

\* flb_input_coro_collect: flb_input_coro_create links a new coroutine.
Collect(c) ==
  /\ work[ThreadOfColl[c]].at = "loop" /\ coro[c].at = "none"
  /\ coro' = [coro EXCEPT ![c] = [at |-> "listed", coll |-> NULL]]
  /\ work' = [work EXCEPT ![ThreadOfColl[c]] = [at |-> "key", coll |-> c, slot |-> 0]]
  /\ overtaken' = overtaken \ {c} /\ starved' = starved \ {c}
  /\ UNCHANGED <<key, keys, storage>>

\* pthread_key_create on the global key; when no key is left the old one stays.
KeyCreate(th) ==
  /\ work[th].at = "key"
  /\ keys' = IF keys < MaxKeys THEN keys + 1 ELSE keys
  /\ key' = IF keys < MaxKeys THEN keys + 1 ELSE key
  /\ overtaken' = IF keys < MaxKeys
                  THEN overtaken \cup ({work[o].coll : o \in InThreads \ {th}} \ {NULL}) ELSE overtaken
  /\ work' = [work EXCEPT ![th].at = "get"]
  /\ UNCHANGED <<storage, coro, starved>>

\* input_params_set looks its params up and attaches new ones if there are none.
ParamsGet(th) ==
  /\ work[th].at = "get"
  /\ work' = [work EXCEPT ![th].at = IF storage[th][key] = "unset" THEN "attach" ELSE "fill",
                          ![th].slot = key]
  /\ UNCHANGED <<key, keys, storage, coro, overtaken, starved>>

\* The global key is read again by pthread_setspecific.
ParamsAttach(th) ==
  /\ work[th].at = "attach"
  /\ storage' = [storage EXCEPT ![th][key] = "blank"]
  /\ work' = [work EXCEPT ![th].at = "fill", ![th].slot = key]
  /\ UNCHANGED <<key, keys, coro, overtaken, starved>>

\* Without memory for them it returns: the coroutine stays listed and is not entered, and
\* the collect returns it all the same.
ParamsAttachFails(th) ==
  /\ work[th].at = "attach"
  /\ work' = [work EXCEPT ![th] = NoWork]
  /\ starved' = starved \cup {work[th].coll}
  /\ UNCHANGED <<key, keys, storage, coro, overtaken>>

\* The fields are set and the coroutine is entered.
ParamsFill(th) ==
  /\ work[th].at = "fill"
  /\ storage' = [storage EXCEPT ![th][work[th].slot] = work[th].coll]
  /\ work' = [work EXCEPT ![th].at = "pre"]
  /\ UNCHANGED <<key, keys, coro, overtaken, starved>>

\* The mutated form: the coroutine takes what its thread stored for the first key.
PreFirstKey(th) ==
  /\ work[th].at = "pre"
  /\ LET c    == work[th].coll
         held == {i \in 0 .. MaxKeys : storage[th][i] \in Collectors}
     IN  coro' = [coro EXCEPT ![c] =
                    IF held = {} THEN [at |-> "crashed", coll |-> NULL]
                    ELSE [at |-> "entered", coll |-> storage[th][CHOOSE i \in held : \A j \in held : i <= j]]]
  /\ work' = [work EXCEPT ![th] = NoWork]
  /\ UNCHANGED <<key, keys, storage, overtaken, starved>>

\* input_pre_cb_collect: the params of the current key, blank ones if this thread has none;
\* blank params have no coroutine to switch back to, and without memory for them the
\* function returns, which the function of a coroutine must not.
Pre(th) ==
  /\ work[th].at = "pre"
  /\ LET c   == work[th].coll
         has == storage[th][key] \in Collectors
     IN  /\ coro' = [coro EXCEPT ![c] = IF has THEN [at |-> "entered", coll |-> storage[th][key]]
                                        ELSE [at |-> "crashed", coll |-> NULL]]
         /\ storage' \in {storage} \cup (IF has THEN {} ELSE {[storage EXCEPT ![th][key] = "blank"]})
  /\ work' = [work EXCEPT ![th] = NoWork]
  /\ UNCHANGED <<key, keys, overtaken, starved>>

\* flb_input_coro_resume of a coroutine that was left listed: it is entered only now.
EnterInput(c) ==
  /\ coro[c].at = "listed" /\ work[ThreadOfColl[c]].at = "loop"
  /\ work' = [work EXCEPT ![ThreadOfColl[c]] = [at |-> "pre", coll |-> c, slot |-> key]]
  /\ UNCHANGED <<key, keys, storage, coro, overtaken, starved>>

\* flb_input_coro_resume: cb_collect of the collector in the copied parameters.
ResumeInput(c) ==
  /\ coro[c].at \in {"entered", "waiting"} /\ work[ThreadOfColl[c]].at = "loop"
  /\ coro' = [coro EXCEPT ![c].at = "running"]
  /\ work' = [work EXCEPT ![ThreadOfColl[c]].at = "coro"]
  /\ UNCHANGED <<key, keys, storage, overtaken, starved>>

YieldInput(c) ==
  /\ coro[c].at = "running"
  /\ coro' = [coro EXCEPT ![c].at = "waiting"]
  /\ work' = [work EXCEPT ![ThreadOfColl[c]] = NoWork]
  /\ UNCHANGED <<key, keys, storage, overtaken, starved>>

\* FLB_INPUT_RETURN: the coroutine goes to the destroy list and yields; that its event
\* could not be written to ch_events is only logged.
flb_input_return(c) ==
  /\ coro[c].at = "running"
  /\ coro' = [coro EXCEPT ![c].at = "ended"]
  /\ work' = [work EXCEPT ![ThreadOfColl[c]] = NoWork]
  /\ UNCHANGED <<key, keys, storage, overtaken, starved>>

\* The event loop's cleanup of input_coro_list_destroy.
DestroyInput(c) ==
  /\ coro[c].at = "ended" /\ work[ThreadOfColl[c]].at = "loop"
  /\ coro' = [coro EXCEPT ![c] = [at |-> "none", coll |-> NULL]]
  /\ UNCHANGED <<key, keys, storage, work, overtaken, starved>>

InputNext ==
  \/ \E c \in Collectors : \/ Collect(c) \/ EnterInput(c) \/ ResumeInput(c) \/ YieldInput(c)
                           \/ DestroyInput(c) \/ flb_input_return(c)
  \/ \E th \in InThreads : \/ KeyCreate(th) \/ ParamsGet(th) \/ ParamsAttach(th)
                           \/ ParamsAttachFails(th) \/ ParamsFill(th) \/ Pre(th)

InputSpec == InputInit /\ [][InputNext]_inputVars
-----------------------------------------------------------------------------
\* A coroutine runs the callback of its own collector, unless there was no memory for its
\* parameters; and it is entered without parameters only then, or when another thread
\* replaced the global key during its collect (flb_input.h:469-515, :542).
CollectsForItself ==
  \A c \in Collectors :
    /\ coro[c].at \in {"entered", "running", "waiting", "ended"} =>
         coro[c].coll = c \/ c \in starved
    /\ coro[c].at = "crashed" => c \in overtaken \cup starved
=============================================================================
