-------------------------- MODULE FlbLibraryProofs --------------------------
(* Theorems about the parts of the Fluent Bit headers that share no state: streams, *)
(* input coroutines, plugin registry, processing before a flush, lists, log event     *)
(* encoder and codecs.                                                                *)
EXTENDS FlbStream, FlbInput, FlbPlugins, OutputProcess, MkList, LogEncoder, FlbCodecs,
        SequenceTheorems, FiniteSetTheorems, TLAPS

-----------------------------------------------------------------------------
(* Streams. *)

\* Once the mutex is initialised, with nobody inside at that moment, who is inside holds it.
StreamInv ==
  /\ stream \in [safe : BOOLEAN, flags : SUBSET Modes, linked : BOOLEAN]
  /\ mutex \in StreamUsers \cup {"none", "unset"} /\ inside \subseteq StreamUsers
  /\ enabling \in {"out", "init", "unlink"} /\ (enabling # "out" => stream.safe)
  /\ mutex # "unset" => stream.safe
  /\ stream.safe /\ enabling = "out" => ~ stream.linked
  /\ mutex # "unset" /\ ~ early => \A u \in inside : mutex = u

\* Users who all hold one mutex are at most one.
LEMMA HoldersAreOne ==
  ASSUME NEW S, NEW m, \A u \in S : m = u
  PROVE  Cardinality(S) <= 1
  <1>1. CASE S = {}
    <2>1. Cardinality(S) = 0
      BY <1>1, FS_EmptySet
    <2>2. QED
      BY <2>1
  <1>2. CASE S # {}
    <2>1. S = {m}
      BY <1>2
    <2>2. Cardinality(S) = 1
      BY <2>1, FS_Singleton
    <2>3. QED
      BY <2>2
  <1>3. QED
    BY <1>1, <1>2

\* One step of the stream's users keeps the invariant.
LEMMA StreamStep ==
  ASSUME StreamInv, [StreamNext]_streamVars PROVE StreamInv'
  <1>1. CASE UNCHANGED streamVars
    BY <1>1 DEF StreamInv, streamVars
  <1>2. ASSUME NEW flag \in Modes, NEW on \in BOOLEAN, SwitchMode(flag, on) PROVE StreamInv'
    BY <1>2 DEF StreamInv, SwitchMode, flb_stream_enable_flags, flb_stream_disable_flags
  <1>3. CASE EnableFlag
    BY <1>3 DEF StreamInv, EnableFlag
  <1>4. CASE EnableMutex
    <2>1. /\ enabling = "init" /\ mutex' = "none" /\ enabling' = "unlink"
          /\ early' = (early \/ inside # {}) /\ UNCHANGED <<stream, inside>>
      BY <1>4 DEF EnableMutex
    <2>2. stream.safe
      BY <2>1 DEF StreamInv
    <2>3. QED
      BY <2>1, <2>2 DEF StreamInv
  <1>5. CASE EnableUnlink
    BY <1>5 DEF StreamInv, EnableUnlink
  <1>6. ASSUME NEW u \in StreamUsers, flb_stream_release_lock(u) PROVE StreamInv'
    <2>1. /\ u \in inside /\ inside' = inside \ {u} /\ UNCHANGED <<stream, enabling, early>>
          /\ mutex' \in {mutex, "none"} /\ (mutex = "unset" => mutex' = mutex)
      BY <1>6, StreamAssumption DEF flb_stream_release_lock
    <2>2. mutex # "unset" /\ ~ early => inside' = {}
      BY <2>1 DEF StreamInv
    <2>3. QED
      BY <2>1, <2>2 DEF StreamInv
  <1>7. ASSUME NEW u \in StreamUsers, NEW w \in BOOLEAN, flb_stream_acquire_lock(u, w)
        PROVE  StreamInv'
    <2>1. UNCHANGED <<stream, enabling, early>>
      BY <1>7 DEF flb_stream_acquire_lock
    <2>2. CASE inside' = inside /\ mutex' = mutex
      BY <2>1, <2>2 DEF StreamInv
    <2>3. CASE inside' = inside \cup {u} /\ mutex = "unset" /\ mutex' = mutex
      BY <2>1, <2>3 DEF StreamInv
    <2>4. CASE inside' = inside \cup {u} /\ stream.safe /\ mutex = "none" /\ mutex' = u
      <3>1. ~ early => inside = {}
        BY <2>4, StreamAssumption DEF StreamInv
      <3>2. QED
        BY <2>1, <2>4, <3>1 DEF StreamInv
    <2>5. QED
      BY <1>7, <2>2, <2>3, <2>4 DEF flb_stream_acquire_lock, Enter, Refuse, StreamInv
  <1>8. QED
    BY <1>1, <1>2, <1>3, <1>4, <1>5, <1>6, <1>7 DEF StreamNext

\* Once its mutex is initialised a stream has one user at a time, the holder, unless somebody
\* was inside at that moment: flb_stream_acquire_lock admits only the holder of the mutex,
\* and only the user who is inside can unlock it.  The three steps of enabling are seen one
\* by one, and may be taken again.
THEOREM OneStreamUser == StreamSpec => []ExclusiveWhenSafe
  <1>1. StreamInit => StreamInv
    BY DEF StreamInit, StreamInv
  <1>2. StreamInv /\ [StreamNext]_streamVars => StreamInv'
    BY StreamStep
  <1>3. StreamInv => ExclusiveWhenSafe
    BY HoldersAreOne DEF StreamInv, ExclusiveWhenSafe
  <1>4. QED
    BY <1>1, <1>2, <1>3, PTL DEF StreamSpec

-----------------------------------------------------------------------------
(* Input coroutines. *)

WorkRecord == [at : {"loop", "key", "get", "attach", "fill", "pre", "coro"},
               coll : Collectors \cup {NULL}, slot : 0 .. MaxKeys]

CoroRecord == [at : CoroStates, coll : Collectors \cup {NULL}]

InputTypes ==
  /\ keys \in 0 .. MaxKeys /\ key = keys
  /\ storage \in [InThreads -> [0 .. MaxKeys -> Collectors \cup {"unset", "blank"}]]
  /\ work \in [InThreads -> WorkRecord]
  /\ coro \in [Collectors -> CoroRecord]

\* No thread has stored anything under a key that was not created yet.
UnusedAbove == \A th \in InThreads : \A k \in 0 .. MaxKeys : k > key => storage[th][k] = "unset"

\* A collect belongs to its collector's thread.  Once it has its slot, nothing is stored for the
\* thread under a later key, and the slot is the current key's unless another thread came in
\* between; once it has filled the slot, the slot holds its collector, unless it is entered
\* late because it was starved.
InFlight(th) ==
  LET w == work[th]
  IN  /\ w.at \in {"key", "get", "attach", "fill", "pre"} =>
           w.coll \in Collectors /\ ThreadOfColl[w.coll] = th /\ coro[w.coll].at = "listed"
      /\ w.at \in {"fill", "pre"} =>
           /\ \A k \in 0 .. MaxKeys : k > w.slot => storage[th][k] = "unset"
           /\ w.slot <= key
           /\ w.slot < key => w.coll \in overtaken
      /\ w.at = "pre" => storage[th][w.slot] = w.coll \/ w.coll \in starved

\* A coroutine that is listed and not in flight was starved.
ListedInFlight ==
  \A c \in Collectors : coro[c].at = "listed" /\ c \notin starved =>
    work[ThreadOfColl[c]].at \notin {"loop", "coro"} /\ work[ThreadOfColl[c]].coll = c

\* A thread runs one coroutine, or none.
OneRunning ==
  \A c \in Collectors : coro[c].at = "running" =>
    /\ work[ThreadOfColl[c]].at = "coro"
    /\ \A d \in Collectors : coro[d].at = "running" /\ ThreadOfColl[d] = ThreadOfColl[c] => d = c

InputInv == /\ InputTypes /\ UnusedAbove /\ (\A th \in InThreads : InFlight(th))
            /\ ListedInFlight /\ OneRunning /\ CollectsForItself

\* A step of a thread that is in no coroutine, and that leads into none, leaves this as it is.
LEMMA QuietStep ==
  ASSUME OneRunning, NEW th \in InThreads, work[th].at # "coro",
         \A o \in InThreads : o # th => work'[o] = work[o],
         \A d \in Collectors : coro'[d].at = "running" => coro[d].at = "running"
  PROVE  OneRunning'
  BY InputAssumption DEF OneRunning

\* The types that the steps of a collect need.
LEMMA WorkTyped ==
  ASSUME InputInv
  PROVE  work \in [InThreads -> WorkRecord] /\ key \in 0 .. MaxKeys /\ 0 \in 0 .. MaxKeys
  <1>1. InputTypes
    BY DEF InputInv
  <1>2. QED
    BY <1>1, InputAssumption DEF InputTypes

\* A thread goes on to another step of its collect, with another slot or with its own.
LEMMA WorkGoesOn ==
  ASSUME work \in [InThreads -> WorkRecord], NEW th \in InThreads,
         NEW at \in {"loop", "key", "get", "attach", "fill", "pre", "coro"}, NEW s \in 0 .. MaxKeys
  PROVE  /\ [work EXCEPT ![th].at = at, ![th].slot = s] \in [InThreads -> WorkRecord]
         /\ [work EXCEPT ![th].at = at] \in [InThreads -> WorkRecord]
  <1>1. ASSUME NEW r \in WorkRecord
        PROVE  [r EXCEPT !.at = at, !.slot = s] \in WorkRecord /\ [r EXCEPT !.at = at] \in WorkRecord
    BY <1>1 DEF WorkRecord
  <1>2. work[th] \in WorkRecord
    OBVIOUS
  <1>3. [work[th] EXCEPT !.at = at, !.slot = s] \in WorkRecord /\ [work[th] EXCEPT !.at = at] \in WorkRecord
    BY <1>1, <1>2
  <1>4. [work EXCEPT ![th].at = at] \in [InThreads -> WorkRecord]
    BY <1>3
  <1>5. [work EXCEPT ![th].at = at, ![th].slot = s]
          = [work EXCEPT ![th] = [work[th] EXCEPT !.at = at, !.slot = s]]
    BY <1>2 DEF WorkRecord
  <1>6. QED
    BY <1>3, <1>4, <1>5

\* A thread creates a key: the slots of the other threads' collects become old, and these
\* collects overtaken.
LEMMA KeyCreateStep ==
  ASSUME InputInv, NEW th \in InThreads, KeyCreate(th) PROVE InputInv'
  <1> USE InputAssumption
  <1>1. InputTypes'
    <2>1. work' \in [InThreads -> WorkRecord]
      BY DEF InputInv, InputTypes, WorkRecord, KeyCreate
    <2>2. keys' \in 0 .. MaxKeys /\ key' = keys'
      BY DEF InputInv, InputTypes, KeyCreate
    <2>3. QED
      BY <2>1, <2>2 DEF InputInv, InputTypes, KeyCreate
  <1>2. key' >= key
    BY DEF InputInv, InputTypes, KeyCreate
  <1>3. UnusedAbove'
    BY <1>1, <1>2 DEF InputInv, InputTypes, UnusedAbove, KeyCreate
  <1>4. overtaken \subseteq overtaken'
    BY DEF KeyCreate
  <1>5. ASSUME NEW o \in InThreads PROVE InFlight(o)'
    <2>1. CASE o = th
      BY <2>1 DEF InputInv, InputTypes, InFlight, KeyCreate
    <2>2. CASE o # th
      <3>1. work'[o] = work[o] /\ UNCHANGED <<storage, coro, starved>>
        BY <2>2 DEF InputInv, InputTypes, KeyCreate
      <3>2. ASSUME work[o].at \in {"fill", "pre"}, work[o].slot < key'
            PROVE  work[o].coll \in overtaken'
        <4>1. CASE keys < MaxKeys
          BY <2>2, <3>2, <4>1 DEF InputInv, InFlight, KeyCreate
        <4>2. CASE ~ (keys < MaxKeys)
          BY <3>2, <4>2 DEF InputInv, InFlight, KeyCreate
        <4>3. QED
          BY <4>1, <4>2
      <3>3. work[o].at \in {"fill", "pre"} => work[o].slot <= key'
        BY <1>1, <1>2 DEF InputInv, InputTypes, WorkRecord, InFlight
      <3>4. QED
        BY <3>1, <3>2, <3>3 DEF InputInv, InFlight
    <2>3. QED
      BY <2>1, <2>2
  <1>6. CollectsForItself'
    BY <1>4 DEF InputInv, CollectsForItself, KeyCreate
  <1>7. ListedInFlight'
    <2>1. \A o \in InThreads : work[o].at \notin {"loop", "coro"} => work'[o].at \notin {"loop", "coro"} /\ work'[o].coll = work[o].coll
      BY DEF InputInv, InputTypes, WorkRecord, KeyCreate
    <2>2. coro' = coro /\ starved' = starved
      BY DEF KeyCreate
    <2>3. QED
      BY <2>1, <2>2 DEF InputInv, ListedInFlight
  <1>8. OneRunning'
    BY QuietStep DEF InputInv, InputTypes, KeyCreate
  <1>9. QED
    BY <1>1, <1>3, <1>5, <1>6, <1>7, <1>8 DEF InputInv

\* The parameters are looked up, attached and filled: three steps of one thread, between which
\* the key may have changed.
LEMMA ParamsStep ==
  ASSUME InputInv, NEW th \in InThreads, ParamsGet(th) \/ ParamsAttach(th) \/ ParamsFill(th)
  PROVE  InputInv'
  <1> USE InputAssumption
  <1>1. ListedInFlight' /\ OneRunning'
    <2>1. UNCHANGED <<coro, starved>> /\ work[th].at # "coro" /\ \A o \in InThreads : o # th => work'[o] = work[o]
      BY DEF InputInv, InputTypes, ParamsGet, ParamsAttach, ParamsFill
    <2>2. \A o \in InThreads : work[o].at \notin {"loop", "coro"} => work'[o].at \notin {"loop", "coro"} /\ work'[o].coll = work[o].coll
      <3>1. work \in [InThreads -> WorkRecord]
        BY WorkTyped
      <3>2. CASE ParamsGet(th)
        <4>1. PICK at \in {"attach", "fill"} :
                work' = [work EXCEPT ![th].at = at, ![th].slot = key]
          BY <3>2 DEF ParamsGet
        <4>2. QED
          BY <3>1, <4>1 DEF WorkRecord
      <3>3. CASE ParamsAttach(th)
        BY <3>1, <3>3 DEF WorkRecord, ParamsAttach
      <3>4. CASE ParamsFill(th)
        BY <3>1, <3>4 DEF WorkRecord, ParamsFill
      <3>5. QED
        BY <3>2, <3>3, <3>4
    <2>3. OneRunning'
      BY <2>1, QuietStep DEF InputInv
    <2>4. QED
      BY <2>1, <2>2, <2>3 DEF InputInv, ListedInFlight
  <1>2. CASE ParamsGet(th)
    <2>1. work' \in [InThreads -> WorkRecord]
      <3>1. PICK at \in {"attach", "fill"} :
              work' = [work EXCEPT ![th].at = at, ![th].slot = key]
        BY <1>2 DEF ParamsGet
      <3>2. work \in [InThreads -> WorkRecord] /\ key \in 0 .. MaxKeys
        BY WorkTyped, Zenon
      <3>3. [work EXCEPT ![th].at = at, ![th].slot = key] \in [InThreads -> WorkRecord]
        BY <3>2, WorkGoesOn
      <3>4. QED
        BY <3>1, <3>3
    <2>2. InputTypes' /\ UnusedAbove' /\ CollectsForItself'
      BY <1>2, <2>1 DEF InputInv, InputTypes, WorkRecord, UnusedAbove, CollectsForItself, ParamsGet
    <2>3. ASSUME NEW o \in InThreads PROVE InFlight(o)'
      <3>1. CASE o = th
        BY <1>2, <3>1 DEF InputInv, InputTypes, WorkRecord, UnusedAbove, InFlight, ParamsGet
      <3>2. CASE o # th
        <4>1. work'[o] = work[o] /\ storage'[o] = storage[o] /\ UNCHANGED <<key, coro, overtaken, starved>>
          BY <1>2, <3>2 DEF InputInv, InputTypes, ParamsGet
        <4>2. QED
          BY <4>1 DEF InputInv, InFlight
      <3>3. QED
        BY <3>1, <3>2
    <2>4. QED
      BY <1>1, <2>2, <2>3 DEF InputInv
  <1>3. CASE ParamsAttach(th)
    <2>1. work' \in [InThreads -> WorkRecord]
      <3>1. work' = [work EXCEPT ![th].at = "fill", ![th].slot = key]
        BY <1>3 DEF ParamsAttach
      <3>2. work \in [InThreads -> WorkRecord] /\ key \in 0 .. MaxKeys
        BY WorkTyped, Zenon
      <3>3. [work EXCEPT ![th].at = "fill", ![th].slot = key] \in [InThreads -> WorkRecord]
        BY <3>2, WorkGoesOn
      <3>4. QED
        BY <3>1, <3>3
    <2>2. storage' \in [InThreads -> [0 .. MaxKeys -> Collectors \cup {"unset", "blank"}]]
      BY <1>3 DEF InputInv, InputTypes, WorkRecord, ParamsAttach
    <2>3. InputTypes' /\ UnusedAbove' /\ CollectsForItself'
      BY <1>3, <2>1, <2>2 DEF InputInv, InputTypes, WorkRecord, UnusedAbove, CollectsForItself, ParamsAttach
    <2>4. ASSUME NEW o \in InThreads PROVE InFlight(o)'
      <3>1. CASE o = th
        BY <1>3, <3>1 DEF InputInv, InputTypes, WorkRecord, UnusedAbove, InFlight, ParamsAttach
      <3>2. CASE o # th
        <4>1. work'[o] = work[o] /\ storage'[o] = storage[o] /\ UNCHANGED <<key, coro, overtaken, starved>>
          BY <1>3, <3>2 DEF InputInv, InputTypes, ParamsAttach
        <4>2. QED
          BY <4>1 DEF InputInv, InFlight
      <3>3. QED
        BY <3>1, <3>2
    <2>5. QED
      BY <1>1, <2>3, <2>4 DEF InputInv
  <1>4. CASE ParamsFill(th)
    <2>1. work' \in [InThreads -> WorkRecord]
      BY <1>4 DEF InputInv, InputTypes, WorkRecord, ParamsFill
    <2>2. storage' \in [InThreads -> [0 .. MaxKeys -> Collectors \cup {"unset", "blank"}]]
      BY <1>4 DEF InputInv, InputTypes, WorkRecord, InFlight, ParamsFill
    <2>3. InputTypes' /\ UnusedAbove' /\ CollectsForItself'
      BY <1>4, <2>1, <2>2 DEF InputInv, InputTypes, WorkRecord, UnusedAbove, InFlight, CollectsForItself, ParamsFill
    <2>4. ASSUME NEW o \in InThreads PROVE InFlight(o)'
      <3>1. CASE o = th
        BY <1>4, <3>1 DEF InputInv, InputTypes, WorkRecord, UnusedAbove, InFlight, ParamsFill
      <3>2. CASE o # th
        <4>1. work'[o] = work[o] /\ storage'[o] = storage[o] /\ UNCHANGED <<key, coro, overtaken, starved>>
          BY <1>4, <3>2 DEF InputInv, InputTypes, ParamsFill
        <4>2. QED
          BY <4>1 DEF InputInv, InFlight
      <3>3. QED
        BY <3>1, <3>2
    <2>5. QED
      BY <1>1, <2>3, <2>4 DEF InputInv
  <1>5. QED
    BY <1>2, <1>3, <1>4

\* There is no memory for the parameters: the coroutine is left as it was.
LEMMA StarvedStep ==
  ASSUME InputInv, NEW th \in InThreads, ParamsAttachFails(th) PROVE InputInv'
  <1> USE InputAssumption
  <1> DEFINE c == work[th].coll
  <1>1. /\ work[th].at = "attach" /\ work' = [work EXCEPT ![th] = NoWork] /\ starved' = starved \cup {c}
        /\ UNCHANGED <<key, keys, storage, coro, overtaken>>
    BY DEF ParamsAttachFails
  <1>2. work \in [InThreads -> WorkRecord] /\ NoWork \in WorkRecord /\ NoWork.at = "loop"
    BY WorkTyped DEF NoWork, WorkRecord
  <1>3. work' \in [InThreads -> WorkRecord] /\ \A o \in InThreads : o # th => work'[o] = work[o]
    BY <1>1, <1>2
  <1>4. InputTypes' /\ UnusedAbove'
    BY <1>1, <1>3 DEF InputInv, InputTypes, UnusedAbove
  <1>5. ASSUME NEW o \in InThreads PROVE InFlight(o)'
    <2>1. CASE o = th
      BY <1>1, <1>2, <2>1 DEF InFlight
    <2>2. CASE o # th
      BY <1>1, <1>3, <2>2 DEF InputInv, InFlight
    <2>3. QED
      BY <2>1, <2>2
  <1>6. ASSUME NEW d \in Collectors, coro'[d].at = "listed", d \notin starved'
        PROVE  work'[ThreadOfColl[d]].at \notin {"loop", "coro"} /\ work'[ThreadOfColl[d]].coll = d
    <2>1. d # c /\ work[ThreadOfColl[d]].at \notin {"loop", "coro"} /\ work[ThreadOfColl[d]].coll = d
      BY <1>1, <1>6 DEF InputInv, ListedInFlight
    <2>2. ThreadOfColl[d] \in InThreads /\ ThreadOfColl[d] # th
      BY <2>1
    <2>3. QED
      BY <1>3, <2>1, <2>2
  <1>7. CollectsForItself'
    BY <1>1 DEF InputInv, CollectsForItself
  <1>8. OneRunning'
    BY <1>1, <1>3, QuietStep DEF InputInv
  <1>9. QED
    BY <1>4, <1>5, <1>6, <1>7, <1>8 DEF InputInv, ListedInFlight

\* A starved coroutine is resumed: it is entered like a new one, without its parameters.
LEMMA EnterStep ==
  ASSUME InputInv, NEW c \in Collectors, EnterInput(c) PROVE InputInv'
  <1> USE InputAssumption
  <1> DEFINE th == ThreadOfColl[c]
             w  == [at |-> "pre", coll |-> c, slot |-> key]
  <1>1. /\ coro[c].at = "listed" /\ work[th].at = "loop" /\ work' = [work EXCEPT ![th] = w]
        /\ UNCHANGED <<key, keys, storage, coro, overtaken, starved>>
    BY DEF EnterInput
  <1>2. c \in starved
    BY <1>1 DEF InputInv, ListedInFlight
  <1>3. work \in [InThreads -> WorkRecord] /\ key \in 0 .. MaxKeys /\ th \in InThreads
    BY WorkTyped
  <1>4. w \in WorkRecord
    BY <1>3 DEF WorkRecord
  <1>5. /\ work' \in [InThreads -> WorkRecord] /\ work'[th] = w
        /\ \A o \in InThreads : o # th => work'[o] = work[o]
    BY <1>1, <1>3, <1>4
  <1>6. InputTypes' /\ UnusedAbove' /\ CollectsForItself'
    BY <1>1, <1>5 DEF InputInv, InputTypes, UnusedAbove, CollectsForItself
  <1>7. ASSUME NEW o \in InThreads PROVE InFlight(o)'
    <2>1. CASE o = th
      <3>1. \A k \in 0 .. MaxKeys : k > key => storage[th][k] = "unset"
        BY <1>3 DEF InputInv, UnusedAbove
      <3>2. QED
        BY <1>1, <1>2, <1>3, <1>5, <2>1, <3>1 DEF InFlight
    <2>2. CASE o # th
      BY <1>1, <1>5, <2>2 DEF InputInv, InFlight
    <2>3. QED
      BY <2>1, <2>2
  <1>8. ASSUME NEW d \in Collectors, coro'[d].at = "listed", d \notin starved'
        PROVE  work'[ThreadOfColl[d]].at \notin {"loop", "coro"} /\ work'[ThreadOfColl[d]].coll = d
    <2>1. work[ThreadOfColl[d]].at \notin {"loop", "coro"} /\ work[ThreadOfColl[d]].coll = d
      BY <1>1, <1>8 DEF InputInv, ListedInFlight
    <2>2. ThreadOfColl[d] \in InThreads /\ ThreadOfColl[d] # th
      BY <1>1, <2>1
    <2>3. QED
      BY <1>5, <2>1, <2>2
  <1>9. OneRunning'
    BY <1>1, <1>3, <1>5, QuietStep DEF InputInv
  <1>10. QED
    BY <1>6, <1>7, <1>8, <1>9 DEF InputInv, ListedInFlight

\* The coroutine copies its own parameters, or none because its key was replaced, or what
\* there is because it was starved.
LEMMA PreStep ==
  ASSUME InputInv, NEW th \in InThreads, Pre(th) PROVE InputInv'
  <1> USE InputAssumption
  <1> DEFINE c == work[th].coll
  <1>1. c \in Collectors /\ ThreadOfColl[c] = th
    BY DEF InputInv, InFlight, Pre
  <1>2. storage[th][key] \in Collectors => storage[th][key] = c \/ c \in starved
    BY DEF InputInv, InputTypes, WorkRecord, InFlight, Pre
  <1>3. storage[th][key] \notin Collectors => c \in overtaken \cup starved
    BY DEF InputInv, InputTypes, WorkRecord, InFlight, Pre
  <1>4. InputTypes' /\ UnusedAbove'
    <2>1. work' \in [InThreads -> WorkRecord]
      BY DEF InputInv, InputTypes, WorkRecord, Pre, NoWork
    <2>2. coro' \in [Collectors -> CoroRecord]
      BY <1>1 DEF InputInv, InputTypes, CoroRecord, CoroStates, Pre
    <2>3. storage' \in [InThreads -> [0 .. MaxKeys -> Collectors \cup {"unset", "blank"}]] /\ UnusedAbove'
      <3>1. storage' = storage \/ storage' = [storage EXCEPT ![th][key] = "blank"]
        BY DEF Pre
      <3>2. key' = key /\ key \in 0 .. MaxKeys
        BY WorkTyped DEF Pre
      <3>3. CASE storage' = storage
        BY <3>2, <3>3 DEF InputInv, InputTypes, UnusedAbove
      <3>4. CASE storage' = [storage EXCEPT ![th][key] = "blank"]
        BY <3>2, <3>4 DEF InputInv, InputTypes, UnusedAbove
      <3>5. QED
        BY <3>1, <3>3, <3>4
    <2>4. QED
      BY <2>1, <2>2, <2>3 DEF InputInv, InputTypes, Pre
  <1>5. CollectsForItself'
    BY <1>1, <1>2, <1>3 DEF InputInv, InputTypes, CollectsForItself, Pre
  <1>6. ASSUME NEW o \in InThreads PROVE InFlight(o)'
    <2>1. CASE o = th
      BY <2>1 DEF InputInv, InputTypes, InFlight, Pre, NoWork
    <2>2. CASE o # th
      <3>1. work'[o] = work[o] /\ storage'[o] = storage[o]
        <4>1. storage' = storage \/ storage' = [storage EXCEPT ![th][key] = "blank"]
          BY DEF Pre
        <4>2. QED
          BY <2>2, <4>1 DEF InputInv, InputTypes, Pre
      <3>2. ASSUME NEW d \in Collectors, d # c PROVE coro'[d] = coro[d]
        BY <1>1, <3>2 DEF InputInv, InputTypes, Pre
      <3>3. QED
        BY <1>1, <2>2, <3>1, <3>2 DEF InputInv, InFlight, Pre
    <2>3. QED
      BY <2>1, <2>2
  <1>7. ASSUME NEW d \in Collectors, coro'[d].at = "listed", d \notin starved'
        PROVE  work'[ThreadOfColl[d]].at \notin {"loop", "coro"} /\ work'[ThreadOfColl[d]].coll = d
    <2>1. coro'[c].at \in {"entered", "crashed"} /\ starved' = starved
      BY <1>1 DEF InputInv, InputTypes, Pre
    <2>2. d # c /\ coro'[d] = coro[d]
      BY <1>1, <1>7, <2>1 DEF InputInv, InputTypes, Pre
    <2>3. work[ThreadOfColl[d]].at \notin {"loop", "coro"} /\ work[ThreadOfColl[d]].coll = d
      BY <1>7, <2>1, <2>2 DEF InputInv, ListedInFlight
    <2>4. ThreadOfColl[d] \in InThreads /\ ThreadOfColl[d] # th
      BY <2>2, <2>3
    <2>5. work'[ThreadOfColl[d]] = work[ThreadOfColl[d]]
      BY <2>4 DEF InputInv, InputTypes, Pre
    <2>6. QED
      BY <2>3, <2>5
  <1>8. OneRunning'
    <2>1. work[th].at # "coro" /\ \A o \in InThreads : o # th => work'[o] = work[o]
      BY DEF InputInv, InputTypes, Pre
    <2>2. \A d \in Collectors : coro'[d].at = "running" => coro[d].at = "running"
      BY <1>1 DEF InputInv, InputTypes, Pre
    <2>3. QED
      BY <2>1, <2>2, QuietStep DEF InputInv
  <1>9. QED
    BY <1>4, <1>5, <1>6, <1>7, <1>8 DEF InputInv, ListedInFlight

\* A collect begins.
LEMMA CollectStep ==
  ASSUME InputInv, NEW c \in Collectors, Collect(c) PROVE InputInv'
  <1> USE InputAssumption
  <1>1. InputTypes' /\ UnusedAbove'
    <2>1. work' \in [InThreads -> WorkRecord]
      <3>1. [at |-> "key", coll |-> c, slot |-> 0] \in WorkRecord
        BY DEF WorkRecord
      <3>2. QED
        BY <3>1 DEF InputInv, InputTypes, Collect
    <2>2. coro' \in [Collectors -> CoroRecord]
      BY DEF InputInv, InputTypes, CoroRecord, CoroStates, Collect
    <2>3. QED
      BY <2>1, <2>2 DEF InputInv, InputTypes, UnusedAbove, Collect
  <1>2. CollectsForItself'
    BY DEF InputInv, InputTypes, CollectsForItself, Collect
  <1>3. ASSUME NEW o \in InThreads PROVE InFlight(o)'
    <2>1. CASE o = ThreadOfColl[c]
      BY <2>1 DEF InputInv, InputTypes, InFlight, Collect
    <2>2. CASE o # ThreadOfColl[c]
      <3>1. work'[o] = work[o] /\ UNCHANGED <<storage, key>>
        BY <2>2 DEF InputInv, InputTypes, Collect
      <3>2. ASSUME NEW d \in Collectors, d # c
            PROVE  /\ coro'[d] = coro[d]
                   /\ (d \in overtaken => d \in overtaken') /\ (d \in starved <=> d \in starved')
        BY <3>2 DEF InputInv, InputTypes, Collect
      <3>3. QED
        BY <2>2, <3>1, <3>2 DEF InputInv, InFlight
    <2>3. QED
      BY <2>1, <2>2
  <1>4. ASSUME NEW d \in Collectors, coro'[d].at = "listed", d \notin starved'
        PROVE  work'[ThreadOfColl[d]].at \notin {"loop", "coro"} /\ work'[ThreadOfColl[d]].coll = d
    <2>1. CASE d = c
      BY <2>1 DEF InputInv, InputTypes, Collect
    <2>2. CASE d # c
      <3>1. coro'[d] = coro[d] /\ d \notin starved
        BY <1>4, <2>2 DEF InputInv, InputTypes, Collect
      <3>2. work[ThreadOfColl[d]].at \notin {"loop", "coro"} /\ work[ThreadOfColl[d]].coll = d
        BY <1>4, <3>1 DEF InputInv, ListedInFlight
      <3>3. ThreadOfColl[d] \in InThreads /\ ThreadOfColl[d] # ThreadOfColl[c]
        BY <3>2 DEF Collect
      <3>4. work'[ThreadOfColl[d]] = work[ThreadOfColl[d]]
        BY <3>3 DEF InputInv, InputTypes, Collect
      <3>5. QED
        BY <3>2, <3>4
    <2>3. QED
      BY <2>1, <2>2
  <1>5. OneRunning'
    <2>1. /\ ThreadOfColl[c] \in InThreads /\ work[ThreadOfColl[c]].at # "coro"
          /\ \A o \in InThreads : o # ThreadOfColl[c] => work'[o] = work[o]
      BY DEF InputInv, InputTypes, Collect
    <2>2. \A d \in Collectors : coro'[d].at = "running" => coro[d].at = "running"
      BY DEF InputInv, InputTypes, Collect
    <2>3. QED
      BY <2>1, <2>2, QuietStep DEF InputInv
  <1>6. QED
    BY <1>1, <1>2, <1>3, <1>4, <1>5 DEF InputInv, ListedInFlight

\* The steps of a coroutine after its creation touch no collect.
LEMMA CoroStep ==
  ASSUME InputInv, NEW c \in Collectors,
         ResumeInput(c) \/ YieldInput(c) \/ flb_input_return(c) \/ DestroyInput(c)
  PROVE  InputInv'
  <1> USE InputAssumption
  <1>1. UNCHANGED <<key, keys, storage, overtaken, starved>> /\ coro[c].at # "listed"
    BY DEF ResumeInput, YieldInput, flb_input_return, DestroyInput
  <1>2. ThreadOfColl[c] \in InThreads
    OBVIOUS
  <1>3. work' \in [InThreads -> WorkRecord]
        /\ \A o \in InThreads : work'[o] = work[o] \/ work'[o].at \in {"loop", "coro"}
    <2>1. CASE ResumeInput(c)
      <3>1. work' = [work EXCEPT ![ThreadOfColl[c]].at = "coro"]
        BY <2>1 DEF ResumeInput
      <3>2. work \in [InThreads -> WorkRecord] /\ 0 \in 0 .. MaxKeys
        BY WorkTyped, Zenon
      <3>3. [work EXCEPT ![ThreadOfColl[c]].at = "coro"] \in [InThreads -> WorkRecord]
        BY <3>2, <1>2, WorkGoesOn
      <3>4. \A o \in InThreads : work'[o] = work[o] \/ work'[o].at = "coro"
        <4>1. work[ThreadOfColl[c]] \in WorkRecord
          BY <3>2, <1>2
        <4>2. QED
          BY <3>1, <3>2, <4>1 DEF WorkRecord
      <3>5. QED
        BY <3>1, <3>3, <3>4
    <2>2. CASE YieldInput(c) \/ flb_input_return(c)
      <3>1. NoWork \in WorkRecord /\ NoWork.at = "loop"
        BY DEF NoWork, WorkRecord
      <3>2. work' = [work EXCEPT ![ThreadOfColl[c]] = NoWork]
        BY <2>2 DEF YieldInput, flb_input_return
      <3>3. QED
        BY <1>2, <3>1, <3>2 DEF InputInv, InputTypes
    <2>3. CASE DestroyInput(c)
      BY <2>3 DEF InputInv, InputTypes, DestroyInput
    <2>4. QED
      BY <2>1, <2>2, <2>3
  <1>4. \E at \in CoroStates \ {"listed", "crashed"}, coll \in {coro[c].coll, NULL} :
          /\ coro' = [coro EXCEPT ![c] = [at |-> at, coll |-> coll]]
          /\ at \in {"entered", "running", "waiting", "ended"} =>
               coll = coro[c].coll /\ coro[c].at \in {"entered", "running", "waiting", "ended"}
    <2>1. coro[c] \in CoroRecord
      BY DEF InputInv, InputTypes
    <2>2. CASE ResumeInput(c)
      <3>1. [coro[c] EXCEPT !.at = "running"] = [at |-> "running", coll |-> coro[c].coll]
        BY <2>1 DEF CoroRecord
      <3>2. QED
        BY <2>2, <3>1 DEF ResumeInput, CoroStates
    <2>3. CASE YieldInput(c)
      <3>1. [coro[c] EXCEPT !.at = "waiting"] = [at |-> "waiting", coll |-> coro[c].coll]
        BY <2>1 DEF CoroRecord
      <3>2. QED
        BY <2>3, <3>1 DEF YieldInput, CoroStates
    <2>4. CASE flb_input_return(c)
      <3>1. [coro[c] EXCEPT !.at = "ended"] = [at |-> "ended", coll |-> coro[c].coll]
        BY <2>1 DEF CoroRecord
      <3>2. QED
        BY <2>4, <3>1 DEF flb_input_return, CoroStates
    <2>5. CASE DestroyInput(c)
      <3>1. "none" \in CoroStates \ {"listed", "crashed"}
        BY DEF CoroStates
      <3>2. coro' = [coro EXCEPT ![c] = [at |-> "none", coll |-> NULL]]
        BY <2>5 DEF DestroyInput
      <3>3. "none" \notin {"entered", "running", "waiting", "ended"}
        OBVIOUS
      <3>4. QED
        BY <3>1, <3>2, <3>3
    <2>6. QED
      BY <2>2, <2>3, <2>4, <2>5
  <1>5. /\ coro' \in [Collectors -> CoroRecord]
        /\ \A d \in Collectors : coro[d].at = "listed" => coro'[d] = coro[d]
    BY <1>1, <1>4 DEF InputInv, InputTypes, CoroRecord
  <1>6. InputTypes' /\ UnusedAbove' /\ \A o \in InThreads : InFlight(o)'
    <2>1. InputTypes' /\ UnusedAbove'
      BY <1>1, <1>3, <1>5 DEF InputInv, InputTypes, UnusedAbove
    <2>2. ASSUME NEW o \in InThreads PROVE InFlight(o)'
      BY <1>1, <1>3, <1>5 DEF InputInv, InFlight
    <2>3. QED
      BY <2>1, <2>2
  <1>7. CollectsForItself'
    BY <1>1, <1>4 DEF InputInv, InputTypes, CoroStates, CollectsForItself
  <1>8. ASSUME NEW d \in Collectors, coro'[d].at = "listed", d \notin starved'
        PROVE  work'[ThreadOfColl[d]].at \notin {"loop", "coro"} /\ work'[ThreadOfColl[d]].coll = d
    <2>1. coro'[d] = coro[d]
      BY <1>4, <1>8 DEF InputInv, InputTypes, CoroStates
    <2>2. work[ThreadOfColl[d]].at \notin {"loop", "coro"} /\ work[ThreadOfColl[d]].coll = d
      BY <1>1, <1>8, <2>1 DEF InputInv, ListedInFlight
    <2>3. \/ ThreadOfColl[d] \in InThreads /\ ThreadOfColl[d] # ThreadOfColl[c]
          \/ work' = work
      BY <1>2, <2>2 DEF InputInv, OneRunning, ResumeInput, YieldInput, flb_input_return, DestroyInput
    <2>4. \A o \in InThreads : o # ThreadOfColl[c] => work'[o] = work[o]
      BY DEF InputInv, InputTypes, ResumeInput, YieldInput, flb_input_return, DestroyInput
    <2>5. QED
      BY <2>2, <2>3, <2>4
  <1>9. OneRunning'
    <2>1. \A d \in Collectors : d # c => coro'[d] = coro[d]
      BY <1>4 DEF InputInv, InputTypes
    <2>2. \A o \in InThreads : o # ThreadOfColl[c] => work'[o] = work[o]
      BY DEF InputInv, InputTypes, ResumeInput, YieldInput, flb_input_return, DestroyInput
    <2>3. \A d \in Collectors :
            d # c /\ coro[d].at = "running" => ThreadOfColl[d] # ThreadOfColl[c] \/ work' = work
      BY DEF InputInv, OneRunning, ResumeInput, YieldInput, flb_input_return, DestroyInput
    <2>4. \/ coro'[c].at = "running" /\ work'[ThreadOfColl[c]].at = "coro"
             /\ work[ThreadOfColl[c]].at = "loop"
          \/ coro'[c].at # "running"
      <3>1. CASE ResumeInput(c)
        <4>1. work \in [InThreads -> WorkRecord]
          BY WorkTyped
        <4>2. QED
          BY <1>2, <3>1, <4>1 DEF ResumeInput, WorkRecord
      <3>2. CASE YieldInput(c) \/ flb_input_return(c) \/ DestroyInput(c)
        <4>1. coro[c] \in CoroRecord /\ coro \in [Collectors -> CoroRecord]
          BY DEF InputInv, InputTypes
        <4>2. QED
          BY <3>2, <4>1 DEF YieldInput, flb_input_return, DestroyInput, CoroRecord
      <3>3. QED
        BY <3>1, <3>2
    <2>5. ASSUME NEW d \in Collectors, coro'[d].at = "running"
          PROVE  /\ work'[ThreadOfColl[d]].at = "coro"
                 /\ \A e \in Collectors :
                      coro'[e].at = "running" /\ ThreadOfColl[e] = ThreadOfColl[d] => e = d
      BY <2>1, <2>2, <2>3, <2>4, <2>5 DEF InputInv, OneRunning
    <2>6. QED
      BY <2>5 DEF OneRunning
  <1>10. QED
    BY <1>6, <1>7, <1>8, <1>9 DEF InputInv, ListedInFlight

\* However the collects of the input threads interleave on the global key of their parameters,
\* a coroutine runs the callback of its own collector, and finds no parameters only if another
\* thread replaced the key during its collect, unless the memory for its parameters was missing.
THEOREM CollectorsKeepApart == InputSpec => []CollectsForItself
  <1>1. InputInit => InputInv
    BY InputAssumption DEF InputInit, InputInv, InputTypes, UnusedAbove, InFlight, ListedInFlight,
                           OneRunning, CollectsForItself, WorkRecord, CoroRecord, CoroStates, NoWork
  <1>2. InputInv /\ [InputNext]_inputVars => InputInv'
    <2>1. SUFFICES ASSUME InputInv, [InputNext]_inputVars PROVE InputInv'
      OBVIOUS
    <2>2. CASE UNCHANGED inputVars
      BY <2>1, <2>2 DEF InputInv, InputTypes, UnusedAbove, InFlight, ListedInFlight, OneRunning,
                        CollectsForItself, inputVars
    <2>3. CASE InputNext
      BY <2>1, <2>3, KeyCreateStep, ParamsStep, StarvedStep, EnterStep, PreStep, CollectStep,
         CoroStep DEF InputNext
    <2>4. QED
      BY <2>1, <2>2, <2>3
  <1>3. InputInv => CollectsForItself
    BY DEF InputInv
  <1>4. QED
    BY <1>1, <1>2, <1>3, PTL DEF InputSpec

-----------------------------------------------------------------------------
(* Plugin registry. *)

\* The heap holds what is linked.
HeapIsLists == \A p : p \in heap <=> \E k \in Kinds : \E i \in DOMAIN lists[k] : p = lists[k][i]

\* A list holds plugins of its kind, each once.
ListsDistinct == \A k \in Kinds : \A i, j \in DOMAIN lists[k] :
                   lists[k][i][1] = k /\ (lists[k][i] = lists[k][j] => i = j)

\* While plugins are registered, the i-th of a list is the i-th of its kind and nothing was
\* destroyed since; nothing is linked when the registry is idle.
PluginInv ==
  /\ lists \in [Kinds -> Seq(Kinds \X Nat)]
  /\ HeapIsLists
  /\ ListsDistinct
  /\ destroyed \cap heap = {}
  /\ phase = "idle" => \A k \in Kinds : lists[k] = << >>
  /\ phase = "registering" =>
       destroyed = {} /\ \A k \in Kinds : \A i \in DOMAIN lists[k] : lists[k][i] = <<k, i>>

LEMMA PluginInvSuffices == PluginInv => PluginsAccounted
  <1> SUFFICES ASSUME PluginInv PROVE PluginsAccounted
    OBVIOUS
  <1>1. heap = UNION {{lists[k][i] : i \in DOMAIN lists[k]} : k \in Kinds}
    BY DEF PluginInv, HeapIsLists
  <1>2. phase = "idle" => heap = {}
    <2>1. DOMAIN << >> = {}
      OBVIOUS
    <2>2. QED
      BY <2>1 DEF PluginInv, HeapIsLists
  <1>3. QED
    BY <1>1, <1>2 DEF PluginInv, ListsDistinct, PluginsAccounted

\* A plugin is registered: it is behind the others of its kind, on no list yet.
LEMMA RegisterStep ==
  ASSUME PluginInv, NEW kind \in Kinds, NEW memory \in BOOLEAN, Register(kind, memory)
  PROVE  PluginInv'
  <1>1. CASE ~ memory
    BY <1>1 DEF Register, PluginInv, HeapIsLists, ListsDistinct
  <1>2. CASE memory
    <2> DEFINE s == lists[kind]
               n == Len(s) + 1
               p == <<kind, n>>
    <2>1. s \in Seq(Kinds \X Nat) /\ n \in Nat /\ DOMAIN s = 1 .. Len(s) /\ Len(s) \in Nat
      BY LenProperties DEF PluginInv
    <2>2. /\ lists' = [lists EXCEPT ![kind] = Append(s, p)] /\ heap' = heap \cup {p}
          /\ phase' = phase /\ destroyed' = destroyed /\ phase = "registering"
      BY <1>2 DEF Register
    <2>3. p \in Kinds \X Nat
      BY <2>1
    <2>4. /\ Append(s, p) \in Seq(Kinds \X Nat) /\ DOMAIN Append(s, p) = DOMAIN s \cup {n}
          /\ Append(s, p)[n] = p /\ \A i \in DOMAIN s : Append(s, p)[i] = s[i]
      BY <2>1, <2>3, AppendProperties, LenProperties
    <2>5. lists' \in [Kinds -> Seq(Kinds \X Nat)] /\ lists'[kind] = Append(s, p)
          /\ \A k \in Kinds \ {kind} : lists'[k] = lists[k]
      BY <2>2, <2>4 DEF PluginInv
    <2>6. \A k \in Kinds : \A i \in DOMAIN lists'[k] : lists'[k][i] = <<k, i>>
      BY <2>2, <2>4, <2>5 DEF PluginInv
    <2> HIDE DEF s, n, p
    <2>7. HeapIsLists'
      <3>1. \A i \in DOMAIN lists[kind] : lists'[kind][i] = lists[kind][i]
        BY <2>4, <2>5 DEF s
      <3>2. DOMAIN lists'[kind] = DOMAIN lists[kind] \cup {n} /\ lists'[kind][n] = p
        BY <2>4, <2>5 DEF s
      <3>3. \A k \in Kinds \ {kind} : lists'[k] = lists[k]
        BY <2>5
      <3>4. heap' = heap \cup {p}
        BY <2>2
      <3>5. ASSUME NEW q, q \in heap'
            PROVE  \E k \in Kinds : \E i \in DOMAIN lists'[k] : q = lists'[k][i]
        <4>1. CASE q = p
          BY <3>2, <4>1
        <4>2. CASE q # p
          <5>1. PICK k \in Kinds : \E i \in DOMAIN lists[k] : q = lists[k][i]
            BY <3>4, <3>5, <4>2 DEF HeapIsLists, PluginInv
          <5>2. PICK i \in DOMAIN lists[k] : q = lists[k][i]
            BY <5>1
          <5>3. i \in DOMAIN lists'[k] /\ lists'[k][i] = lists[k][i]
            BY <3>1, <3>2, <3>3
          <5>4. QED
            BY <5>2, <5>3
        <4>3. QED
          BY <4>1, <4>2
      <3>6. ASSUME NEW k \in Kinds, NEW i \in DOMAIN lists'[k] PROVE lists'[k][i] \in heap'
        <4>1. CASE k = kind /\ i = n
          BY <3>2, <3>4, <4>1
        <4>2. CASE ~ (k = kind /\ i = n)
          <5>1. i \in DOMAIN lists[k] /\ lists'[k][i] = lists[k][i]
            BY <3>1, <3>2, <3>3, <4>2
          <5>2. QED
            BY <3>4, <5>1 DEF HeapIsLists, PluginInv
        <4>3. QED
          BY <4>1, <4>2
      <3>7. QED
        BY <3>5, <3>6 DEF HeapIsLists
    <2>8. ListsDistinct'
      BY <2>6 DEF ListsDistinct
    <2>9. QED
      BY <2>2, <2>5, <2>6, <2>7, <2>8 DEF PluginInv
  <1>3. QED
    BY <1>1, <1>2

\* The first plugin of a list is unlinked and freed: nothing else on the heap is it.
LEMMA UnregisterStep ==
  ASSUME PluginInv, NEW kind \in Kinds, Unregister(kind) PROVE PluginInv'
  <1> DEFINE s == lists[kind]
             h == Head(s)
  <1>1. s \in Seq(Kinds \X Nat) /\ s # << >>
    BY DEF PluginInv, Unregister
  <1>2. /\ Len(s) \in Nat /\ Len(s) >= 1 /\ DOMAIN s = 1 .. Len(s) /\ h = s[1]
        /\ Tail(s) \in Seq(Kinds \X Nat) /\ DOMAIN Tail(s) = 1 .. Len(s) - 1
        /\ \A i \in 1 .. Len(s) - 1 : Tail(s)[i] = s[i + 1]
    BY <1>1, HeadTailProperties, LenProperties, EmptySeq
  <1>3. /\ lists' = [lists EXCEPT ![kind] = Tail(s)] /\ heap' = heap \ {h}
        /\ destroyed' \subseteq destroyed \cup {h} /\ phase' = "unregistering"
    BY DEF Unregister
  <1>4. lists' \in [Kinds -> Seq(Kinds \X Nat)] /\ lists'[kind] = Tail(s)
        /\ \A k \in Kinds \ {kind} : lists'[k] = lists[k]
    BY <1>2, <1>3 DEF PluginInv
  <1>5. PICK n \in Nat :
          /\ n >= 1 /\ DOMAIN lists[kind] = 1 .. n /\ DOMAIN lists'[kind] = 1 .. n - 1
          /\ \A i \in 1 .. n - 1 : lists'[kind][i] = lists[kind][i + 1]
          /\ h = lists[kind][1]
    BY <1>2, <1>4
  <1> HIDE DEF s, h
  <1>6. ListsDistinct'
    <2> SUFFICES ASSUME NEW k \in Kinds, NEW i \in DOMAIN lists'[k], NEW j \in DOMAIN lists'[k]
                 PROVE  lists'[k][i][1] = k /\ (lists'[k][i] = lists'[k][j] => i = j)
      BY DEF ListsDistinct
    <2>1. CASE k = kind
      <3>1. i + 1 \in DOMAIN lists[kind] /\ j + 1 \in DOMAIN lists[kind] /\ i \in Nat /\ j \in Nat
        BY <2>1, <1>5
      <3>2. lists'[kind][i] = lists[kind][i + 1] /\ lists'[kind][j] = lists[kind][j + 1]
        BY <2>1, <1>5
      <3>3. lists[kind][i + 1][1] = kind /\ (lists[kind][i + 1] = lists[kind][j + 1] => i + 1 = j + 1)
        BY <3>1 DEF PluginInv, ListsDistinct
      <3>4. QED
        BY <2>1, <3>1, <3>2, <3>3
    <2>2. CASE k # kind
      BY <2>2, <1>4 DEF PluginInv, ListsDistinct
    <2>3. QED
      BY <2>1, <2>2
  <1>7. HeapIsLists'
    <2>1. ASSUME NEW p, p \in heap'
          PROVE  \E k \in Kinds : \E i \in DOMAIN lists'[k] : p = lists'[k][i]
      <3>1. p \in heap /\ p # h
        BY <2>1, <1>3
      <3>2. PICK k \in Kinds : \E i \in DOMAIN lists[k] : p = lists[k][i]
        BY <3>1 DEF PluginInv, HeapIsLists
      <3>3. PICK i \in DOMAIN lists[k] : p = lists[k][i]
        BY <3>2
      <3>4. CASE k = kind
        <4>1. i # 1 /\ i \in 1 .. n
          BY <3>1, <3>3, <3>4, <1>5
        <4>2. i - 1 \in DOMAIN lists'[kind] /\ (i - 1) + 1 = i
          BY <4>1, <1>5
        <4>3. QED
          BY <3>3, <3>4, <4>2, <1>5
      <3>5. CASE k # kind
        BY <3>3, <3>5, <1>4
      <3>6. QED
        BY <3>4, <3>5
    <2>2. ASSUME NEW k \in Kinds, NEW i \in DOMAIN lists'[k] PROVE lists'[k][i] \in heap'
      <3>1. 1 \in DOMAIN lists[kind] /\ lists[kind][1][1] = kind
        <4>1. 1 \in DOMAIN lists[kind]
          BY <1>5
        <4>2. QED
          BY <4>1 DEF PluginInv, ListsDistinct
      <3>2. CASE k = kind
        <4>1. i + 1 \in DOMAIN lists[kind] /\ i + 1 # 1
          BY <3>2, <1>5
        <4>2. lists[kind][i + 1] \in heap /\ lists[kind][i + 1] # lists[kind][1]
          BY <3>1, <4>1 DEF PluginInv, HeapIsLists, ListsDistinct
        <4>3. QED
          BY <3>2, <4>2, <1>3, <1>5
      <3>3. CASE k # kind
        <4>1. lists[k][i] \in heap /\ lists[k][i][1] = k
          BY <3>3, <1>4 DEF PluginInv, HeapIsLists, ListsDistinct
        <4>2. QED
          BY <3>1, <3>3, <4>1, <1>3, <1>4, <1>5
      <3>4. QED
        BY <3>2, <3>3
    <2>3. QED
      BY <2>1, <2>2 DEF HeapIsLists
  <1>8. QED
    BY <1>3, <1>4, <1>6, <1>7 DEF PluginInv

\* The heap holds what the lists link, each plugin once and none of them destroyed, wherever the
\* registration stopped: the loops of flb_plugins_unregister free all of it.
THEOREM PluginsAreAccounted == PluginSpec => []PluginsAccounted
  <1>1. PluginInit => PluginInv
    <2>1. DOMAIN << >> = {} /\ << >> \in Seq(Kinds \X Nat)
      OBVIOUS
    <2>2. QED
      BY <2>1 DEF PluginInit, PluginInv, HeapIsLists, ListsDistinct
  <1>2. PluginInv /\ [PluginNext]_pluginVars => PluginInv'
    <2>1. SUFFICES ASSUME PluginInv, [PluginNext]_pluginVars PROVE PluginInv'
      OBVIOUS
    <2> USE <2>1
    <2>2. CASE UNCHANGED pluginVars
      BY <2>2 DEF PluginInv, HeapIsLists, ListsDistinct, pluginVars
    <2>3. CASE Begin
      <3>1. DOMAIN << >> = {}
        OBVIOUS
      <3>2. QED
        BY <2>3, <3>1 DEF Begin, PluginInv, HeapIsLists, ListsDistinct
    <2>4. CASE Registered \/ BeginUnregister \/ Unregistered
      BY <2>4 DEF Registered, BeginUnregister, Unregistered, PluginInv, HeapIsLists, ListsDistinct
    <2>5. ASSUME NEW memory \in BOOLEAN, \/ RegisterCustom(memory) \/ RegisterInput(memory)
                                         \/ RegisterOutput(memory) \/ RegisterFilter(memory)
                                         \/ RegisterProcessor(memory)
          PROVE  PluginInv'
      <3>1. \E kind \in Kinds : Register(kind, memory)
        BY <2>5 DEF Kinds, RegisterCustom, RegisterInput, RegisterOutput, RegisterFilter, RegisterProcessor
      <3>2. QED
        BY <3>1, RegisterStep
    <2>6. QED
      BY <2>2, <2>3, <2>4, <2>5, UnregisterStep DEF PluginNext
  <1>3. QED
    BY <1>1, <1>2, PluginInvSuffices, PTL DEF PluginSpec

-----------------------------------------------------------------------------
(* Processing before a flush. *)

Resources == {"out_flush", "coro", "p_buf", "chunk", "encoded", "stack"}

ProcRecord == [at : {"idle", "null", "over", "process", "decode", "stack", "linked"},
               type : {"none", "logs", "metrics", "traces"}, size : Nat, alloc : Nat, offset : Nat,
               contexts : Nat, held : SUBSET Resources, shared : BOOLEAN, freed : BOOLEAN, leaked : Nat]

Bounds(p) == p.offset <= p.size /\ p.size <= p.alloc

\* What is held, place by place; the chunk is created with its buffer.
HeldAt(p) ==
  /\ p.at \in {"idle", "null", "over"} => p.held = {}
  /\ p.at = "process" => p.held = {"out_flush", "coro"} /\ p.offset = 0 /\ ~ p.shared
  /\ p.at = "decode" => p.held = {"out_flush", "coro", "p_buf"} /\ ~ p.shared
  /\ p.at = "stack" => p.held \in {{"out_flush", "coro"}, {"out_flush", "coro", "p_buf", "chunk"}}
  /\ p.at # "null" => ~ p.freed
  /\ "p_buf" \in p.held => Bounds(p)

ProcInv == proc \in ProcRecord /\ HeldAt(proc)

\* A failure path that releases all that is held ends well.
LEMMA NullReleases ==
  ASSUME NEW p \in ProcRecord, NEW what, p.held \subseteq what
  PROVE  Null(p, what) \in ProcRecord /\ HeldAt(Null(p, what))
  <1> DEFINE q == Null(p, what)
  <1>1. q = [p EXCEPT !.held = {}, !.freed = p.freed \/ (p.shared /\ "p_buf" \in what), !.at = "null"]
    BY DEF Null, Release, At, ProcRecord
  <1>2. q \in ProcRecord
    BY <1>1 DEF ProcRecord
  <1>3. q.held = {} /\ q.at = "null"
    BY <1>1 DEF ProcRecord
  <1>4. QED
    BY <1>2, <1>3 DEF HeldAt

\* The flush context is created.
LEMMA ProcCreateStep ==
  ASSUME ProcInv, NEW type \in {"logs", "metrics", "traces"}, NEW size \in 1 .. MaxSize,
         NEW active \in BOOLEAN, NEW fail \in {"none", "context", "coroutine"},
         ProcCreate(type, size, active, fail)
  PROVE  ProcInv'
  <1> USE ProcAssumption
  <1> DEFINE n == NewProc(type, size)
             p == Acquire(n, {"out_flush"})
             r == At(Acquire(p, {"coro"}), IF active THEN "process" ELSE "stack")
  <1>1. n \in ProcRecord /\ n.held = {} /\ ~ n.freed /\ n.offset = 0 /\ ~ n.shared
    BY DEF NewProc, ProcRecord
  <1>2. p = [n EXCEPT !.held = {"out_flush"}]
    BY <1>1 DEF Acquire, ProcRecord
  <1>3. r = [n EXCEPT !.held = {"out_flush", "coro"}, !.at = IF active THEN "process" ELSE "stack"]
    BY <1>1 DEF Acquire, At, ProcRecord
  <1>4. CASE fail = "context"
    <2>1. proc' = [n EXCEPT !.at = "null"]
      BY <1>4 DEF ProcCreate, At
    <2>2. QED
      BY <1>1, <2>1 DEF ProcInv, HeldAt, ProcRecord
  <1>5. CASE fail = "coroutine"
    <2>1. proc' = Null(p, {"out_flush"})
      BY <1>5 DEF ProcCreate
    <2>2. p \in ProcRecord /\ p.held \subseteq {"out_flush"}
      BY <1>1, <1>2 DEF ProcRecord, Resources
    <2>3. QED
      BY <2>1, <2>2, NullReleases DEF ProcInv
  <1>6. CASE fail = "none"
    <2>1. proc' = r
      BY <1>6 DEF ProcCreate
    <2>2. r \in ProcRecord
      <3>1. PICK at \in {"process", "stack"} : r = [n EXCEPT !.held = {"out_flush", "coro"}, !.at = at]
        BY <1>3
      <3> HIDE DEF n, r
      <3>2. QED
        BY <1>1, <3>1 DEF ProcRecord, Resources
    <2>3. r.held = {"out_flush", "coro"} /\ r.at \in {"process", "stack"} /\ ~ r.freed
          /\ r.offset = 0 /\ ~ r.shared
      BY <1>1, <1>3 DEF ProcRecord
    <2>4. QED
      BY <2>1, <2>2, <2>3 DEF ProcInv, HeldAt
  <1>7. QED
    BY <1>4, <1>5, <1>6

\* Logs go through the processor as one buffer, whose size becomes p_size.
LEMMA ProcLogsStep ==
  ASSUME ProcInv, NEW outcome, NEW size \in 1 .. MaxSize, NEW shared \in BOOLEAN,
         ProcLogs(outcome, size, shared)
  PROVE  ProcInv'
  <1> USE ProcAssumption
  <1> DEFINE p == [Acquire(proc, {"p_buf"}) EXCEPT !.shared = shared, !.size = size,
                                                   !.alloc = size, !.offset = size]
             r == At(Acquire(p, {"chunk"}), "stack")
  <1>1. proc \in ProcRecord /\ proc.held = {"out_flush", "coro"} /\ ~ proc.freed /\ size \in Nat
    <2>1. proc.at = "process"
      BY DEF ProcLogs
    <2>2. QED
      BY <2>1 DEF ProcInv, HeldAt
  <1>2. p \in ProcRecord /\ p.held = {"out_flush", "coro", "p_buf"} /\ ~ p.freed
        /\ p.offset = size /\ p.size = size /\ p.alloc = size
    BY <1>1 DEF Acquire, ProcRecord, Resources
  <1> HIDE DEF p
  <1>3. r \in ProcRecord /\ r.held = {"out_flush", "coro", "p_buf", "chunk"} /\ ~ r.freed
        /\ r.offset = size /\ r.size = size /\ r.alloc = size /\ r.at = "stack"
    BY <1>2 DEF Acquire, At, ProcRecord, Resources
  <1> HIDE DEF r
  <1>4. \/ proc' = Null(proc, {"coro", "out_flush"})
        \/ proc' = Null(p, {"coro", "out_flush", "p_buf"})
        \/ proc' = r
    BY DEF ProcLogs, p, r
  <1>5. HeldAt(r)
    BY <1>1, <1>3 DEF HeldAt, Bounds
  <1>6. QED
    BY <1>1, <1>2, <1>3, <1>4, <1>5, NullReleases DEF ProcInv

\* Metrics and traces: a buffer, contexts one after the other, and the chunk.
LEMMA ProcSerializeStep ==
  ASSUME ProcInv, ProcMetrics \/ ProcTraces PROVE ProcInv'
  <1> USE ProcAssumption
  <1>1. ASSUME NEW fail \in BOOLEAN, ProcBuffer(fail) PROVE ProcInv'
    <2> DEFINE r == [At(Acquire(proc, {"p_buf"}), "decode") EXCEPT !.alloc = 2 * proc.size]
    <2>1. proc \in ProcRecord /\ proc.held = {"out_flush", "coro"} /\ ~ proc.freed /\ proc.offset = 0
          /\ ~ proc.shared
      BY <1>1 DEF ProcInv, HeldAt, ProcBuffer
    <2>2. r \in ProcRecord /\ r.held = {"out_flush", "coro", "p_buf"} /\ ~ r.freed /\ r.offset = 0
          /\ ~ r.shared /\ r.at = "decode" /\ r.size = proc.size /\ r.alloc = 2 * proc.size
      <3>1. PICK b \in Nat : b = 2 * proc.size
        BY <2>1 DEF ProcRecord
      <3>2. r = [At(Acquire(proc, {"p_buf"}), "decode") EXCEPT !.alloc = b]
        BY <3>1
      <3> HIDE DEF r
      <3>3. QED
        BY <2>1, <3>1, <3>2 DEF Acquire, At, ProcRecord, Resources
    <2>3. proc' = Null(proc, {"coro", "out_flush"}) \/ proc' = r
      BY <1>1 DEF ProcBuffer
    <2>4. HeldAt(r)
      BY <2>1, <2>2 DEF HeldAt, Bounds, ProcRecord
    <2>5. QED
      BY <2>1, <2>2, <2>3, <2>4, NullReleases DEF ProcInv
  <1>2. ASSUME NEW fail \in BOOLEAN, ProcChunk(fail) PROVE ProcInv'
    <2> DEFINE r == At(Acquire(proc, {"chunk"}), "stack")
    <2>1. proc \in ProcRecord /\ proc.held = {"out_flush", "coro", "p_buf"} /\ ~ proc.freed /\ Bounds(proc)
      BY <1>2 DEF ProcInv, HeldAt, ProcChunk
    <2>2. r \in ProcRecord /\ r.held = {"out_flush", "coro", "p_buf", "chunk"} /\ ~ r.freed
          /\ r.at = "stack" /\ r.size = proc.size /\ r.alloc = proc.alloc /\ r.offset = proc.offset
      BY <2>1 DEF Acquire, At, ProcRecord, Resources
    <2>3. proc' = Null(proc, {"coro", "out_flush", "p_buf"}) \/ proc' = r
      BY <1>2 DEF ProcChunk
    <2>4. HeldAt(r)
      BY <2>1, <2>2 DEF HeldAt, Bounds
    <2>5. QED
      BY <2>1, <2>2, <2>3, <2>4, NullReleases DEF ProcInv
  <1>3. ASSUME NEW outcome, NEW count \in 1 .. MaxSize, ProcContext(outcome, count) PROVE ProcInv'
    <2> DEFINE p == [proc EXCEPT !.contexts = @ + 1]
               g == Grow(p, count)
               e == Acquire(p, {"encoded"})
    <2>1. proc \in ProcRecord /\ proc.held = {"out_flush", "coro", "p_buf"} /\ ~ proc.freed
          /\ ~ proc.shared /\ Bounds(proc) /\ proc.at = "decode" /\ count \in Nat
      <3>1. proc.at = "decode"
        BY <1>3 DEF ProcContext
      <3>2. QED
        BY <3>1 DEF ProcInv, HeldAt
    <2>2. p \in ProcRecord /\ p.held = {"out_flush", "coro", "p_buf"} /\ ~ p.freed /\ ~ p.shared
          /\ Bounds(p) /\ p.at = "decode"
      BY <2>1 DEF ProcRecord, Bounds
    <2> HIDE DEF p
    <2>3. \/ proc' = [p EXCEPT !.leaked = @ + 1]
          \/ proc' = Null(p, {"coro", "out_flush", "p_buf"})
          \/ proc' = Null(e, {"encoded", "coro", "out_flush", "p_buf"})
          \/ proc' = [g EXCEPT !.offset = @ + count]
      BY <1>3 DEF ProcContext, p
    <2>4. CASE proc' = [p EXCEPT !.leaked = @ + 1]
      <3>1. proc' \in ProcRecord /\ proc'.held = {"out_flush", "coro", "p_buf"} /\ ~ proc'.freed
            /\ ~ proc'.shared /\ Bounds(proc') /\ proc'.at = "decode"
        BY <2>2, <2>4 DEF ProcRecord, Bounds
      <3>2. QED
        BY <3>1 DEF ProcInv, HeldAt
    <2>5. CASE proc' = Null(p, {"coro", "out_flush", "p_buf"})
      BY <2>2, <2>5, NullReleases DEF ProcInv
    <2>6. CASE proc' = Null(e, {"encoded", "coro", "out_flush", "p_buf"})
      <3>1. e \in ProcRecord /\ e.held = {"out_flush", "coro", "p_buf", "encoded"}
        BY <2>2 DEF Acquire, ProcRecord, Resources
      <3>2. QED
        BY <2>6, <3>1, NullReleases DEF ProcInv
    <2>7. CASE proc' = [g EXCEPT !.offset = @ + count]
      <3>1. g \in ProcRecord /\ g.held = {"out_flush", "coro", "p_buf"} /\ ~ g.freed /\ ~ g.shared
            /\ g.at = "decode" /\ g.offset + count <= g.size /\ g.size <= g.alloc
        <4>1. CASE p.offset + count > p.size
          <5>1. PICK b \in Nat : b = p.size + count
            BY <2>1, <2>2 DEF ProcRecord
          <5>2. g = [p EXCEPT !.alloc = b, !.size = b]
            BY <4>1, <5>1 DEF Grow
          <5> HIDE DEF g
          <5>3. g \in ProcRecord /\ g.held = p.held /\ g.freed = p.freed /\ g.shared = p.shared
                /\ g.at = p.at /\ g.offset = p.offset /\ g.size = b /\ g.alloc = b
            BY <2>2, <5>2 DEF ProcRecord
          <5>4. QED
            BY <2>1, <2>2, <5>1, <5>3 DEF ProcRecord, Bounds
        <4>2. CASE ~ (p.offset + count > p.size)
          <5>1. g = p
            BY <4>2 DEF Grow
          <5>2. QED
            BY <2>1, <2>2, <4>2, <5>1 DEF ProcRecord, Bounds
        <4>3. QED
          BY <4>1, <4>2
      <3> HIDE DEF g
      <3>2. proc' \in ProcRecord /\ proc'.held = {"out_flush", "coro", "p_buf"} /\ ~ proc'.freed
            /\ ~ proc'.shared /\ Bounds(proc') /\ proc'.at = "decode"
        BY <2>1, <2>7, <3>1 DEF ProcRecord, Bounds
      <3>3. QED
        BY <3>2 DEF ProcInv, HeldAt
    <2>8. QED
      BY <2>3, <2>4, <2>5, <2>6, <2>7
  <1>4. QED
    BY <1>1, <1>2, <1>3 DEF ProcMetrics, ProcTraces, ProcSerialize

\* The stack and the end of the flush.
LEMMA ProcStackStep ==
  ASSUME ProcInv, NEW fail \in BOOLEAN, ProcStack(fail) PROVE ProcInv'
  <1> DEFINE r == At(Acquire(proc, {"stack"}), "linked")
             w == {"coro", "out_flush"} \cup IF "chunk" \in proc.held THEN {"p_buf", "chunk"} ELSE {}
  <1>1. proc \in ProcRecord /\ ~ proc.freed /\ ("p_buf" \in proc.held => Bounds(proc))
        /\ proc.held \in {{"out_flush", "coro"}, {"out_flush", "coro", "p_buf", "chunk"}}
    BY DEF ProcInv, HeldAt, ProcStack
  <1>2. proc.held \subseteq w
    BY <1>1
  <1>3. r \in ProcRecord /\ r.held = proc.held \cup {"stack"} /\ ~ r.freed /\ r.at = "linked"
        /\ r.size = proc.size /\ r.alloc = proc.alloc /\ r.offset = proc.offset
    BY <1>1 DEF Acquire, At, ProcRecord, Resources
  <1>4. HeldAt(r)
    BY <1>1, <1>3 DEF HeldAt, Bounds
  <1>5. proc' = Null(proc, w) \/ proc' = r
    BY DEF ProcStack
  <1>6. QED
    BY <1>1, <1>2, <1>3, <1>4, <1>5, NullReleases DEF ProcInv

LEMMA ProcReturnStep ==
  ASSUME ProcInv, ProcReturn PROVE ProcInv'
  <1> DEFINE p == [proc EXCEPT !.held = IF proc.shared THEN @ \ {"p_buf"} ELSE @]
  <1>1. proc \in ProcRecord /\ ~ proc.freed
    BY DEF ProcInv, HeldAt, ProcReturn
  <1>2. p \in ProcRecord /\ ~ p.freed /\ ~ (p.shared /\ "p_buf" \in p.held)
    BY <1>1 DEF ProcRecord
  <1>3. proc' = At(Release(p, p.held), "over")
    BY DEF ProcReturn
  <1> HIDE DEF p
  <1>4. proc' = [p EXCEPT !.held = {}, !.freed = FALSE, !.at = "over"]
    BY <1>2, <1>3 DEF At, Release, ProcRecord
  <1>5. proc' \in ProcRecord /\ proc'.held = {} /\ ~ proc'.freed
    BY <1>2, <1>4 DEF ProcRecord
  <1>6. proc'.at = "over"
    BY <1>2, <1>4 DEF ProcRecord
  <1>7. QED
    BY <1>5, <1>6 DEF ProcInv, HeldAt

\* Whatever a processor returns and whichever call fails, the contexts stay within the buffer,
\* every path of flb_output_flush_create releases what it holds, and a flush that was linked does
\* not free the task's own data.
THEOREM ProcessingIsSafe == ProcSpec => []ProcessKeepsBounds
  <1>1. ProcInit => ProcInv
    BY DEF ProcInit, NewProc, ProcInv, ProcRecord, HeldAt
  <1>2. ProcInv /\ [ProcNext]_proc => ProcInv'
    <2>1. SUFFICES ASSUME ProcInv, [ProcNext]_proc PROVE ProcInv'
      OBVIOUS
    <2>2. CASE UNCHANGED proc
      BY <2>1, <2>2 DEF ProcInv, HeldAt, Bounds
    <2>3. CASE ProcNext
      BY <2>1, <2>3, ProcCreateStep, ProcLogsStep, ProcSerializeStep, ProcStackStep, ProcReturnStep
         DEF ProcNext
    <2>4. QED
      BY <2>1, <2>2, <2>3
  <1>3. ProcInv => ProcessKeepsBounds
    BY DEF ProcInv, HeldAt, Bounds, ProcessKeepsBounds
  <1>4. QED
    BY <1>1, <1>2, <1>3, PTL DEF ProcSpec

-----------------------------------------------------------------------------
(* Lists. *)

Memory == [Cells -> [prev : CellOrNull, next : CellOrNull]]

\* The neighbours of a linked cell are linked and point back.
Mirror == \A c \in Linked : /\ mem[c].next \in Linked /\ mem[mem[c].next].prev = c
                           /\ mem[c].prev \in Linked /\ mem[mem[c].prev].next = c

\* An entry has both pointers or none.
WholeOrFree == \A e \in Entries : mem[e].next = NULL <=> mem[e].prev = NULL

\* Entries alone form no ring: out of any set of linked entries some next leads away.
NoHeadlessRing == \A S \in SUBSET Entries : S # {} /\ S \subseteq Linked =>
                    \E c \in S : mem[c].next \notin S

\* Linked cells belong to heads, neighbours to the same one.
OwnsLinks(own) ==
  /\ own \in [Linked -> Usable]
  /\ \A h \in Usable : own[h] = h
  /\ \A c \in Linked : own[mem[c].next] = own[c]

\* The cells of a loop belong to the head of the loop.
OwnsLoop(own) == iter # NoIter => own[iter.curr] = iter.head /\ own[iter.n] = iter.head

Owns(own) == OwnsLinks(own) /\ OwnsLoop(own)

\* A loop stands on linked cells, and its saved cell is not its current entry.
LoopStands ==
  iter # NoIter => /\ iter.head \in Usable /\ iter.curr \in Linked /\ iter.n \in Linked
                   /\ iter.curr \in Entries => iter.n # iter.curr

ListInv == ListTypeOK /\ Mirror /\ WholeOrFree /\ NoHeadlessRing /\ LoopStands /\ \E own : Owns(own)

\* What is linked, in terms of the pointers.
LEMMA LinkedFacts ==
  ASSUME ListInv
  PROVE  /\ Usable \subseteq Linked /\ Linked \subseteq Cells /\ Usable \subseteq Heads
         /\ \A e \in Entries : e \in Linked <=> mem[e].next # NULL
         /\ \A e \in Entries : e \in Linked <=> mem[e].prev # NULL
         /\ \A h \in Heads : h \in Linked <=> h \notin moved
         /\ \A c \in Linked : c \in Heads => c \in Usable
  BY ListAssumption DEF ListInv, WholeOrFree, Linked, Usable, Free, Cells, mk_list_entry_is_orphan, mk_list_is_set

\* What an addition of e between p and x writes: p and x may be one cell.
Linking(m, w, e, p, x) ==
  /\ w \in Memory
  /\ w[e].prev = p /\ w[e].next = x /\ w[p].next = e /\ w[x].prev = e
  /\ \A c \in Cells \ {e, p} : w[c].next = m[c].next
  /\ \A c \in Cells \ {e, x} : w[c].prev = m[c].prev

\* LinkBetween writes this.
LEMMA LinkBetweenFacts ==
  ASSUME NEW m \in Memory, NEW e \in Cells, NEW p \in Cells, NEW x \in Cells, e # p, e # x
  PROVE  Linking(m, LinkBetween(m, e, p, x), e, p, x)
  <1> DEFINE m1 == [m EXCEPT ![x].prev = e]
             m2 == [m1 EXCEPT ![e].next = x]
             m3 == [m2 EXCEPT ![e].prev = p]
             r  == [m3 EXCEPT ![p].next = e]
  <1>1. m1 \in Memory /\ (\A c \in Cells : m1[c].next = m[c].next) /\ m1[x].prev = e
        /\ \A c \in Cells \ {x} : m1[c].prev = m[c].prev
    BY DEF Memory, CellOrNull
  <1> HIDE DEF m1
  <1>2. m2 \in Memory /\ (\A c \in Cells : m2[c].prev = m1[c].prev) /\ m2[e].next = x
        /\ \A c \in Cells \ {e} : m2[c].next = m1[c].next
    BY <1>1 DEF Memory, CellOrNull
  <1> HIDE DEF m2
  <1>3. m3 \in Memory /\ (\A c \in Cells : m3[c].next = m2[c].next) /\ m3[e].prev = p
        /\ \A c \in Cells \ {e} : m3[c].prev = m2[c].prev
    BY <1>2 DEF Memory, CellOrNull
  <1> HIDE DEF m3
  <1>4. r \in Memory /\ (\A c \in Cells : r[c].prev = m3[c].prev) /\ r[p].next = e
        /\ \A c \in Cells \ {p} : r[c].next = m3[c].next
    BY <1>3 DEF Memory, CellOrNull
  <1>5. r = LinkBetween(m, e, p, x)
    BY DEF LinkBetween, r, m3, m2, m1
  <1> HIDE DEF r
  <1>6. Linking(m, r, e, p, x)
    BY <1>1, <1>2, <1>3, <1>4 DEF Linking
  <1>7. QED
    BY <1>5, <1>6

\* A free entry is put behind a linked cell.
LEMMA LinkStep ==
  ASSUME ListInv, NEW e \in Free, NEW p \in Linked,
         mem' = LinkBetween(mem, e, p, mem[p].next), UNCHANGED <<moved, iter>>
  PROVE  ListInv'
  <1> USE ListAssumption
  <1> DEFINE x == mem[p].next
  <1>1. /\ e \in Entries /\ e \notin Linked /\ e \in Cells /\ p \in Cells
        /\ x \in Linked /\ x \in Cells /\ e # p /\ e # x /\ mem \in Memory
    <2>1. e \in Entries /\ e \notin Linked
      BY DEF Linked, Free, Usable
    <2>2. x \in Linked
      BY DEF ListInv, Mirror
    <2>3. QED
      BY <2>1, <2>2, LinkedFacts DEF ListInv, ListTypeOK, Memory, Cells
  <1> HIDE DEF x
  <1>2. mem' = LinkBetween(mem, e, p, x)
    BY DEF x
  <1>3. /\ mem' \in Memory
        /\ mem'[e].prev = p /\ mem'[e].next = x /\ mem'[p].next = e /\ mem'[x].prev = e
        /\ \A c \in Cells \ {e, p} : mem'[c].next = mem[c].next
        /\ \A c \in Cells \ {e, x} : mem'[c].prev = mem[c].prev
    <2>1. Linking(mem, LinkBetween(mem, e, p, x), e, p, x)
      BY <1>1, LinkBetweenFacts
    <2>2. QED
      BY <1>2, <2>1 DEF Linking
  <1>4. ASSUME NEW c \in Cells, c # e
        PROVE  (mem'[c].next = NULL <=> mem[c].next = NULL) /\ (mem'[c].prev = NULL <=> mem[c].prev = NULL)
    <2>1. mem[p].next # NULL /\ mem[x].prev # NULL /\ e # NULL
      BY <1>1 DEF ListInv, Mirror, Linked, Free, Usable, x, Cells
    <2>2. QED
      BY <1>1, <1>3, <1>4, <2>1
  <1>5. Linked' = Linked \cup {e} /\ Usable' = Usable
    <2>1. Usable' = Usable
      BY DEF Usable
    <2>2. mem'[e].next # NULL /\ mem'[e].prev # NULL
      BY <1>1, <1>3 DEF Cells
    <2>3. ASSUME NEW c \in Entries, c # e PROVE c \in Free' <=> c \in Free
      <3>1. (mem'[c].next = NULL <=> mem[c].next = NULL) /\ (mem'[c].prev = NULL <=> mem[c].prev = NULL)
        <4>1. c \in Cells
          BY DEF Cells
        <4>2. QED
          BY <1>4, <2>3, <4>1
      <3>2. QED
        BY <3>1 DEF Free, mk_list_entry_is_orphan, mk_list_is_set
    <2>4. e \notin Free'
      BY <2>2 DEF Free, mk_list_entry_is_orphan, mk_list_is_set
    <2>5. QED
      BY <1>1, <2>1, <2>3, <2>4 DEF Linked
  <1>6. ListTypeOK' /\ WholeOrFree'
    <2>1. ListTypeOK'
      BY <1>3 DEF ListInv, ListTypeOK, Memory
    <2>2. Entries \subseteq Cells /\ NULL \notin Cells
      BY DEF Cells
    <2>3. ASSUME NEW c \in Entries PROVE mem'[c].next = NULL <=> mem'[c].prev = NULL
      <3>1. CASE c = e
        BY <3>1, <1>1, <1>3, <2>2
      <3>2. CASE c # e
        <4>1. (mem'[c].next = NULL <=> mem[c].next = NULL) /\ (mem'[c].prev = NULL <=> mem[c].prev = NULL)
          BY <3>2, <1>4, <2>2
        <4>2. mem[c].next = NULL <=> mem[c].prev = NULL
          BY DEF ListInv, WholeOrFree
        <4>3. QED
          BY <4>1, <4>2
      <3>3. QED
        BY <3>1, <3>2
    <2>4. QED
      BY <2>1, <2>3 DEF WholeOrFree
  <1>7. Mirror'
    <2> SUFFICES ASSUME NEW c \in Linked'
                 PROVE  /\ mem'[c].next \in Linked' /\ mem'[mem'[c].next].prev = c
                        /\ mem'[c].prev \in Linked' /\ mem'[mem'[c].prev].next = c
      BY DEF Mirror
    <2>1. CASE c = e
      BY <2>1, <1>1, <1>3, <1>5
    <2>2. CASE c # e
      <3>1. c \in Linked /\ c \in Cells
        BY <2>2, <1>5, LinkedFacts
      <3>2. /\ mem[c].next \in Linked /\ mem[mem[c].next].prev = c
            /\ mem[c].prev \in Linked /\ mem[mem[c].prev].next = c
        BY <3>1 DEF ListInv, Mirror
      <3>3. c # p => mem[c].next # x
        BY <3>2 DEF ListInv, Mirror, x
      <3>4. mem[x].prev = p
        BY DEF ListInv, Mirror, x
      <3>5. c # x => mem[c].prev # p
        BY <3>2 DEF x
      <3>6. mem'[c].next \in Linked' /\ mem'[mem'[c].next].prev = c
        <4>1. CASE c = p
          BY <4>1, <1>3, <1>5
        <4>2. CASE c # p
          BY <4>2, <2>2, <3>1, <3>2, <3>3, <1>1, <1>3, <1>5, LinkedFacts
        <4>3. QED
          BY <4>1, <4>2
      <3>7. mem'[c].prev \in Linked' /\ mem'[mem'[c].prev].next = c
        <4>1. CASE c = x
          BY <4>1, <1>3, <1>5
        <4>2. CASE c # x
          BY <4>2, <2>2, <3>1, <3>2, <3>5, <1>1, <1>3, <1>5, LinkedFacts
        <4>3. QED
          BY <4>1, <4>2
      <3>8. QED
        BY <3>6, <3>7
    <2>3. QED
      BY <2>1, <2>2
  <1>8. NoHeadlessRing'
    <2> SUFFICES ASSUME NEW S \in SUBSET Entries, S # {}, S \subseteq Linked',
                        \A c \in S : mem'[c].next \in S
                 PROVE  FALSE
      BY DEF NoHeadlessRing
    <2> DEFINE T == S \ {e}
    <2>1. T \in SUBSET Entries /\ T \subseteq Linked
      BY <1>5
    <2>2. T # {}
      BY <1>1, <1>3
    <2>3. ASSUME NEW c \in T PROVE mem[c].next \in T
      <3>1. c \in Linked /\ c # e /\ c \in Cells /\ mem[c].next \in Linked
        BY <2>1, LinkedFacts DEF ListInv, Mirror
      <3>2. CASE c = p
        <4>1. mem'[c].next = e
          BY <3>2, <1>3
        <4>2. e \in S
          BY <4>1
        <4>3. x \in S
          BY <4>2, <1>3
        <4>4. QED
          BY <3>2, <4>3, <1>1 DEF x
      <3>3. CASE c # p
        BY <3>1, <3>3, <1>1, <1>3
      <3>4. QED
        BY <3>2, <3>3
    <2>4. QED
      BY <2>1, <2>2, <2>3 DEF ListInv, NoHeadlessRing
  <1>9. LoopStands'
    BY <1>5 DEF ListInv, LoopStands
  <1>10. \E own : Owns(own)'
    <2>1. PICK own : Owns(own)
      BY DEF ListInv
    <2> PICK new : new = [c \in Linked' |-> IF c = e THEN own[p] ELSE own[c]]
      OBVIOUS
    <2>2. own[x] = own[p] /\ own \in [Linked -> Usable]
      BY <2>1 DEF Owns, OwnsLinks, OwnsLoop, x
    <2>3. new \in [Linked' -> Usable']
      BY <2>2, <1>5
    <2>4. \A c \in Linked : new[c] = own[c]
      BY <1>1, <1>5
    <2>5. new[e] = own[p]
      BY <1>5
    <2>6. \A h \in Usable' : new[h] = h
      BY <2>1, <2>4, <1>5, LinkedFacts DEF Owns, OwnsLinks, OwnsLoop
    <2>7. ASSUME NEW c \in Linked' PROVE new[mem'[c].next] = new[c]
      <3>1. CASE c = e
        BY <3>1, <1>1, <1>3, <2>2, <2>4, <2>5
      <3>2. CASE c = p
        BY <3>2, <1>3, <2>4, <2>5
      <3>3. CASE c # e /\ c # p
        <4>1. c \in Linked /\ c \in Cells /\ mem[c].next \in Linked
          BY <3>3, <1>5, LinkedFacts DEF ListInv, Mirror
        <4>2. mem'[c].next = mem[c].next
          BY <3>3, <4>1, <1>3
        <4>3. own[mem[c].next] = own[c]
          BY <4>1, <2>1 DEF Owns, OwnsLinks
        <4>4. QED
          BY <4>1, <4>2, <4>3, <2>4
      <3>4. QED
        BY <3>1, <3>2, <3>3
    <2>8. iter' # NoIter => new[iter'.curr] = iter'.head /\ new[iter'.n] = iter'.head
      <3>1. iter # NoIter => iter.curr \in Linked /\ iter.n \in Linked
        BY DEF ListInv, LoopStands
      <3>2. iter # NoIter => own[iter.curr] = iter.head /\ own[iter.n] = iter.head
        BY <2>1 DEF Owns, OwnsLoop
      <3>3. QED
        BY <3>1, <3>2, <2>4
    <2>9. Owns(new)'
      BY <2>3, <2>6, <2>7, <2>8 DEF Owns, OwnsLinks, OwnsLoop
    <2>10. QED
      BY <2>9
  <1>11. QED
    BY <1>6, <1>7, <1>8, <1>9, <1>10 DEF ListInv

\* What the deletion of e between p and x writes.
Unlinking(m, w, e, p, x) ==
  /\ w \in Memory
  /\ w[e].prev = NULL /\ w[e].next = NULL /\ w[p].next = x /\ w[x].prev = p
  /\ \A c \in Cells \ {e, p} : w[c].next = m[c].next
  /\ \A c \in Cells \ {e, x} : w[c].prev = m[c].prev

\* mk_list_del writes this.
LEMMA DelFacts ==
  ASSUME NEW m \in Memory, NEW e \in Cells, NEW p \in Cells, NEW x \in Cells, e # p, e # x,
         m[e].prev = p, m[e].next = x
  PROVE  Unlinking(m, mk_list_del(m, e), e, p, x)
  <1> DEFINE m1 == [m EXCEPT ![p].next = x]
             m2 == [m1 EXCEPT ![x].prev = p]
             r  == [m2 EXCEPT ![e] = Unlinked]
  <1>1. m1 \in Memory /\ (\A c \in Cells : m1[c].prev = m[c].prev) /\ m1[p].next = x
        /\ \A c \in Cells \ {p} : m1[c].next = m[c].next
    BY DEF Memory, CellOrNull
  <1> HIDE DEF m1
  <1>2. m2 \in Memory /\ (\A c \in Cells : m2[c].next = m1[c].next) /\ m2[x].prev = p
        /\ \A c \in Cells \ {x} : m2[c].prev = m1[c].prev
    BY <1>1 DEF Memory, CellOrNull
  <1> HIDE DEF m2
  <1>3. r \in Memory /\ (\A c \in Cells \ {e} : r[c] = m2[c]) /\ r[e].prev = NULL /\ r[e].next = NULL
    BY <1>2 DEF Memory, CellOrNull, Unlinked
  <1>4. r = mk_list_del(m, e)
    BY DEF mk_list_del, r, m2, m1
  <1> HIDE DEF r
  <1>5. Unlinking(m, r, e, p, x)
    BY <1>1, <1>2, <1>3 DEF Unlinking
  <1>6. QED
    BY <1>4, <1>5

\* No linked entry is its own neighbour.
LEMMA NotAlone ==
  ASSUME NoHeadlessRing, NEW e \in Entries, e \in Linked PROVE mem[e].next # e
  <1>1. \E c \in {e} : mem[c].next \notin {e}
    BY DEF NoHeadlessRing
  <1>2. QED
    BY <1>1

\* A linked entry is deleted; what this means for a loop is left open.
LEMMA DelStep ==
  ASSUME ListInv, NEW e \in Entries \ Free, mem' = mk_list_del(mem, e), moved' = moved
  PROVE  /\ mem' \in Memory /\ Mirror' /\ WholeOrFree' /\ NoHeadlessRing'
         /\ Linked' = Linked \ {e} /\ Usable' = Usable
         /\ \A own : OwnsLinks(own) =>
              \E new : OwnsLinks(new)' /\ \A c \in Linked \ {e} : new[c] = own[c]
  <1> USE ListAssumption
  <1> DEFINE p == mem[e].prev
             x == mem[e].next
  <1>1. /\ e \in Entries /\ e \in Linked /\ e \in Cells /\ p \in Linked /\ p \in Cells
        /\ x \in Linked /\ x \in Cells /\ mem[p].next = e /\ mem[x].prev = e /\ mem \in Memory
    <2>1. e \in Entries /\ e \in Linked
      BY DEF Linked
    <2>2. x \in Linked /\ p \in Linked /\ mem[p].next = e /\ mem[x].prev = e
      BY <2>1 DEF ListInv, Mirror
    <2>3. QED
      BY <2>1, <2>2, LinkedFacts DEF ListInv, ListTypeOK, Memory, Cells
  <1>2. e # x /\ e # p
    <2>1. mem[e].next # e
      BY <1>1, NotAlone DEF ListInv
    <2>2. QED
      BY <2>1, <1>1
  <1>3. mem[e].prev = p /\ mem[e].next = x
    OBVIOUS
  <1> HIDE DEF p, x
  <1>4. /\ mem' \in Memory
        /\ mem'[e].prev = NULL /\ mem'[e].next = NULL /\ mem'[p].next = x /\ mem'[x].prev = p
        /\ \A c \in Cells \ {e, p} : mem'[c].next = mem[c].next
        /\ \A c \in Cells \ {e, x} : mem'[c].prev = mem[c].prev
    <2>1. Unlinking(mem, mk_list_del(mem, e), e, p, x)
      BY <1>1, <1>2, <1>3, DelFacts
    <2>2. QED
      BY <2>1 DEF Unlinking
  <1>5. ASSUME NEW c \in Cells, c # e
        PROVE  (mem'[c].next = NULL <=> mem[c].next = NULL) /\ (mem'[c].prev = NULL <=> mem[c].prev = NULL)
    <2>1. mem[p].next # NULL /\ mem[x].prev # NULL /\ p # NULL /\ x # NULL
      BY <1>1 DEF Cells
    <2>2. QED
      BY <1>1, <1>4, <1>5, <2>1
  <1>6. Linked' = Linked \ {e} /\ Usable' = Usable
    <2>1. Usable' = Usable
      BY DEF Usable
    <2>2. ASSUME NEW c \in Entries, c # e PROVE c \in Free' <=> c \in Free
      <3>1. c \in Cells
        BY DEF Cells
      <3>2. (mem'[c].next = NULL <=> mem[c].next = NULL) /\ (mem'[c].prev = NULL <=> mem[c].prev = NULL)
        BY <1>5, <2>2, <3>1
      <3>3. QED
        BY <3>2 DEF Free, mk_list_entry_is_orphan, mk_list_is_set
    <2>3. e \in Free'
      BY <1>1, <1>4 DEF Free, mk_list_entry_is_orphan, mk_list_is_set
    <2>4. e \notin Usable
      BY <1>1 DEF Usable
    <2>5. QED
      BY <1>1, <2>1, <2>2, <2>3, <2>4 DEF Linked
  <1>7. WholeOrFree'
    <2>1. ASSUME NEW c \in Entries PROVE mem'[c].next = NULL <=> mem'[c].prev = NULL
      <3>1. CASE c = e
        BY <3>1, <1>4
      <3>2. CASE c # e
        <4>1. c \in Cells
          BY DEF Cells
        <4>2. (mem'[c].next = NULL <=> mem[c].next = NULL) /\ (mem'[c].prev = NULL <=> mem[c].prev = NULL)
          BY <1>5, <3>2, <4>1
        <4>3. mem[c].next = NULL <=> mem[c].prev = NULL
          BY DEF ListInv, WholeOrFree
        <4>4. QED
          BY <4>2, <4>3
      <3>3. QED
        BY <3>1, <3>2
    <2>2. QED
      BY <2>1 DEF WholeOrFree
  <1>8. Mirror'
    <2> SUFFICES ASSUME NEW c \in Linked'
                 PROVE  /\ mem'[c].next \in Linked' /\ mem'[mem'[c].next].prev = c
                        /\ mem'[c].prev \in Linked' /\ mem'[mem'[c].prev].next = c
      BY DEF Mirror
    <2>1. c \in Linked /\ c # e /\ c \in Cells
      BY <1>6, LinkedFacts
    <2>2. /\ mem[c].next \in Linked /\ mem[mem[c].next].prev = c
          /\ mem[c].prev \in Linked /\ mem[mem[c].prev].next = c
          /\ mem[c].next \in Cells /\ mem[c].prev \in Cells
      BY <2>1, LinkedFacts DEF ListInv, Mirror
    <2>3. mem'[c].next \in Linked' /\ mem'[mem'[c].next].prev = c
      <3>1. CASE c = p
        BY <3>1, <1>1, <1>2, <1>4, <1>6
      <3>2. CASE c # p
        <4>1. mem[c].next # e /\ mem[c].next # x
          BY <3>2, <2>1, <2>2, <1>1, <1>3
        <4>2. QED
          BY <3>2, <4>1, <2>1, <2>2, <1>4, <1>6
      <3>3. QED
        BY <3>1, <3>2
    <2>4. mem'[c].prev \in Linked' /\ mem'[mem'[c].prev].next = c
      <3>1. CASE c = x
        BY <3>1, <1>1, <1>2, <1>4, <1>6
      <3>2. CASE c # x
        <4>1. mem[c].prev # e /\ mem[c].prev # p
          BY <3>2, <2>1, <2>2, <1>1, <1>3
        <4>2. QED
          BY <3>2, <4>1, <2>1, <2>2, <1>4, <1>6
      <3>3. QED
        BY <3>1, <3>2
    <2>5. QED
      BY <2>3, <2>4
  <1>9. NoHeadlessRing'
    <2> SUFFICES ASSUME NEW S \in SUBSET Entries, S # {}, S \subseteq Linked',
                        \A c \in S : mem'[c].next \in S
                 PROVE  FALSE
      BY DEF NoHeadlessRing
    <2>1. ASSUME NEW c \in S PROVE c \in Linked /\ c \in Cells /\ c # e
      BY <1>6, LinkedFacts
    <2>2. CASE p \notin S
      <3>1. ASSUME NEW c \in S PROVE mem[c].next \in S
        BY <2>1, <2>2, <1>4
      <3>2. QED
        BY <2>1, <3>1 DEF ListInv, NoHeadlessRing
    <2>3. CASE p \in S
      <3> DEFINE T == S \cup {e}
      <3>1. T \in SUBSET Entries /\ T # {} /\ T \subseteq Linked
        BY <2>1, <1>1
      <3>2. x \in S
        BY <2>3, <1>4
      <3>3. ASSUME NEW c \in T PROVE mem[c].next \in T
        <4>1. CASE c = e
          BY <4>1, <3>2, <1>3
        <4>2. CASE c = p
          BY <4>2, <1>1
        <4>3. CASE c # e /\ c # p
          BY <4>3, <2>1, <1>4
        <4>4. QED
          BY <4>1, <4>2, <4>3
      <3>4. QED
        BY <3>1, <3>3 DEF ListInv, NoHeadlessRing
    <2>4. QED
      BY <2>2, <2>3
  <1>10. ASSUME NEW own, OwnsLinks(own)
         PROVE  \E new : OwnsLinks(new)' /\ \A c \in Linked \ {e} : new[c] = own[c]
    <2>1. PICK new : new = [c \in Linked' |-> own[c]]
      OBVIOUS
    <2>2. new \in [Linked' -> Usable'] /\ \A c \in Linked \ {e} : new[c] = own[c]
      BY <1>6, <1>10, <2>1 DEF OwnsLinks
    <2>3. \A h \in Usable' : new[h] = h
      BY <1>1, <1>6, <1>10, <2>2, LinkedFacts DEF OwnsLinks
    <2>4. ASSUME NEW c \in Linked' PROVE new[mem'[c].next] = new[c]
      <3>1. c \in Linked /\ c # e /\ c \in Cells
        BY <1>6, LinkedFacts
      <3>2. CASE c = p
        <4>1. own[e] = own[p] /\ own[x] = own[e]
          BY <1>1, <1>3, <1>10 DEF OwnsLinks
        <4>2. QED
          BY <3>1, <3>2, <4>1, <1>1, <1>2, <1>4, <2>2
      <3>3. CASE c # p
        <4>1. mem'[c].next = mem[c].next /\ mem[c].next \in Linked /\ mem[c].next # e
          BY <3>1, <3>3, <1>1, <1>4 DEF ListInv, Mirror
        <4>2. QED
          BY <3>1, <4>1, <1>10, <2>2 DEF OwnsLinks
      <3>4. QED
        BY <3>2, <3>3
    <2>5. OwnsLinks(new)'
      BY <2>2, <2>3, <2>4 DEF OwnsLinks
    <2>6. QED
      BY <2>2, <2>5
  <1>11. QED
    BY <1>4, <1>6, <1>7, <1>8, <1>9, <1>10

\* Every cell next to which an entry may be added is linked.
LEMMA PlacesLinked ==
  ASSUME ListInv, NEW h \in Usable, NEW q \in Places(h) PROVE q \in Linked
  <1> USE ListAssumption
  <1>1. CASE q = h
    BY <1>1, LinkedFacts
  <1>2. CASE q # h
    <2>1. q \in Entries /\ q \in ToSet(Walk(mem, h))
      BY <1>2 DEF Places
    <2>2. PICK i \in DOMAIN Walk(mem, h) : q = Walk(mem, h)[i]
      BY <2>1 DEF ToSet
    <2>3. CASE \E s \in Chains : Visits(mem, h, s)
      <3> DEFINE s == Walk(mem, h)
      <3>1. s \in Chains /\ Visits(mem, h, s)
        BY <2>3 DEF Walk
      <3> HIDE DEF s
      <3>2. PICK n \in Nat : s \in [1 .. n -> Entries]
        BY <3>1 DEF Chains
      <3>3. s \in Seq(Entries) /\ DOMAIN s = 1 .. Len(s) /\ Len(s) \in Nat
        BY <3>2, SeqDef, LenProperties
      <3>4. i \in 1 .. Len(s) /\ s[i] = q
        BY <2>2, <3>3 DEF s
      <3>5. mem[q].next = IF i + 1 \in DOMAIN s THEN s[i + 1] ELSE h
        BY <3>1, <3>3, <3>4 DEF Visits
      <3>6. mem[q].next # NULL
        BY <3>2, <3>5, LinkedFacts
      <3>7. QED
        BY <2>1, <3>6, LinkedFacts
    <2>4. CASE ~ \E s \in Chains : Visits(mem, h, s)
      <3>1. Walk(mem, h) = <<NULL>>
        BY <2>4 DEF Walk
      <3>2. q = NULL
        BY <2>2, <3>1
      <3>3. QED
        BY <2>1, <3>2
    <2>5. QED
      BY <2>3, <2>4
  <1>3. QED
    BY <1>1, <1>2

\* Whatever function adds an entry, it is put behind some linked cell.
LEMMA AddIsLink ==
  ASSUME ListInv, NEW e \in Free, NEW h \in Usable, NEW q \in Linked,
         NEW w \in {mk_list_add(mem, e, h), mk_list_append(mem, e, h), mk_list_prepend(mem, e, h),
                    mk_list_add_after(mem, e, q, h), mk_list_add_before(mem, e, q, h)}
  PROVE  \E p \in Linked : w = LinkBetween(mem, e, p, mem[p].next)
  <1> USE ListAssumption
  <1>1. h \in Linked /\ Linked \subseteq Cells /\ NULL \notin Cells /\ e \in Cells
    BY LinkedFacts DEF Cells, Free
  <1>2. ASSUME NEW c \in Linked PROVE \E p \in Linked :
          LinkBetween(mem, e, mem[c].prev, c) = LinkBetween(mem, e, p, mem[p].next)
    <2>1. mem[c].prev \in Linked /\ mem[mem[c].prev].next = c
      BY DEF ListInv, Mirror
    <2>2. QED
      BY <2>1
  <1>3. \E p \in Linked : mk_list_add(mem, e, h) = LinkBetween(mem, e, p, mem[p].next)
    BY <1>1, <1>2 DEF mk_list_add
  <1>4. ASSUME NEW c \in Linked
        PROVE  \E p \in Linked : mk_list_add_after(mem, e, c, h) = LinkBetween(mem, e, p, mem[p].next)
    BY <1>3 DEF mk_list_add_after
  <1>5. ASSUME NEW c \in Linked
        PROVE  \E p \in Linked : mk_list_add_before(mem, e, c, h) = LinkBetween(mem, e, p, mem[p].next)
    BY <1>1, <1>2, <1>3 DEF mk_list_add_before
  <1>6. mem[h].prev \in Linked /\ mem[h].next \in Linked
    BY <1>1 DEF ListInv, Mirror
  <1>7. \E p \in Linked : mk_list_append(mem, e, h) = LinkBetween(mem, e, p, mem[p].next)
    BY <1>1, <1>2, <1>4, <1>6 DEF mk_list_append
  <1>8. \E p \in Linked : mk_list_prepend(mem, e, h) = LinkBetween(mem, e, p, mem[p].next)
    BY <1>1, <1>2, <1>5, <1>6 DEF mk_list_prepend
  <1>9. QED
    BY <1>3, <1>4, <1>5, <1>7, <1>8

\* What mk_list_cat writes: cells f to z go between a, the last one of h, and h.
Moving(m, w, h, a, f, z) ==
  /\ w \in Memory
  /\ w[a].next = f /\ w[f].prev = a /\ w[z].next = h /\ w[h].prev = z
  /\ \A c \in Cells \ {a, z} : w[c].next = m[c].next
  /\ \A c \in Cells \ {f, h} : w[c].prev = m[c].prev

\* And when the list that is moved is empty: only its head is written.
MovingNothing(m, w, l) ==
  /\ w \in Memory
  /\ \A c \in Cells : w[c].next = m[c].next
  /\ \A c \in Cells \ {l} : w[c].prev = m[c].prev

\* The list of l, which is not empty, goes behind the one of h.
LEMMA CatFacts ==
  ASSUME NEW m \in Memory, NEW l \in Cells, NEW h \in Cells, NEW a \in Cells, NEW f \in Cells,
         NEW z \in Cells, m[h].prev = a, m[l].next = f, m[l].prev = z, f # l, a # z, f # h
  PROVE  Moving(m, mk_list_cat(m, l, h), h, a, f, z)
  <1> DEFINE n1 == [m EXCEPT ![a].next = f]
             m1 == [n1 EXCEPT ![f].prev = a]
             n2 == [m1 EXCEPT ![z].next = h]
             r  == [n2 EXCEPT ![h].prev = z]
  <1>1. n1 \in Memory /\ (\A c \in Cells : n1[c].prev = m[c].prev) /\ n1[a].next = f
        /\ \A c \in Cells \ {a} : n1[c].next = m[c].next
    BY DEF Memory, CellOrNull
  <1> HIDE DEF n1
  <1>2. m1 \in Memory /\ (\A c \in Cells : m1[c].next = n1[c].next) /\ m1[f].prev = a
        /\ \A c \in Cells \ {f} : m1[c].prev = n1[c].prev
    BY <1>1 DEF Memory, CellOrNull
  <1>3. m1[l].prev = z
    BY <1>1, <1>2
  <1> HIDE DEF m1
  <1>4. n2 \in Memory /\ (\A c \in Cells : n2[c].prev = m1[c].prev) /\ n2[z].next = h
        /\ \A c \in Cells \ {z} : n2[c].next = m1[c].next
    BY <1>2 DEF Memory, CellOrNull
  <1> HIDE DEF n2
  <1>5. r \in Memory /\ (\A c \in Cells : r[c].next = n2[c].next) /\ r[h].prev = z
        /\ \A c \in Cells \ {h} : r[c].prev = n2[c].prev
    BY <1>4 DEF Memory, CellOrNull
  <1> HIDE DEF r
  <1>6. mk_list_cat(m, l, h) = r
    BY <1>3 DEF mk_list_cat, r, n2, m1, n1
  <1>7. QED
    BY <1>1, <1>2, <1>4, <1>5, <1>6 DEF Moving

\* The list of l is empty.
LEMMA CatEmptyFacts ==
  ASSUME NEW m \in Memory, NEW l \in Cells, NEW h \in Cells, NEW a \in Cells,
         m[h].prev = a, m[a].next = h, m[l].next = l, a # l, l # h
  PROVE  MovingNothing(m, mk_list_cat(m, l, h), l)
  <1> DEFINE n1 == [m EXCEPT ![a].next = l]
             m1 == [n1 EXCEPT ![l].prev = a]
             n2 == [m1 EXCEPT ![a].next = h]
             r  == [n2 EXCEPT ![h].prev = a]
  <1>1. n1 \in Memory /\ (\A c \in Cells : n1[c].prev = m[c].prev)
        /\ \A c \in Cells \ {a} : n1[c].next = m[c].next
    BY DEF Memory, CellOrNull
  <1> HIDE DEF n1
  <1>2. m1 \in Memory /\ (\A c \in Cells : m1[c].next = n1[c].next) /\ m1[l].prev = a
        /\ \A c \in Cells \ {l} : m1[c].prev = n1[c].prev
    BY <1>1 DEF Memory, CellOrNull
  <1> HIDE DEF m1
  <1>3. n2 \in Memory /\ (\A c \in Cells : n2[c].prev = m1[c].prev) /\ n2[a].next = h
        /\ \A c \in Cells \ {a} : n2[c].next = m1[c].next
    BY <1>2 DEF Memory, CellOrNull
  <1> HIDE DEF n2
  <1>4. r \in Memory /\ (\A c \in Cells : r[c].next = n2[c].next) /\ r[h].prev = a
        /\ \A c \in Cells \ {h} : r[c].prev = n2[c].prev
    BY <1>3 DEF Memory, CellOrNull
  <1> HIDE DEF r
  <1>5. mk_list_cat(m, l, h) = r
    BY <1>2 DEF mk_list_cat, r, n2, m1, n1
  <1>6. QED
    BY <1>1, <1>2, <1>3, <1>4, <1>5 DEF MovingNothing

\* The cells of l go over to h; l is not in use until it is initialised again.
LEMMA CatStep ==
  ASSUME ListInv, NEW l \in Usable, NEW h \in Usable, Cat(l, h) PROVE ListInv'
  <1> USE ListAssumption
  <1>1. PICK own : Owns(own)
    BY DEF ListInv
  <1> DEFINE a == mem[h].prev
             f == mem[l].next
             z == mem[l].prev
  <1>2. mem' = mk_list_cat(mem, l, h) /\ moved' = moved \cup {l} /\ iter' = iter /\ l # h
        /\ iter.head # l /\ iter.head # h
    BY DEF Cat
  <1>3. /\ l \in Linked /\ h \in Linked /\ l \in Heads /\ h \in Heads /\ Linked \subseteq Cells /\ mem \in Memory
        /\ \A c \in Linked : mem[c].next \in Linked /\ mem[c].prev \in Linked
        /\ \A c \in Linked : mem[mem[c].next].prev = c /\ mem[mem[c].prev].next = c
    BY LinkedFacts DEF ListInv, ListTypeOK, Mirror, Memory
  <1>4. own[l] = l /\ own[h] = h /\ \A c \in Linked : own[mem[c].next] = own[c] /\ own[mem[c].prev] = own[c]
    BY <1>1, <1>3 DEF Owns, OwnsLinks
  <1>5. /\ a \in Linked /\ f \in Linked /\ z \in Linked /\ own[a] = h /\ own[f] = l /\ own[z] = l
        /\ a # l /\ a # f /\ a # z /\ f # h /\ z # h
        /\ mem[a].next = h /\ mem[f].prev = l /\ mem[z].next = l
    BY <1>2, <1>3, <1>4
  <1>6. mem[h].prev = a /\ mem[l].next = f /\ mem[l].prev = z
    OBVIOUS
  <1> HIDE DEF a, f, z
  <1> DEFINE moves(g) == IF g = l THEN h ELSE g
  <1>7. /\ mem' \in Memory
        /\ \A c \in Entries : (mem'[c].next = NULL <=> mem[c].next = NULL)
                           /\ (mem'[c].prev = NULL <=> mem[c].prev = NULL)
        /\ \A c \in Linked \ {l} : /\ mem'[c].next \in Linked \ {l} /\ mem'[mem'[c].next].prev = c
                                  /\ mem'[c].prev \in Linked \ {l} /\ mem'[mem'[c].prev].next = c
        /\ \A S \in SUBSET Entries : S # {} /\ S \subseteq Linked => ~ \A c \in S : mem'[c].next \in S
        /\ \A c \in Linked \ {l} : moves(own[mem'[c].next]) = moves(own[c])
    <2>1. CASE f # l
      <3>1. /\ mem' \in Memory
            /\ mem'[a].next = f /\ mem'[f].prev = a /\ mem'[z].next = h /\ mem'[h].prev = z
            /\ \A c \in Cells \ {a, z} : mem'[c].next = mem[c].next
            /\ \A c \in Cells \ {f, h} : mem'[c].prev = mem[c].prev
        <4>1. Moving(mem, mk_list_cat(mem, l, h), h, a, f, z)
          BY <1>3, <1>5, <1>6, <2>1, CatFacts
        <4>2. QED
          BY <1>2, <4>1 DEF Moving
      <3>2. ASSUME NEW c \in Cells
            PROVE  (mem'[c].next = NULL <=> mem[c].next = NULL) /\ (mem'[c].prev = NULL <=> mem[c].prev = NULL)
        <4>1. \A x \in Linked : x # NULL
          BY <1>3 DEF Cells
        <4>2. mem'[c].next = NULL <=> mem[c].next = NULL
          <5>1. CASE c = a \/ c = z
            BY <5>1, <4>1, <3>1, <1>3, <1>5
          <5>2. CASE c # a /\ c # z
            BY <5>2, <3>1
          <5>3. QED
            BY <5>1, <5>2
        <4>3. mem'[c].prev = NULL <=> mem[c].prev = NULL
          <5>1. CASE c = f \/ c = h
            BY <5>1, <4>1, <3>1, <1>3, <1>5
          <5>2. CASE c # f /\ c # h
            BY <5>2, <3>1
          <5>3. QED
            BY <5>1, <5>2
        <4>4. QED
          BY <4>2, <4>3
      <3>3. ASSUME NEW c \in Linked, c # l
            PROVE  /\ mem'[c].next \in Linked \ {l} /\ mem'[mem'[c].next].prev = c
                   /\ mem'[c].prev \in Linked \ {l} /\ mem'[mem'[c].prev].next = c
        <4>1. c \in Cells /\ mem[c].next \in Cells /\ mem[c].prev \in Cells
          BY <1>3
        <4>2. mem'[c].next \in Linked \ {l} /\ mem'[mem'[c].next].prev = c
          <5>1. CASE c = a
            BY <5>1, <3>1, <1>5, <2>1
          <5>2. CASE c = z
            BY <5>2, <3>1, <1>2, <1>3
          <5>3. CASE c # a /\ c # z
            <6>1. mem[c].next # l /\ mem[c].next # f /\ mem[c].next # h
              BY <5>3, <3>3, <1>3, <1>5, <1>6
            <6>2. QED
              BY <5>3, <6>1, <4>1, <3>1, <1>3
          <5>4. QED
            BY <5>1, <5>2, <5>3
        <4>3. mem'[c].prev \in Linked \ {l} /\ mem'[mem'[c].prev].next = c
          <5>1. CASE c = f
            BY <5>1, <3>1, <1>5
          <5>2. CASE c = h
            <6>1. z # l
              BY <1>3, <1>5, <1>6, <2>1
            <6>2. QED
              BY <5>2, <6>1, <3>1, <1>5
          <5>3. CASE c # f /\ c # h
            <6>1. mem[c].prev # l /\ mem[c].prev # a /\ mem[c].prev # z
              BY <5>3, <3>3, <1>3, <1>5, <1>6
            <6>2. QED
              BY <5>3, <6>1, <4>1, <3>1, <1>3
          <5>4. QED
            BY <5>1, <5>2, <5>3
        <4>4. QED
          BY <4>2, <4>3
      <3>4. ASSUME NEW S \in SUBSET Entries, S # {}, S \subseteq Linked, \A c \in S : mem'[c].next \in S
            PROVE  FALSE
        <4>1. \A c \in S : c \in Linked /\ c \in Cells /\ c \notin Heads
          BY <3>4, <1>3
        <4>2. z \notin S
          BY <3>1, <3>4, <1>3
        <4> DEFINE T == {c \in S : own[c] = l}
        <4>3. T \in SUBSET Entries /\ T \subseteq Linked
          BY <3>4
        <4>4. ASSUME NEW c \in T PROVE mem[c].next \in T
          <5>1. c \in S /\ c # a /\ c # z /\ c \in Cells /\ c \in Linked
            BY <4>1, <4>2, <1>2, <1>5
          <5>2. mem[c].next \in S
            BY <5>1, <3>1, <3>4
          <5>3. QED
            BY <5>1, <5>2, <1>4
        <4>5. T = {}
          BY <4>3, <4>4 DEF ListInv, NoHeadlessRing
        <4>6. a \notin S
          BY <3>1, <3>4, <4>5, <1>5
        <4>7. \A c \in S : mem[c].next \in S
          BY <3>1, <3>4, <4>1, <4>2, <4>6
        <4>8. QED
          BY <3>4, <4>7 DEF ListInv, NoHeadlessRing
      <3>5. ASSUME NEW c \in Linked, c # l PROVE moves(own[mem'[c].next]) = moves(own[c])
        <4>1. CASE c = a \/ c = z
          BY <4>1, <3>1, <1>2, <1>4, <1>5
        <4>2. CASE c # a /\ c # z
          BY <4>2, <3>1, <1>3, <1>4
        <4>3. QED
          BY <4>1, <4>2
      <3>6. \A c \in Entries : (mem'[c].next = NULL <=> mem[c].next = NULL)
                           /\ (mem'[c].prev = NULL <=> mem[c].prev = NULL)
        BY <3>2 DEF Cells
      <3>7. QED
        BY <3>1, <3>3, <3>4, <3>5, <3>6
    <2>2. CASE f = l
      <3>1. /\ mem' \in Memory
            /\ \A c \in Cells : mem'[c].next = mem[c].next
            /\ \A c \in Cells \ {l} : mem'[c].prev = mem[c].prev
        <4>1. MovingNothing(mem, mk_list_cat(mem, l, h), l)
          BY <1>2, <1>3, <1>5, <1>6, <2>2, CatEmptyFacts
        <4>2. QED
          BY <1>2, <4>1 DEF MovingNothing
      <3>2. ASSUME NEW c \in Linked, c # l
            PROVE  /\ mem'[c].next \in Linked \ {l} /\ mem'[mem'[c].next].prev = c
                   /\ mem'[c].prev \in Linked \ {l} /\ mem'[mem'[c].prev].next = c
        <4>1. mem[c].next # l /\ mem[c].prev # l
          BY <3>2, <2>2, <1>3, <1>5, <1>6
        <4>2. QED
          BY <4>1, <3>1, <3>2, <1>3
      <3>3. ASSUME NEW c \in Entries
            PROVE  (mem'[c].next = NULL <=> mem[c].next = NULL) /\ (mem'[c].prev = NULL <=> mem[c].prev = NULL)
        <4>1. c \in Cells /\ c # l
          BY <1>3 DEF Cells
        <4>2. QED
          BY <4>1, <3>1
      <3>4. ASSUME NEW S \in SUBSET Entries, S # {}, S \subseteq Linked, \A c \in S : mem'[c].next \in S
            PROVE  FALSE
        <4>1. \A c \in S : mem[c].next \in S
          BY <3>1, <3>4, <1>3
        <4>2. QED
          BY <3>4, <4>1 DEF ListInv, NoHeadlessRing
      <3>5. ASSUME NEW c \in Linked, c # l PROVE moves(own[mem'[c].next]) = moves(own[c])
        BY <3>1, <1>3, <1>4
      <3>6. QED
        BY <3>1, <3>2, <3>3, <3>4, <3>5
    <2>3. QED
      BY <2>1, <2>2
  <1>8. Usable' = Usable \ {l} /\ Linked' = Linked \ {l}
    <2>1. Usable' = Usable \ {l}
      BY <1>2 DEF Usable
    <2>2. ASSUME NEW c \in Entries PROVE c \in Free' <=> c \in Free
      <3>1. (mem'[c].next = NULL <=> mem[c].next = NULL) /\ (mem'[c].prev = NULL <=> mem[c].prev = NULL)
        BY <1>7
      <3>2. QED
        BY <3>1 DEF Free, mk_list_entry_is_orphan, mk_list_is_set
    <2>3. l \notin Entries
      BY <1>3
    <2>4. QED
      BY <2>1, <2>2, <2>3 DEF Linked
  <1>9. ListTypeOK'
    <2>1. mem' \in Memory
      BY <1>7
    <2>2. QED
      BY <2>1, <1>2, <1>3 DEF ListInv, ListTypeOK, Memory
  <1>10. WholeOrFree'
    <2>1. ASSUME NEW c \in Entries PROVE mem'[c].next = NULL <=> mem'[c].prev = NULL
      <3>1. (mem'[c].next = NULL <=> mem[c].next = NULL) /\ (mem'[c].prev = NULL <=> mem[c].prev = NULL)
        BY <1>7
      <3>2. QED
        BY <3>1 DEF ListInv, WholeOrFree
    <2>2. QED
      BY <2>1 DEF WholeOrFree
  <1>11. Mirror' /\ NoHeadlessRing'
    BY <1>7, <1>8 DEF Mirror, NoHeadlessRing
  <1>12. iter # NoIter => iter.curr # l /\ iter.n # l
    BY <1>1, <1>2, <1>4 DEF Owns, OwnsLoop
  <1>13. LoopStands'
    BY <1>2, <1>8, <1>12 DEF ListInv, LoopStands
  <1>14. PICK new : new = [c \in Linked' |-> moves(own[c])]
    OBVIOUS
  <1>15. \A c \in Linked \ {l} : new[c] = moves(own[c])
    BY <1>8, <1>14
  <1>16. new \in [Linked' -> Usable']
    BY <1>1, <1>2, <1>8, <1>14 DEF Owns, OwnsLinks
  <1>17. OwnsLinks(new)'
    <2>1. \A g \in Usable' : new[g] = g
      BY <1>1, <1>8, <1>15, LinkedFacts DEF Owns, OwnsLinks
    <2>2. \A c \in Linked' : new[mem'[c].next] = new[c]
      BY <1>7, <1>8, <1>15
    <2>3. QED
      BY <1>16, <2>1, <2>2 DEF OwnsLinks
  <1>18. OwnsLoop(new)'
    BY <1>1, <1>2, <1>12, <1>15 DEF Owns, OwnsLoop, ListInv, LoopStands
  <1>19. QED
    BY <1>9, <1>10, <1>11, <1>13, <1>17, <1>18 DEF ListInv, Owns

\* The head of a list that was moved away is initialised.
LEMMA ReInitStep ==
  ASSUME ListInv, NEW h \in moved, ReInit(h) PROVE ListInv'
  <1> USE ListAssumption
  <1>1. h \in Heads /\ h \in Cells /\ mem \in Memory /\ h \notin Linked
    <2>1. h \in Heads
      BY DEF ListInv, ListTypeOK
    <2>2. QED
      BY <2>1, LinkedFacts DEF Cells, ListInv, ListTypeOK, Memory
  <1>2. mem' \in Memory /\ mem'[h].next = h /\ mem'[h].prev = h /\ \A c \in Cells \ {h} : mem'[c] = mem[c]
    BY <1>1 DEF ReInit, mk_list_init, Memory, CellOrNull
  <1>3. moved' = moved \ {h} /\ iter' = iter
    BY DEF ReInit
  <1>4. \A c \in Linked : mem'[c] = mem[c] /\ c # h
    BY <1>1, <1>2, LinkedFacts
  <1>5. \A c \in Entries : mem'[c] = mem[c] /\ c # h
    BY <1>1, <1>2 DEF Cells
  <1>6. Usable' = Usable \cup {h} /\ Linked' = Linked \cup {h}
    <2>1. Usable' = Usable \cup {h}
      BY <1>1, <1>3 DEF Usable
    <2>2. Free' = Free
      BY <1>5 DEF Free, mk_list_entry_is_orphan, mk_list_is_set
    <2>3. QED
      BY <2>1, <2>2 DEF Linked
  <1>7. ListTypeOK'
    BY <1>2, <1>3 DEF ListInv, ListTypeOK, Memory
  <1>8. WholeOrFree'
    BY <1>5 DEF ListInv, WholeOrFree
  <1>9. Mirror'
    <2> SUFFICES ASSUME NEW c \in Linked'
                 PROVE  /\ mem'[c].next \in Linked' /\ mem'[mem'[c].next].prev = c
                        /\ mem'[c].prev \in Linked' /\ mem'[mem'[c].prev].next = c
      BY DEF Mirror
    <2>1. CASE c = h
      BY <2>1, <1>2, <1>6
    <2>2. CASE c # h
      BY <2>2, <1>4, <1>6 DEF ListInv, Mirror
    <2>3. QED
      BY <2>1, <2>2
  <1>10. NoHeadlessRing'
    <2> SUFFICES ASSUME NEW S \in SUBSET Entries, S # {}, S \subseteq Linked'
                 PROVE  \E c \in S : mem'[c].next \notin S
      BY DEF NoHeadlessRing
    <2>1. S \subseteq Linked
      BY <1>1, <1>6
    <2>2. \E c \in S : mem[c].next \notin S
      BY <2>1 DEF ListInv, NoHeadlessRing
    <2>3. QED
      BY <2>2, <1>5
  <1>11. LoopStands'
    BY <1>3, <1>6 DEF ListInv, LoopStands
  <1>12. PICK own : Owns(own)
    BY DEF ListInv
  <1>13. PICK new : new = [c \in Linked' |-> IF c = h THEN h ELSE own[c]]
    OBVIOUS
  <1>14. new \in [Linked' -> Usable'] /\ new[h] = h /\ \A c \in Linked : new[c] = own[c]
    BY <1>4, <1>6, <1>12, <1>13 DEF Owns, OwnsLinks
  <1>15. OwnsLinks(new)'
    <2>1. \A g \in Usable' : new[g] = g
      BY <1>6, <1>12, <1>14, LinkedFacts DEF Owns, OwnsLinks
    <2>2. ASSUME NEW c \in Linked' PROVE new[mem'[c].next] = new[c]
      <3>1. CASE c = h
        BY <3>1, <1>2
      <3>2. CASE c # h
        <4>1. c \in Linked /\ mem[c].next \in Linked /\ mem'[c].next = mem[c].next
          BY <3>2, <1>4, <1>6 DEF ListInv, Mirror
        <4>2. QED
          BY <4>1, <1>12, <1>14 DEF Owns, OwnsLinks
      <3>3. QED
        BY <3>1, <3>2
    <2>3. QED
      BY <1>14, <2>1, <2>2 DEF OwnsLinks
  <1>16. OwnsLoop(new)'
    BY <1>3, <1>12, <1>14 DEF Owns, OwnsLoop, ListInv, LoopStands
  <1>17. QED
    BY <1>7, <1>8, <1>9, <1>10, <1>11, <1>15, <1>16 DEF ListInv, Owns

\* What an unchanged memory keeps.
LEMMA SameMemory ==
  ASSUME ListInv, UNCHANGED <<mem, moved>>
  PROVE  /\ mem' \in Memory /\ moved' \subseteq Heads /\ Mirror' /\ WholeOrFree' /\ NoHeadlessRing'
         /\ Linked' = Linked /\ Usable' = Usable /\ \A own : OwnsLinks(own) => OwnsLinks(own)'
  <1>1. Linked' = Linked /\ Usable' = Usable
    BY DEF Linked, Usable, Free, mk_list_entry_is_orphan, mk_list_is_set
  <1>2. Mirror' /\ WholeOrFree' /\ NoHeadlessRing' /\ mem' \in Memory /\ moved' \subseteq Heads
    BY <1>1 DEF ListInv, ListTypeOK, Mirror, WholeOrFree, NoHeadlessRing, Memory
  <1>3. \A own : OwnsLinks(own) => OwnsLinks(own)'
    BY <1>1 DEF OwnsLinks
  <1>4. QED
    BY <1>1, <1>2, <1>3

\* An entry that no loop stands on is deleted.
LEMMA DelAction ==
  ASSUME ListInv, NEW e \in Entries \ Free, Del(e) PROVE ListInv'
  <1>1. mem' = mk_list_del(mem, e) /\ moved' = moved /\ iter' = iter /\ e # iter.n /\ e # iter.curr
    BY DEF Del
  <1>2. /\ mem' \in Memory /\ Mirror' /\ WholeOrFree' /\ NoHeadlessRing'
        /\ Linked' = Linked \ {e} /\ Usable' = Usable
        /\ \A own : OwnsLinks(own) =>
             \E new : OwnsLinks(new)' /\ \A c \in Linked \ {e} : new[c] = own[c]
    BY <1>1, DelStep
  <1>3. PICK own : Owns(own)
    BY DEF ListInv
  <1>4. PICK new : OwnsLinks(new)' /\ \A c \in Linked \ {e} : new[c] = own[c]
    BY <1>2, <1>3 DEF Owns
  <1>5. LoopStands'
    BY <1>1, <1>2 DEF ListInv, LoopStands
  <1>6. OwnsLoop(new)'
    BY <1>1, <1>3, <1>4 DEF ListInv, LoopStands, Owns, OwnsLoop
  <1>7. ListTypeOK'
    BY <1>1, <1>2 DEF ListInv, ListTypeOK, Memory
  <1>8. QED
    BY <1>2, <1>4, <1>5, <1>6, <1>7 DEF ListInv, Owns

\* A loop begins.
LEMMA LoopStartStep ==
  ASSUME ListInv, NEW h \in Usable, LoopStart(h) PROVE ListInv'
  <1> USE ListAssumption
  <1> DEFINE c == mem[h].next
             n == mem[c].next
  <1>1. UNCHANGED <<mem, moved>> /\ iter' = [head |-> h, curr |-> c, n |-> n]
    BY DEF LoopStart
  <1>2. h \in Linked /\ c \in Linked /\ n \in Linked /\ Linked \subseteq Cells
    BY LinkedFacts DEF ListInv, Mirror
  <1>3. c \in Entries => n # c
    BY <1>2, NotAlone DEF ListInv
  <1>4. PICK own : Owns(own)
    BY DEF ListInv
  <1>5. own[c] = h /\ own[n] = h
    BY <1>2, <1>4 DEF Owns, OwnsLinks
  <1> HIDE DEF c, n
  <1>6. iter'.head = h /\ iter'.curr = c /\ iter'.n = n /\ iter' \in [head : CellOrNull, curr : CellOrNull, n : CellOrNull]
    BY <1>1, <1>2 DEF CellOrNull
  <1>7. /\ mem' \in Memory /\ moved' \subseteq Heads /\ Mirror' /\ WholeOrFree' /\ NoHeadlessRing'
        /\ Linked' = Linked /\ Usable' = Usable /\ \A o : OwnsLinks(o) => OwnsLinks(o)'
    BY <1>1, SameMemory
  <1>8. LoopStands'
    BY <1>2, <1>3, <1>6, <1>7 DEF LoopStands
  <1>9. Owns(own)'
    BY <1>4, <1>5, <1>6, <1>7 DEF Owns, OwnsLoop
  <1>10. ListTypeOK'
    BY <1>6, <1>7 DEF ListTypeOK, Memory
  <1>11. QED
    BY <1>7, <1>8, <1>9, <1>10 DEF ListInv

\* A loop that has not come back to its head stands on a linked entry.
LEMMA LoopBody ==
  ASSUME ListInv, iter # NoIter, iter.curr # iter.head PROVE iter.curr \in Entries \ Free
  <1>1. iter.curr \in Linked
    BY DEF ListInv, LoopStands
  <1>2. PICK own : Owns(own)
    BY DEF ListInv
  <1>3. own[iter.curr] = iter.head
    BY <1>2 DEF Owns, OwnsLoop
  <1>4. iter.curr \notin Usable
    BY <1>2, <1>3 DEF Owns, OwnsLinks
  <1>5. QED
    BY <1>1, <1>4 DEF Linked

\* The body keeps or deletes the current entry, and the loop goes on to the saved cell.
LEMMA LoopStepStep ==
  ASSUME ListInv, NEW del \in BOOLEAN, LoopStep(del) PROVE ListInv'
  <1> USE ListAssumption
  <1> DEFINE e == iter.curr
             n == iter.n
  <1>1. /\ iter # NoIter /\ e # iter.head /\ moved' = moved
        /\ mem' = IF del THEN mk_list_del(mem, e) ELSE mem
        /\ iter' = [iter EXCEPT !.curr = n, !.n = mem'[n].next]
    BY DEF LoopStep
  <1>2. iter.head \in Usable /\ e \in Linked /\ n \in Linked /\ (e \in Entries => n # e)
    BY <1>1 DEF ListInv, LoopStands
  <1>3. PICK own : Owns(own)
    BY DEF ListInv
  <1>4. own[e] = iter.head /\ own[n] = iter.head
    BY <1>1, <1>3 DEF Owns, OwnsLoop
  <1>5. e \in Entries \ Free
    BY <1>1, LoopBody
  <1> HIDE DEF e, n
  <1>7. /\ mem' \in Memory /\ Mirror' /\ WholeOrFree' /\ NoHeadlessRing' /\ moved' \subseteq Heads
        /\ n \in Linked' /\ Usable' = Usable /\ \E new : OwnsLinks(new)' /\ new[n] = own[n]
    <2>1. CASE del
      <3>1. mem' = mk_list_del(mem, e)
        BY <1>1, <2>1
      <3>2. /\ mem' \in Memory /\ Mirror' /\ WholeOrFree' /\ NoHeadlessRing'
            /\ Linked' = Linked \ {e} /\ Usable' = Usable
            /\ \A o : OwnsLinks(o) =>
                 \E new : OwnsLinks(new)' /\ \A c \in Linked \ {e} : new[c] = o[c]
        BY <1>1, <1>5, <3>1, DelStep
      <3>3. moved' \subseteq Heads
        BY <1>1 DEF ListInv, ListTypeOK
      <3>4. \E new : OwnsLinks(new)' /\ \A c \in Linked \ {e} : new[c] = own[c]
        BY <1>3, <3>2 DEF Owns
      <3>5. n \in Linked \ {e}
        BY <1>2, <1>5
      <3>6. QED
        BY <3>2, <3>3, <3>4, <3>5
    <2>2. CASE ~ del
      <3>1. UNCHANGED <<mem, moved>>
        BY <1>1, <2>2
      <3>2. /\ mem' \in Memory /\ moved' \subseteq Heads /\ Mirror' /\ WholeOrFree' /\ NoHeadlessRing'
            /\ Linked' = Linked /\ Usable' = Usable /\ \A o : OwnsLinks(o) => OwnsLinks(o)'
        BY <3>1, SameMemory
      <3>3. QED
        BY <1>2, <1>3, <3>2 DEF Owns
    <2>3. QED
      BY <2>1, <2>2
  <1>8. PICK new : OwnsLinks(new)' /\ new[n] = own[n]
    BY <1>7
  <1>9. mem'[n].next \in Linked' /\ new[mem'[n].next] = new[n]
    BY <1>7, <1>8 DEF Mirror, OwnsLinks
  <1>10. n \in Entries => mem'[n].next # n
    <2>1. ASSUME n \in Entries PROVE mem'[n].next # n
      <3>1. \E c \in {n} : mem'[c].next \notin {n}
        BY <1>7, <2>1 DEF NoHeadlessRing
      <3>2. QED
        BY <3>1
    <2>2. QED
      BY <2>1
  <1>11. iter \in [head : CellOrNull, curr : CellOrNull, n : CellOrNull]
    BY DEF ListInv, ListTypeOK
  <1>12. mem'[n].next \in CellOrNull /\ n \in CellOrNull
    <2>1. n \in Cells
      BY <1>2, LinkedFacts
    <2>2. QED
      BY <2>1, <1>7 DEF Memory, CellOrNull
  <1>13. /\ iter'.head = iter.head /\ iter'.curr = n /\ iter'.n = mem'[n].next
         /\ iter' \in [head : CellOrNull, curr : CellOrNull, n : CellOrNull]
    BY <1>1, <1>11, <1>12
  <1>14. LoopStands'
    BY <1>2, <1>7, <1>9, <1>10, <1>13 DEF LoopStands
  <1>15. Owns(new)'
    BY <1>4, <1>8, <1>9, <1>13 DEF Owns, OwnsLoop
  <1>16. ListTypeOK'
    BY <1>7, <1>13 DEF ListTypeOK, Memory
  <1>17. QED
    BY <1>7, <1>14, <1>15, <1>16 DEF ListInv

\* The first state: empty lists and free entries.
LEMMA ListInvInit ==
  ASSUME ListInit PROVE ListInv
  <1> USE ListAssumption
  <1>1. mem \in Memory
    BY DEF ListInit, Memory, Cells, CellOrNull, Unlinked
  <1>2. \A h \in Heads : mem[h].prev = h /\ mem[h].next = h
    BY DEF ListInit, Cells
  <1>3. \A e \in Entries : mem[e].prev = NULL /\ mem[e].next = NULL
    BY DEF ListInit, Cells, Unlinked
  <1>4. Usable = Heads /\ Linked = Heads
    BY <1>3 DEF ListInit, Usable, Linked, Free, mk_list_entry_is_orphan, mk_list_is_set
  <1>5. ListTypeOK
    BY <1>1 DEF ListInit, ListTypeOK, Memory, NoIter, CellOrNull
  <1>6. Mirror /\ WholeOrFree /\ NoHeadlessRing
    BY <1>2, <1>3, <1>4 DEF Mirror, WholeOrFree, NoHeadlessRing
  <1>7. LoopStands
    BY DEF ListInit, LoopStands
  <1>8. PICK own : own = [h \in Heads |-> h]
    OBVIOUS
  <1>9. Owns(own)
    BY <1>2, <1>4, <1>8 DEF ListInit, Owns, OwnsLinks, OwnsLoop
  <1>10. QED
    BY <1>5, <1>6, <1>7, <1>9 DEF ListInv

\* Every step keeps the lists linked both ways.
LEMMA ListInvStep ==
  ASSUME ListInv, [ListNext]_listVars PROVE ListInv'
  <1> USE ListAssumption
  <1>1. ASSUME NEW e \in Free, NEW h \in Usable, Add(e, h) \/ Append_(e, h) \/ Prepend(e, h)
        PROVE  ListInv'
    <2>1. h \in Linked
      BY LinkedFacts
    <2>2. \E p \in Linked : mem' = LinkBetween(mem, e, p, mem[p].next)
      BY <1>1, <2>1, AddIsLink DEF Add, Append_, Prepend
    <2>3. UNCHANGED <<moved, iter>>
      BY <1>1 DEF Add, Append_, Prepend
    <2>4. QED
      BY <2>2, <2>3, LinkStep
  <1>2. ASSUME NEW e \in Free, NEW h \in Usable, NEW q \in Places(h), AddAfter(e, q, h) \/ AddBefore(e, q, h)
        PROVE  ListInv'
    <2>1. q \in Linked
      BY PlacesLinked
    <2>2. \E p \in Linked : mem' = LinkBetween(mem, e, p, mem[p].next)
      BY <1>2, <2>1, AddIsLink DEF AddAfter, AddBefore
    <2>3. UNCHANGED <<moved, iter>>
      BY <1>2 DEF AddAfter, AddBefore
    <2>4. QED
      BY <2>2, <2>3, LinkStep
  <1>3. CASE LoopEnd \/ UNCHANGED listVars
    <2>1. UNCHANGED <<mem, moved>> /\ (iter' = NoIter \/ iter' = iter)
      BY <1>3 DEF LoopEnd, listVars
    <2>2. /\ mem' \in Memory /\ moved' \subseteq Heads /\ Mirror' /\ WholeOrFree' /\ NoHeadlessRing'
          /\ Linked' = Linked /\ Usable' = Usable /\ \A own : OwnsLinks(own) => OwnsLinks(own)'
      BY <2>1, SameMemory
    <2>3. ListTypeOK' /\ LoopStands'
      BY <2>1, <2>2 DEF ListInv, ListTypeOK, LoopStands, NoIter, CellOrNull, Memory
    <2>4. \E own : Owns(own)'
      BY <2>1, <2>2 DEF ListInv, Owns, OwnsLoop
    <2>5. QED
      BY <2>2, <2>3, <2>4 DEF ListInv
  <1>4. QED
    BY <1>1, <1>2, <1>3, DelAction, CatStep, ReInitStep, LoopStartStep, LoopStepStep DEF ListNext

\* Whatever is added, deleted, moved and looped over, in any order: the neighbours of a linked
\* cell point back at it, and a loop that deletes its current entry stands on linked cells.
THEOREM ListsMirror == ListSpec => []LinksMirror
  <1>1. ListInit => ListInv
    BY ListInvInit
  <1>2. ListInv /\ [ListNext]_listVars => ListInv'
    BY ListInvStep
  <1>3. ListInv => LinksMirror
    BY LinkedFacts DEF ListInv, Mirror, LoopStands, LinksMirror
  <1>4. QED
    BY <1>1, <1>2, <1>3, PTL DEF ListSpec

-----------------------------------------------------------------------------
(* Lists as sequences. *)

\* Place i of the list at h that holds s: its head comes before the first entry and after the last.
PlaceOf(h, s, i) == IF i \in 1 .. Len(s) THEN s[i] ELSE h

\* Following next from h leads through s and back.
Leads(m, h, s) == \A i \in 0 .. Len(s) : m[PlaceOf(h, s, i)].next = PlaceOf(h, s, i + 1)

\* The memory m, with the lists of mv moved away, holds the sequences sq: next leads through
\* each of them, no entry has two places, and every entry that points somewhere has one.
Laid(m, mv, sq) ==
  /\ sq \in [Heads -> Seq(Entries)]
  /\ \A h \in mv : sq[h] = << >>
  /\ \A h \in Heads \ mv : Leads(m, h, sq[h])
  /\ \A g, h \in Heads : \A i \in 1 .. Len(sq[g]), j \in 1 .. Len(sq[h]) :
        sq[g][i] = sq[h][j] => g = h /\ i = j
  /\ \A e \in Entries : m[e].next # NULL => \E h \in Heads : \E i \in 1 .. Len(sq[h]) : sq[h][i] = e

\* A loop visits what next leads through.
LEMMA LeadsVisits ==
  ASSUME NEW m, NEW h, NEW s \in Seq(Entries) PROVE Visits(m, h, s) <=> Leads(m, h, s)
  <1>1. DOMAIN s = 1 .. Len(s) /\ Len(s) \in Nat
    BY LenProperties
  <1>2. QED
    BY <1>1 DEF Visits, Leads, PlaceOf

\* What next leads through from h is the beginning of whatever else it leads through.
LEMMA LeadsPrefix ==
  ASSUME NEW m, NEW h \in Heads, NEW s \in Seq(Entries), NEW t \in Seq(Entries),
         Leads(m, h, s), Leads(m, h, t)
  PROVE  Len(s) <= Len(t) /\ \A i \in 1 .. Len(s) : s[i] = t[i]
  <1> USE ListAssumption
  <1>1. Len(s) \in Nat /\ Len(t) \in Nat /\ \A i \in 1 .. Len(s) : s[i] \in Entries /\ s[i] # h
    BY LenProperties
  <1> DEFINE Differ == {i \in 1 .. Len(s) : ~ (i \in 1 .. Len(t) /\ s[i] = t[i])}
  <1>2. ASSUME Differ # {} PROVE FALSE
    <2>1. Differ \subseteq Nat
      BY <1>1
    <2>2. PICK k \in Differ : \A y \in Differ : ~ (<<y, k>> \in OpToRel(<, Nat))
      BY <1>2, <2>1, NatLessThanWellFounded, WFMin
    <2>3. k \in 1 .. Len(s) /\ ~ (k \in 1 .. Len(t) /\ s[k] = t[k])
      OBVIOUS
    <2>4. k - 1 \notin Differ
      <3>1. \A y \in Differ : ~ (y < k)
        BY <2>1, <2>2 DEF OpToRel
      <3>2. k - 1 < k
        BY <2>3, <1>1
      <3>3. QED
        BY <3>1, <3>2
    <2>5. k - 1 \in 0 .. Len(s) /\ k - 1 \in 0 .. Len(t) /\ PlaceOf(h, s, k - 1) = PlaceOf(h, t, k - 1)
      <3>1. CASE k = 1
        BY <3>1, <1>1, <2>3 DEF PlaceOf
      <3>2. CASE k # 1
        <4>1. k - 1 \in 1 .. Len(s)
          BY <3>2, <2>3, <1>1
        <4>2. k - 1 \in 1 .. Len(t) /\ s[k - 1] = t[k - 1]
          BY <2>4, <4>1
        <4>3. QED
          BY <4>1, <4>2, <1>1 DEF PlaceOf
      <3>3. QED
        BY <3>1, <3>2
    <2> HIDE DEF Differ
    <2>6. m[PlaceOf(h, s, k - 1)].next = PlaceOf(h, s, k - 1 + 1)
          /\ m[PlaceOf(h, t, k - 1)].next = PlaceOf(h, t, k - 1 + 1)
      BY <2>5 DEF Leads
    <2>7. k - 1 + 1 = k
      BY <2>3, <1>1
    <2>8. PlaceOf(h, s, k) = PlaceOf(h, t, k)
      BY <2>5, <2>6, <2>7
    <2>9. PlaceOf(h, s, k) = s[k] /\ s[k] # h
      BY <2>3, <1>1 DEF PlaceOf
    <2>10. QED
      BY <2>3, <2>8, <2>9 DEF PlaceOf
  <1>3. \A i \in 1 .. Len(s) : i \in 1 .. Len(t) /\ s[i] = t[i]
    BY <1>2
  <1>4. Len(s) <= Len(t)
    BY <1>1, <1>3
  <1>5. QED
    BY <1>3, <1>4

\* A sequence of distinct entries is no longer than there are entries.
LEMMA LaidIsChain ==
  ASSUME NEW m, NEW mv, NEW sq, Laid(m, mv, sq), NEW h \in Heads
  PROVE  sq[h] \in Chains
  <1> USE ListAssumption
  <1> DEFINE s == sq[h]
             n == Len(s)
  <1>1. s \in Seq(Entries) /\ n \in Nat /\ s \in [1 .. n -> Entries] /\ DOMAIN s = 1 .. n
    BY LenProperties DEF Laid
  <1>2. \A i, j \in 1 .. n : s[i] = s[j] => i = j
    BY DEF Laid
  <1> HIDE DEF s, n
  <1>3. s \in Injection(1 .. n, Entries)
    BY <1>1, <1>2 DEF Injection, IsInjective
  <1>4. Cardinality(1 .. n) <= Cardinality(Entries)
    BY <1>3, FS_Injection
  <1>5. Cardinality(1 .. n) = n
    BY <1>1, FS_Interval
  <1>6. Cardinality(Entries) \in Nat
    BY FS_CardinalityType
  <1>7. n \in 0 .. Cardinality(Entries)
    BY <1>1, <1>4, <1>5, <1>6
  <1>8. QED
    BY <1>1, <1>2, <1>7 DEF Chains, s

\* Walk finds the sequence that is there.
LEMMA WalkFinds ==
  ASSUME NEW m, NEW mv, NEW sq, Laid(m, mv, sq), NEW h \in Heads \ mv
  PROVE  Walk(m, h) = sq[h]
  <1>1. sq[h] \in Seq(Entries) /\ Leads(m, h, sq[h])
    BY DEF Laid
  <1>2. sq[h] \in Chains /\ Visits(m, h, sq[h])
    BY <1>1, LaidIsChain, LeadsVisits
  <1>3. PICK s : s = Walk(m, h)
    OBVIOUS
  <1>4. s \in Chains /\ Visits(m, h, s)
    BY <1>2, <1>3 DEF Walk
  <1>5. s \in Seq(Entries)
    <2>1. PICK n \in Nat : s \in [1 .. n -> Entries]
      <3>1. Cardinality(Entries) \in Nat
        BY ListAssumption, FS_CardinalityType
      <3>2. QED
        BY <1>4, <3>1 DEF Chains
    <2>2. QED
      BY <2>1, SeqDef
  <1>6. Leads(m, h, s)
    BY <1>4, <1>5, LeadsVisits
  <1>7. Len(s) <= Len(sq[h]) /\ \A i \in 1 .. Len(s) : s[i] = sq[h][i]
    BY <1>1, <1>5, <1>6, LeadsPrefix
  <1>8. Len(sq[h]) <= Len(s)
    BY <1>1, <1>5, <1>6, LeadsPrefix
  <1>9. Len(s) = Len(sq[h])
    BY <1>1, <1>5, <1>7, <1>8, LenProperties
  <1>10. QED
    BY <1>1, <1>3, <1>5, <1>7, <1>9, SeqEqual

\* A cell has one place: on one list, at one index.
LEMMA PlacesApart ==
  ASSUME NEW m, NEW mv, NEW sq, Laid(m, mv, sq), NEW g \in Heads, NEW h \in Heads,
         NEW i \in 0 .. Len(sq[g]), NEW j \in 0 .. Len(sq[h]), PlaceOf(g, sq[g], i) = PlaceOf(h, sq[h], j)
  PROVE  g = h /\ i = j
  <1> USE ListAssumption
  <1>1. sq[g] \in Seq(Entries) /\ sq[h] \in Seq(Entries) /\ Len(sq[g]) \in Nat /\ Len(sq[h]) \in Nat
    BY LenProperties DEF Laid
  <1>2. (i # 0 => PlaceOf(g, sq[g], i) = sq[g][i] /\ sq[g][i] \in Entries) /\ (i = 0 => PlaceOf(g, sq[g], i) = g)
    BY <1>1, ElementOfSeq DEF PlaceOf
  <1>3. (j # 0 => PlaceOf(h, sq[h], j) = sq[h][j] /\ sq[h][j] \in Entries) /\ (j = 0 => PlaceOf(h, sq[h], j) = h)
    BY <1>1, ElementOfSeq DEF PlaceOf
  <1>4. CASE i = 0 \/ j = 0
    BY <1>2, <1>3, <1>4
  <1>5. CASE i # 0 /\ j # 0
    <2>1. i \in 1 .. Len(sq[g]) /\ j \in 1 .. Len(sq[h]) /\ sq[g][i] = sq[h][j]
      BY <1>1, <1>2, <1>3, <1>5
    <2>2. QED
      BY <2>1 DEF Laid
  <1>6. QED
    BY <1>4, <1>5

\* No entry is on two lists, or on a list twice.
LEMMA OnePlace ==
  ASSUME NEW m, NEW mv, NEW sq, Laid(m, mv, sq), NEW g \in Heads, NEW h \in Heads,
         NEW i \in 1 .. Len(sq[g]), NEW j \in 1 .. Len(sq[h]), sq[g][i] = sq[h][j]
  PROVE  g = h /\ i = j
  BY DEF Laid

\* The places of a list are cells.
LEMMA PlacesAreCells ==
  ASSUME NEW h \in Heads, NEW s \in Seq(Entries), NEW i PROVE PlaceOf(h, s, i) \in Cells
  BY ElementOfSeq DEF PlaceOf, Cells

\* An entry that has a place points somewhere.
LEMMA LaidPoints ==
  ASSUME NEW m, NEW mv, NEW sq, Laid(m, mv, sq), NEW h \in Heads, NEW i \in 1 .. Len(sq[h])
  PROVE  h \notin mv /\ m[sq[h][i]].next # NULL /\ sq[h][i] \in Entries
  <1> USE ListAssumption
  <1>1. sq[h] \in Seq(Entries) /\ Len(sq[h]) \in Nat
    BY LenProperties DEF Laid
  <1>2. h \notin mv
    BY <1>1, EmptySeq DEF Laid
  <1>3. PlaceOf(h, sq[h], i) = sq[h][i] /\ i \in 0 .. Len(sq[h])
    BY <1>1 DEF PlaceOf
  <1>4. m[sq[h][i]].next = PlaceOf(h, sq[h], i + 1)
    BY <1>2, <1>3 DEF Laid, Leads
  <1>5. PlaceOf(h, sq[h], i + 1) # NULL
    BY <1>1, PlacesAreCells DEF Cells
  <1>6. QED
    BY <1>1, <1>2, <1>4, <1>5, ElementOfSeq

\* A list none of whose cells has a new next is led through as before.
LEMMA LeadsOn ==
  ASSUME NEW m, NEW w, NEW h, NEW s, Leads(m, h, s),
         \A i \in 0 .. Len(s) : w[PlaceOf(h, s, i)].next = m[PlaceOf(h, s, i)].next
  PROVE  Leads(w, h, s)
  BY DEF Leads

\* t is s with e behind its first j elements.
Inserted(t, s, j, e) ==
  /\ t \in Seq(Entries) /\ Len(t) = Len(s) + 1
  /\ \A i \in 1 .. j : t[i] = s[i]
  /\ t[j + 1] = e
  /\ \A i \in j + 2 .. Len(s) + 1 : t[i] = s[i - 1]

\* t is s without element j.
Removed(t, s, j) ==
  /\ t \in Seq(Entries) /\ Len(t) = Len(s) - 1
  /\ \A i \in 1 .. j - 1 : t[i] = s[i]
  /\ \A i \in j .. Len(s) - 1 : t[i] = s[i + 1]

\* What InsertAt makes of a sequence.
LEMMA InsertAtFacts ==
  ASSUME NEW s \in Seq(Entries), NEW j \in 0 .. Len(s), NEW e \in Entries
  PROVE  Inserted(Abstract!InsertAt(s, j + 1, e), s, j, e)
  <1> DEFINE a == SubSeq(s, 1, j)
             b == <<e>>
             c == SubSeq(s, j + 1, Len(s))
             d == a \o b
             t == d \o c
  <1>1. Len(s) \in Nat /\ j \in Nat /\ j <= Len(s) /\ \A i \in 1 .. Len(s) : s[i] \in Entries
    BY LenProperties
  <1>2. a \in Seq(Entries) /\ Len(a) = j /\ \A i \in 1 .. j : a[i] = s[i]
    <2>1. \A i \in 1 .. j : s[i] \in Entries
      BY <1>1
    <2>2. /\ a \in Seq(Entries) /\ Len(a) = IF 1 <= j THEN j - 1 + 1 ELSE 0
          /\ \A i \in 1 .. j - 1 + 1 : a[i] = s[1 + i - 1]
      BY <1>1, <2>1, SubSeqProperties
    <2>3. QED
      BY <1>1, <2>2
  <1>3. /\ c \in Seq(Entries) /\ Len(c) = Len(s) - j
        /\ \A i \in 1 .. Len(s) - j : c[i] = s[j + i]
    <2>1. \A i \in j + 1 .. Len(s) : s[i] \in Entries
      BY <1>1
    <2>2. /\ c \in Seq(Entries) /\ Len(c) = IF j + 1 <= Len(s) THEN Len(s) - (j + 1) + 1 ELSE 0
          /\ \A i \in 1 .. Len(s) - (j + 1) + 1 : c[i] = s[j + 1 + i - 1]
      BY <1>1, <2>1, SubSeqProperties
    <2>3. QED
      BY <1>1, <2>2
  <1>4. b \in Seq(Entries) /\ Len(b) = 1 /\ b[1] = e
    OBVIOUS
  <1>5. t = Abstract!InsertAt(s, j + 1, e)
    <2>1. SubSeq(s, 1, (j + 1) - 1) = a
      BY <1>1
    <2>2. Abstract!InsertAt(s, j + 1, e) = SubSeq(s, 1, (j + 1) - 1) \o b \o c
      BY DEF Abstract!InsertAt
    <2> HIDE DEF a, b, c
    <2>3. QED
      BY <2>1, <2>2
  <1> HIDE DEF a, b, c
  <1>6. /\ d \in Seq(Entries) /\ Len(d) = j + 1
        /\ \A i \in 1 .. j : d[i] = s[i]
        /\ d[j + 1] = e
    <2>1. /\ d \in Seq(Entries) /\ Len(d) = Len(a) + Len(b)
          /\ \A i \in 1 .. Len(a) + Len(b) : d[i] = IF i <= Len(a) THEN a[i] ELSE b[i - Len(a)]
      BY <1>2, <1>4, ConcatProperties
    <2>2. QED
      BY <1>1, <1>2, <1>4, <2>1
  <1> HIDE DEF d
  <1>7. /\ t \in Seq(Entries) /\ Len(t) = j + 1 + Len(c)
        /\ \A i \in 1 .. j + 1 + Len(c) : t[i] = IF i <= j + 1 THEN d[i] ELSE c[i - (j + 1)]
    <2>1. /\ t \in Seq(Entries) /\ Len(t) = Len(d) + Len(c)
          /\ \A i \in 1 .. Len(d) + Len(c) : t[i] = IF i <= Len(d) THEN d[i] ELSE c[i - Len(d)]
      BY <1>3, <1>6, ConcatProperties
    <2> HIDE DEF t
    <2>2. QED
      BY <1>6, <2>1
  <1> HIDE DEF t
  <1>8. \A i \in j + 2 .. Len(s) + 1 : t[i] = s[i - 1]
    <2> SUFFICES ASSUME NEW i \in j + 2 .. Len(s) + 1 PROVE t[i] = s[i - 1]
      OBVIOUS
    <2>1. t[i] = c[i - (j + 1)] /\ i - (j + 1) \in 1 .. Len(s) - j
      BY <1>1, <1>3, <1>7
    <2>2. c[i - (j + 1)] = s[j + (i - (j + 1))] /\ j + (i - (j + 1)) = i - 1
      BY <1>1, <1>3, <2>1
    <2>3. QED
      BY <2>1, <2>2
  <1>9. Len(t) = Len(s) + 1 /\ \A i \in 1 .. j + 1 : t[i] = d[i]
    BY <1>1, <1>3, <1>7
  <1>10. (\A i \in 1 .. j : t[i] = s[i]) /\ t[j + 1] = e
    BY <1>1, <1>6, <1>9
  <1>11. Inserted(t, s, j, e)
    BY <1>7, <1>8, <1>9, <1>10 DEF Inserted
  <1>12. QED
    BY <1>5, <1>11

\* What RemoveAt makes of a sequence.
LEMMA RemoveAtFacts ==
  ASSUME NEW s \in Seq(Entries), NEW j \in 1 .. Len(s)
  PROVE  Removed(Abstract!RemoveAt(s, j), s, j)
  <1> DEFINE a == SubSeq(s, 1, j - 1)
             c == SubSeq(s, j + 1, Len(s))
             t == a \o c
  <1>1. Len(s) \in Nat /\ j \in Nat /\ 1 <= j /\ j <= Len(s) /\ \A i \in 1 .. Len(s) : s[i] \in Entries
    BY LenProperties
  <1>2. a \in Seq(Entries) /\ Len(a) = j - 1 /\ \A i \in 1 .. j - 1 : a[i] = s[i]
    <2>1. \A i \in 1 .. j - 1 : s[i] \in Entries
      BY <1>1
    <2>2. /\ a \in Seq(Entries) /\ Len(a) = IF 1 <= j - 1 THEN j - 1 - 1 + 1 ELSE 0
          /\ \A i \in 1 .. j - 1 - 1 + 1 : a[i] = s[1 + i - 1]
      BY <1>1, <2>1, SubSeqProperties
    <2>3. QED
      BY <1>1, <2>2
  <1>3. /\ c \in Seq(Entries) /\ Len(c) = Len(s) - j
        /\ \A i \in 1 .. Len(s) - j : c[i] = s[j + i]
    <2>1. \A i \in j + 1 .. Len(s) : s[i] \in Entries
      BY <1>1
    <2>2. /\ c \in Seq(Entries) /\ Len(c) = IF j + 1 <= Len(s) THEN Len(s) - (j + 1) + 1 ELSE 0
          /\ \A i \in 1 .. Len(s) - (j + 1) + 1 : c[i] = s[j + 1 + i - 1]
      BY <1>1, <2>1, SubSeqProperties
    <2>3. QED
      BY <1>1, <2>2
  <1>4. t = Abstract!RemoveAt(s, j)
    BY DEF Abstract!RemoveAt
  <1> HIDE DEF a, c
  <1>5. /\ t \in Seq(Entries) /\ Len(t) = Len(a) + Len(c)
        /\ \A i \in 1 .. Len(a) + Len(c) : t[i] = IF i <= Len(a) THEN a[i] ELSE c[i - Len(a)]
    BY <1>2, <1>3, ConcatProperties
  <1>6. \A i \in j .. Len(s) - 1 : t[i] = s[i + 1]
    <2> SUFFICES ASSUME NEW i \in j .. Len(s) - 1 PROVE t[i] = s[i + 1]
      OBVIOUS
    <2>1. t[i] = c[i - (j - 1)] /\ i - (j - 1) \in 1 .. Len(s) - j
      BY <1>1, <1>2, <1>3, <1>5
    <2>2. c[i - (j - 1)] = s[j + (i - (j - 1))] /\ j + (i - (j - 1)) = i + 1
      BY <1>1, <1>3, <2>1
    <2>3. QED
      BY <2>1, <2>2
  <1>7. \A i \in 1 .. j - 1 : t[i] = s[i]
    BY <1>1, <1>2, <1>3, <1>5
  <1>8. t \in Seq(Entries) /\ Len(t) = Len(s) - 1
    BY <1>1, <1>2, <1>3, <1>5
  <1> HIDE DEF t
  <1>9. Removed(t, s, j)
    BY <1>6, <1>7, <1>8 DEF Removed
  <1>10. QED
    BY <1>4, <1>9

\* An entry that is linked behind place j of h becomes element j + 1.
LEMMA InsertLaid ==
  ASSUME NEW m, NEW w, NEW mv, NEW sq, Laid(m, mv, sq), NEW h \in Heads \ mv,
         NEW j \in 0 .. Len(sq[h]), NEW e \in Entries, m[e].next = NULL,
         Linking(m, w, e, PlaceOf(h, sq[h], j), PlaceOf(h, sq[h], j + 1))
  PROVE  /\ Laid(w, mv, [sq EXCEPT ![h] = Abstract!InsertAt(sq[h], j + 1, e)])
         /\ \A g \in Heads : \A i \in 1 .. Len(sq[g]) : sq[g][i] # e
  <1> USE ListAssumption
  <1> DEFINE s == sq[h]
             t == Abstract!InsertAt(s, j + 1, e)
             p == PlaceOf(h, s, j)
             x == PlaceOf(h, s, j + 1)
             new == [sq EXCEPT ![h] = t]
  <1>1. sq \in [Heads -> Seq(Entries)] /\ s \in Seq(Entries) /\ Len(s) \in Nat /\ j \in Nat /\ j <= Len(s)
    BY LenProperties DEF Laid
  <1>2. /\ t \in Seq(Entries) /\ Len(t) = Len(s) + 1
        /\ \A i \in 1 .. j : t[i] = s[i]
        /\ t[j + 1] = e
        /\ \A i \in j + 2 .. Len(s) + 1 : t[i] = s[i - 1]
    <2>1. Inserted(t, s, j, e)
      BY <1>1, InsertAtFacts, Zenon
    <2>2. QED
      BY <2>1 DEF Inserted
  <1>3. \A g \in Heads : \A i \in 1 .. Len(sq[g]) : sq[g][i] # e
    BY LaidPoints
  <1>4. \A g \in Heads : \A i \in 0 .. Len(sq[g]) : PlaceOf(g, sq[g], i) # e
    BY <1>3 DEF PlaceOf
  <1>5. /\ w[e].next = x /\ w[p].next = e
        /\ \A c \in Cells \ {e, p} : w[c].next = m[c].next
    BY DEF Linking
  <1>6. new \in [Heads -> Seq(Entries)] /\ new[h] = t /\ \A g \in Heads \ {h} : new[g] = sq[g]
    BY <1>1, <1>2
  <1> HIDE DEF t, new
  <1>7. \A g \in Heads : \A i \in 0 .. Len(sq[g]) : (g # h \/ i # j) =>
           w[PlaceOf(g, sq[g], i)].next = m[PlaceOf(g, sq[g], i)].next
    <2> SUFFICES ASSUME NEW g \in Heads, NEW i \in 0 .. Len(sq[g]), g # h \/ i # j
                 PROVE  w[PlaceOf(g, sq[g], i)].next = m[PlaceOf(g, sq[g], i)].next
      OBVIOUS
    <2>1. PlaceOf(g, sq[g], i) # p
      BY PlacesApart
    <2>2. PlaceOf(g, sq[g], i) \in Cells
      BY <1>1, PlacesAreCells
    <2>3. QED
      BY <2>1, <2>2, <1>4, <1>5
  <1>8. Leads(w, h, t)
    <2> SUFFICES ASSUME NEW k \in 0 .. Len(t) PROVE w[PlaceOf(h, t, k)].next = PlaceOf(h, t, k + 1)
      BY DEF Leads
    <2> HIDE DEF s, p, x
    <2>1. \A i \in 0 .. Len(s) : m[PlaceOf(h, s, i)].next = PlaceOf(h, s, i + 1)
      BY DEF Laid, Leads, s
    <2>2. \A i \in 0 .. j : PlaceOf(h, t, i) = PlaceOf(h, s, i)
      BY <1>1, <1>2 DEF PlaceOf
    <2>3. PlaceOf(h, t, j + 1) = e
      BY <1>1, <1>2 DEF PlaceOf
    <2>4. \A i \in j + 2 .. Len(s) + 2 : PlaceOf(h, t, i) = PlaceOf(h, s, i - 1)
      BY <1>1, <1>2 DEF PlaceOf
    <2>5. \A i \in 0 .. Len(s) : i # j => w[PlaceOf(h, s, i)].next = PlaceOf(h, s, i + 1)
      BY <1>7, <2>1 DEF s
    <2>6. k \in Int /\ 0 <= k /\ k <= Len(s) + 1
      BY <1>1, <1>2
    <2>7. CASE k < j
      <3>1. k \in 0 .. j /\ k + 1 \in 0 .. j /\ k \in 0 .. Len(s) /\ k # j
        BY <1>1, <2>6, <2>7
      <3>2. QED
        BY <2>2, <2>5, <3>1
    <2>8. CASE k = j
      <3>1. PlaceOf(h, t, k) = p
        BY <1>1, <2>2, <2>8 DEF p
      <3>2. QED
        BY <1>5, <2>3, <2>8, <3>1
    <2>9. CASE k = j + 1
      <3>1. k + 1 \in j + 2 .. Len(s) + 2 /\ (k + 1) - 1 = j + 1
        BY <1>1, <2>9
      <3>2. PlaceOf(h, t, k + 1) = x
        BY <2>4, <3>1 DEF x
      <3>3. QED
        BY <1>5, <2>3, <2>9, <3>2
    <2>10. CASE k > j + 1
      <3>1. /\ k \in j + 2 .. Len(s) + 2 /\ k + 1 \in j + 2 .. Len(s) + 2
            /\ k - 1 \in 0 .. Len(s) /\ k - 1 # j /\ (k + 1) - 1 = (k - 1) + 1
        BY <1>1, <2>6, <2>10
      <3>2. PlaceOf(h, t, k) = PlaceOf(h, s, k - 1) /\ PlaceOf(h, t, k + 1) = PlaceOf(h, s, (k - 1) + 1)
        BY <2>4, <3>1
      <3>3. QED
        BY <2>5, <3>1, <3>2
    <2>11. QED
      BY <1>1, <2>6, <2>7, <2>8, <2>9, <2>10
  <1>9. ASSUME NEW g \in Heads \ mv PROVE Leads(w, g, new[g])
    <2>1. CASE g = h
      BY <1>6, <1>8, <2>1
    <2>2. CASE g # h
      <3>1. Leads(m, g, sq[g])
        BY DEF Laid
      <3>2. QED
        BY <1>6, <1>7, <2>2, <3>1, LeadsOn
    <2>3. QED
      BY <2>1, <2>2
  <1>10. ASSUME NEW g \in mv PROVE new[g] = << >>
    BY <1>6 DEF Laid, new
  \* Where an element was before; the new one was nowhere.
  <1> DEFINE Old(i) == IF i <= j THEN i ELSE i - 1
  <1>11. ASSUME NEW g \in Heads, NEW i \in 1 .. Len(new[g])
         PROVE  \/ g = h /\ i = j + 1 /\ new[g][i] = e
                \/ g = h /\ i # j + 1 /\ Old(i) \in 1 .. Len(sq[g]) /\ new[g][i] = sq[g][Old(i)]
                \/ g # h /\ i \in 1 .. Len(sq[g]) /\ new[g][i] = sq[g][i]
    BY <1>1, <1>2, <1>6
  <1>12. ASSUME NEW f \in Heads, NEW g \in Heads, NEW i \in 1 .. Len(new[f]), NEW k \in 1 .. Len(new[g]),
                new[f][i] = new[g][k]
         PROVE  f = g /\ i = k
    <2>1. \A a, b \in Heads : \A u \in 1 .. Len(sq[a]), v \in 1 .. Len(sq[b]) :
             sq[a][u] = sq[b][v] => a = b /\ u = v
      BY DEF Laid
    <2>2. i \in Int /\ k \in Int
      OBVIOUS
    <2>3. PICK u : u = IF f = h THEN Old(i) ELSE i
      OBVIOUS
    <2>4. PICK v : v = IF g = h THEN Old(k) ELSE k
      OBVIOUS
    <2>5. \/ f = h /\ i = j + 1 /\ new[f][i] = e
          \/ u \in 1 .. Len(sq[f]) /\ new[f][i] = sq[f][u] /\ new[f][i] # e /\ (f = h => i # j + 1)
      BY <1>3, <1>11, <2>3
    <2>6. \/ g = h /\ k = j + 1 /\ new[g][k] = e
          \/ v \in 1 .. Len(sq[g]) /\ new[g][k] = sq[g][v] /\ new[g][k] # e /\ (g = h => k # j + 1)
      BY <1>3, <1>11, <2>4
    <2>7. CASE new[f][i] = e
      BY <1>12, <2>5, <2>6, <2>7
    <2>8. CASE new[f][i] # e
      <3>1. /\ u \in 1 .. Len(sq[f]) /\ new[f][i] = sq[f][u] /\ (f = h => i # j + 1)
            /\ v \in 1 .. Len(sq[g]) /\ new[g][k] = sq[g][v] /\ (g = h => k # j + 1)
        BY <1>12, <2>5, <2>6, <2>8
      <3>2. sq[f][u] = sq[g][v]
        BY <1>12, <3>1
      <3> HIDE DEF new
      <3>3. f = g /\ u = v
        BY <2>1, <3>1, <3>2
      <3>4. QED
        BY <1>1, <2>2, <2>3, <2>4, <3>1, <3>3
    <2>9. QED
      BY <2>7, <2>8
  <1>13. ASSUME NEW c \in Entries, w[c].next # NULL
         PROVE  \E g \in Heads : \E i \in 1 .. Len(new[g]) : new[g][i] = c
    <2>1. CASE c = e
      <3>1. j + 1 \in 1 .. Len(new[h]) /\ new[h][j + 1] = e
        BY <1>1, <1>2, <1>6
      <3>2. QED
        BY <2>1, <3>1
    <2>2. CASE c # e
      <3>1. \E g \in Heads : \E i \in 1 .. Len(sq[g]) : sq[g][i] = c
        <4>1. CASE c = p
          <5>1. p = h \/ (j \in 1 .. Len(sq[h]) /\ p = sq[h][j])
            BY DEF PlaceOf
          <5>2. QED
            BY <4>1, <5>1
        <4>2. CASE c # p
          BY <1>5, <1>13, <2>2, <4>2 DEF Cells, Laid
        <4>3. QED
          BY <4>1, <4>2
      <3>2. PICK g \in Heads : \E i \in 1 .. Len(sq[g]) : sq[g][i] = c
        BY <3>1
      <3>3. PICK i \in 1 .. Len(sq[g]) : sq[g][i] = c
        BY <3>2
      <3>4. CASE g # h
        BY <1>6, <3>2, <3>4
      <3>5. CASE g = h /\ i <= j
        <4>1. i \in 1 .. Len(new[g]) /\ new[g][i] = c
          BY <1>1, <1>2, <1>6, <3>3, <3>5
        <4>2. QED
          BY <4>1
      <3>6. CASE g = h /\ i > j
        <4>1. i + 1 \in 1 .. Len(new[g]) /\ i + 1 \in j + 2 .. Len(s) + 1 /\ (i + 1) - 1 = i
          BY <1>1, <1>2, <1>6, <3>6
        <4>2. new[g][i + 1] = c
          BY <1>2, <1>6, <3>3, <3>6, <4>1
        <4>3. QED
          BY <4>1, <4>2
      <3>7. QED
        BY <1>1, <3>4, <3>5, <3>6
    <2>3. QED
      BY <2>1, <2>2
  <1>14. Laid(w, mv, new)
    BY <1>6, <1>9, <1>10, <1>12, <1>13 DEF Laid
  <1>15. QED
    BY <1>3, <1>14 DEF new, t

\* The entry at place j of h leaves its list.
LEMMA RemoveLaid ==
  ASSUME NEW m, NEW w, NEW mv, NEW sq, Laid(m, mv, sq), NEW h \in Heads,
         NEW j \in 1 .. Len(sq[h]),
         Unlinking(m, w, sq[h][j], PlaceOf(h, sq[h], j - 1), PlaceOf(h, sq[h], j + 1))
  PROVE  Laid(w, mv, [sq EXCEPT ![h] = Abstract!RemoveAt(sq[h], j)])
  <1> USE ListAssumption
  <1> DEFINE s == sq[h]
             e == s[j]
             t == Abstract!RemoveAt(s, j)
             p == PlaceOf(h, s, j - 1)
             x == PlaceOf(h, s, j + 1)
             new == [sq EXCEPT ![h] = t]
  <1>1. /\ sq \in [Heads -> Seq(Entries)] /\ s \in Seq(Entries) /\ Len(s) \in Nat /\ j \in Nat /\ 1 <= j /\ j <= Len(s)
        /\ h \notin mv /\ e \in Entries
    BY LenProperties, LaidPoints DEF Laid
  <1>2. /\ t \in Seq(Entries) /\ Len(t) = Len(s) - 1
        /\ \A i \in 1 .. j - 1 : t[i] = s[i]
        /\ \A i \in j .. Len(s) - 1 : t[i] = s[i + 1]
    <2>1. Removed(t, s, j)
      BY <1>1, RemoveAtFacts, Zenon
    <2>2. QED
      BY <2>1 DEF Removed
  <1>3. /\ w[e].next = NULL /\ w[p].next = x
        /\ \A c \in Cells \ {e, p} : w[c].next = m[c].next
    BY DEF Unlinking
  <1>4. new \in [Heads -> Seq(Entries)] /\ new[h] = t /\ \A g \in Heads \ {h} : new[g] = sq[g]
    BY <1>1, <1>2
  <1> HIDE DEF t, new
  <1>5. e = PlaceOf(h, s, j) /\ j \in 0 .. Len(s) /\ j - 1 \in 0 .. Len(s)
    BY <1>1 DEF PlaceOf
  <1>6. \A g \in Heads : \A i \in 0 .. Len(sq[g]) : (g # h \/ (i # j /\ i # j - 1)) =>
           w[PlaceOf(g, sq[g], i)].next = m[PlaceOf(g, sq[g], i)].next
    <2> SUFFICES ASSUME NEW g \in Heads, NEW i \in 0 .. Len(sq[g]), g # h \/ (i # j /\ i # j - 1)
                 PROVE  w[PlaceOf(g, sq[g], i)].next = m[PlaceOf(g, sq[g], i)].next
      OBVIOUS
    <2>1. PlaceOf(g, sq[g], i) # p
      BY <1>5, PlacesApart
    <2>2. PlaceOf(g, sq[g], i) # e
      BY <1>5, PlacesApart
    <2>3. PlaceOf(g, sq[g], i) \in Cells
      BY <1>1, PlacesAreCells
    <2>4. QED
      BY <2>1, <2>2, <2>3, <1>3
  <1>7. Leads(w, h, t)
    <2> SUFFICES ASSUME NEW k \in 0 .. Len(t) PROVE w[PlaceOf(h, t, k)].next = PlaceOf(h, t, k + 1)
      BY DEF Leads
    <2> HIDE DEF s, p, x, e
    <2>1. \A i \in 0 .. Len(s) : m[PlaceOf(h, s, i)].next = PlaceOf(h, s, i + 1)
      BY <1>1 DEF Laid, Leads, s
    <2>2. \A i \in 0 .. j - 1 : PlaceOf(h, t, i) = PlaceOf(h, s, i)
      BY <1>1, <1>2 DEF PlaceOf
    <2>3. \A i \in j .. Len(s) : PlaceOf(h, t, i) = PlaceOf(h, s, i + 1)
      BY <1>1, <1>2 DEF PlaceOf
    <2>4. \A i \in 0 .. Len(s) : i # j /\ i # j - 1 => w[PlaceOf(h, s, i)].next = PlaceOf(h, s, i + 1)
      BY <1>6, <2>1 DEF s
    <2>5. k \in Int /\ 0 <= k /\ k <= Len(s) - 1
      BY <1>1, <1>2
    <2>6. CASE k < j - 1
      <3>1. k \in 0 .. j - 1 /\ k + 1 \in 0 .. j - 1 /\ k \in 0 .. Len(s) /\ k # j /\ k # j - 1
        BY <1>1, <2>5, <2>6
      <3>2. QED
        BY <2>2, <2>4, <3>1
    <2>7. CASE k = j - 1
      <3>1. PlaceOf(h, t, k) = p
        BY <1>1, <2>2, <2>7 DEF p
      <3>2. k + 1 = j /\ j \in j .. Len(s)
        BY <1>1, <2>7
      <3>3. PlaceOf(h, t, k + 1) = x
        BY <2>3, <3>2 DEF x
      <3>4. QED
        BY <1>3, <3>1, <3>3
    <2>8. CASE k > j - 1
      <3>1. k \in j .. Len(s) /\ k + 1 \in j .. Len(s) /\ k + 1 \in 0 .. Len(s) /\ k + 1 # j /\ k + 1 # j - 1
        BY <1>1, <2>5, <2>8
      <3>2. PlaceOf(h, t, k) = PlaceOf(h, s, k + 1) /\ PlaceOf(h, t, k + 1) = PlaceOf(h, s, (k + 1) + 1)
        BY <2>3, <3>1
      <3>3. QED
        BY <2>4, <3>1, <3>2
    <2>9. QED
      BY <1>1, <2>5, <2>6, <2>7, <2>8
  <1>8. ASSUME NEW g \in Heads \ mv PROVE Leads(w, g, new[g])
    <2>1. CASE g = h
      BY <1>4, <1>7, <2>1
    <2>2. CASE g # h
      <3>1. Leads(m, g, sq[g])
        BY DEF Laid
      <3>2. QED
        BY <1>4, <1>6, <2>2, <3>1, LeadsOn
    <2>3. QED
      BY <2>1, <2>2
  <1>9. ASSUME NEW g \in mv PROVE new[g] = << >>
    BY <1>1, <1>4 DEF Laid, new
  \* Where an element was before.
  <1> DEFINE Old(i) == IF i < j THEN i ELSE i + 1
  <1>10. ASSUME NEW g \in Heads, NEW i \in 1 .. Len(new[g])
         PROVE  \/ g = h /\ Old(i) \in 1 .. Len(sq[g]) /\ new[g][i] = sq[g][Old(i)]
                \/ g # h /\ i \in 1 .. Len(sq[g]) /\ new[g][i] = sq[g][i]
    BY <1>1, <1>2, <1>4
  <1>11. ASSUME NEW f \in Heads, NEW g \in Heads, NEW i \in 1 .. Len(new[f]), NEW k \in 1 .. Len(new[g]),
                new[f][i] = new[g][k]
         PROVE  f = g /\ i = k
    <2>1. \A a, b \in Heads : \A u \in 1 .. Len(sq[a]), v \in 1 .. Len(sq[b]) :
             sq[a][u] = sq[b][v] => a = b /\ u = v
      BY DEF Laid
    <2>2. i \in Int /\ k \in Int
      OBVIOUS
    <2>3. PICK u : u = IF f = h THEN Old(i) ELSE i
      OBVIOUS
    <2>4. PICK v : v = IF g = h THEN Old(k) ELSE k
      OBVIOUS
    <2>5. u \in 1 .. Len(sq[f]) /\ new[f][i] = sq[f][u]
      BY <1>10, <2>3
    <2>6. v \in 1 .. Len(sq[g]) /\ new[g][k] = sq[g][v]
      BY <1>10, <2>4
    <2>7. f = g /\ u = v
      <3>1. sq[f][u] = sq[g][v]
        BY <1>11, <2>5, <2>6
      <3>2. QED
        BY <2>5, <2>6, <3>1, OnePlace
    <2>8. QED
      BY <1>1, <2>2, <2>3, <2>4, <2>7
  <1>12. ASSUME NEW c \in Entries, w[c].next # NULL
         PROVE  \E g \in Heads : \E i \in 1 .. Len(new[g]) : new[g][i] = c
    <2>1. c # e
      BY <1>3, <1>12
    <2>2. \E g \in Heads : \E i \in 1 .. Len(sq[g]) : sq[g][i] = c
      <3>1. CASE c = p
        <4>1. p = h \/ (j - 1 \in 1 .. Len(sq[h]) /\ p = sq[h][j - 1])
          BY DEF PlaceOf
        <4>2. QED
          BY <3>1, <4>1
      <3>2. CASE c # p
        BY <1>3, <1>12, <2>1, <3>2 DEF Cells, Laid
      <3>3. QED
        BY <3>1, <3>2
    <2>3. PICK g \in Heads : \E i \in 1 .. Len(sq[g]) : sq[g][i] = c
      BY <2>2
    <2>4. PICK i \in 1 .. Len(sq[g]) : sq[g][i] = c
      BY <2>3
    <2>5. CASE g # h
      BY <1>4, <2>4, <2>5
    <2>6. CASE g = h /\ i < j
      <3>1. i \in 1 .. Len(new[g]) /\ new[g][i] = c
        BY <1>1, <1>2, <1>4, <2>4, <2>6
      <3>2. QED
        BY <3>1
    <2>7. CASE g = h /\ i > j
      <3>1. i - 1 \in 1 .. Len(new[g]) /\ i - 1 \in j .. Len(s) - 1 /\ (i - 1) + 1 = i
        BY <1>1, <1>2, <1>4, <2>7
      <3>2. new[g][i - 1] = c
        BY <1>2, <1>4, <2>4, <2>7, <3>1
      <3>3. QED
        BY <3>1, <3>2
    <2>8. CASE g = h /\ i = j
      BY <2>1, <2>4, <2>8
    <2>9. QED
      BY <1>1, <2>5, <2>6, <2>7, <2>8
  <1>13. Laid(w, mv, new)
    BY <1>4, <1>8, <1>9, <1>11, <1>12 DEF Laid
  <1>14. QED
    BY <1>13 DEF new, t

\* The list of l goes behind the one of h; unless it is empty next was written at two places.
LEMMA ConcatLaid ==
  ASSUME NEW m, NEW w, NEW mv, NEW sq, Laid(m, mv, sq), mv \subseteq Heads,
         NEW l \in Heads \ mv, NEW h \in Heads \ mv, l # h,
         sq[l] # << >> =>
           /\ w[PlaceOf(h, sq[h], Len(sq[h]))].next = PlaceOf(l, sq[l], 1)
           /\ w[PlaceOf(l, sq[l], Len(sq[l]))].next = h,
         \A c \in Cells : w[c].next # m[c].next =>
           /\ sq[l] # << >>
           /\ c \in {PlaceOf(h, sq[h], Len(sq[h])), PlaceOf(l, sq[l], Len(sq[l]))}
  PROVE  Laid(w, mv \cup {l}, [sq EXCEPT ![h] = sq[h] \o sq[l], ![l] = << >>])
  <1> USE ListAssumption
  <1> DEFINE s == sq[h]
             r == sq[l]
             t == s \o r
             new == [sq EXCEPT ![h] = t, ![l] = << >>]
  <1>1. /\ sq \in [Heads -> Seq(Entries)] /\ s \in Seq(Entries) /\ Len(s) \in Nat
        /\ r \in Seq(Entries) /\ Len(r) \in Nat /\ (r # << >> <=> Len(r) # 0)
    BY LenProperties, EmptySeq DEF Laid
  <1>2. /\ t \in Seq(Entries) /\ Len(t) = Len(s) + Len(r)
        /\ \A i \in 1 .. Len(s) : t[i] = s[i]
        /\ \A i \in 1 .. Len(r) : t[Len(s) + i] = r[i]
    <2>1. \A i \in 1 .. Len(s) + Len(r) : t[i] = IF i <= Len(s) THEN s[i] ELSE r[i - Len(s)]
      BY <1>1, ConcatProperties
    <2>2. t \in Seq(Entries) /\ Len(t) = Len(s) + Len(r)
      BY <1>1, ConcatProperties
    <2> HIDE DEF t, s, r
    <2>3. ASSUME NEW i \in 1 .. Len(r) PROVE t[Len(s) + i] = r[i]
      <3>1. Len(s) + i \in 1 .. Len(s) + Len(r) /\ ~ (Len(s) + i <= Len(s)) /\ (Len(s) + i) - Len(s) = i
        BY <1>1
      <3>2. QED
        BY <2>1, <3>1
    <2>4. ASSUME NEW i \in 1 .. Len(s) PROVE t[i] = s[i]
      <3>1. i \in 1 .. Len(s) + Len(r) /\ i <= Len(s)
        BY <1>1
      <3>2. QED
        BY <2>1, <3>1
    <2>5. \A i \in 1 .. Len(r) : t[Len(s) + i] = r[i]
      BY <2>3
    <2>6. QED
      BY <2>2, <2>4, <2>5, Zenon
  <1>3. new \in [Heads -> Seq(Entries)] /\ new[h] = t /\ new[l] = << >> /\ \A g \in Heads \ {h, l} : new[g] = sq[g]
    BY <1>1, <1>2, EmptySeq
  <1> HIDE DEF t, new
  <1>4. \A g \in Heads : \A i \in 0 .. Len(sq[g]) :
           r = << >> \/ ~ (g \in {h, l} /\ i = Len(sq[g])) =>
             w[PlaceOf(g, sq[g], i)].next = m[PlaceOf(g, sq[g], i)].next
    <2> SUFFICES ASSUME NEW g \in Heads, NEW i \in 0 .. Len(sq[g]), r = << >> \/ ~ (g \in {h, l} /\ i = Len(sq[g]))
                 PROVE  w[PlaceOf(g, sq[g], i)].next = m[PlaceOf(g, sq[g], i)].next
      OBVIOUS
    <2>1. PlaceOf(g, sq[g], i) \in Cells
      BY <1>1, PlacesAreCells
    <2>2. CASE r = << >>
      BY <2>1, <2>2
    <2>3. CASE ~ (g \in {h, l} /\ i = Len(sq[g]))
      <3>1. Len(s) \in 0 .. Len(s) /\ Len(r) \in 0 .. Len(r)
        BY <1>1
      <3>2. PlaceOf(g, sq[g], i) # PlaceOf(h, s, Len(s)) /\ PlaceOf(g, sq[g], i) # PlaceOf(l, r, Len(r))
        BY <2>3, <3>1, PlacesApart
      <3>3. QED
        BY <2>1, <3>2
    <2>4. QED
      BY <2>2, <2>3
  <1>5. Leads(w, h, t)
    <2> SUFFICES ASSUME NEW k \in 0 .. Len(t) PROVE w[PlaceOf(h, t, k)].next = PlaceOf(h, t, k + 1)
      BY DEF Leads
    <2>1. \A i \in 0 .. Len(s) : m[PlaceOf(h, s, i)].next = PlaceOf(h, s, i + 1)
      BY DEF Laid, Leads
    <2>2. \A i \in 0 .. Len(r) : m[PlaceOf(l, r, i)].next = PlaceOf(l, r, i + 1)
      BY DEF Laid, Leads
    <2>3. \A i \in 0 .. Len(s) : (r = << >> \/ i # Len(s)) => w[PlaceOf(h, s, i)].next = PlaceOf(h, s, i + 1)
      BY <1>4, <2>1
    <2>4. \A i \in 0 .. Len(r) : i # Len(r) => w[PlaceOf(l, r, i)].next = PlaceOf(l, r, i + 1)
      BY <1>4, <2>2
    <2>5. Len(r) # 0 => w[PlaceOf(h, s, Len(s))].next = PlaceOf(l, r, 1) /\ w[PlaceOf(l, r, Len(r))].next = h
      BY <1>1
    <2> HIDE DEF s, r
    <2>6. \A i \in 0 .. Len(s) : PlaceOf(h, t, i) = PlaceOf(h, s, i)
      BY <1>1, <1>2 DEF PlaceOf
    <2>7. \A i \in 1 .. Len(r) : PlaceOf(h, t, Len(s) + i) = PlaceOf(l, r, i)
      BY <1>1, <1>2 DEF PlaceOf
    <2>8. PlaceOf(h, t, Len(t) + 1) = h /\ PlaceOf(h, s, Len(s) + 1) = h
      BY <1>1, <1>2 DEF PlaceOf
    <2>9. k \in Int /\ 0 <= k /\ k <= Len(s) + Len(r) /\ Len(t) = Len(s) + Len(r) /\ Len(s) \in Nat /\ Len(r) \in Nat
      BY <1>1, <1>2
    <2>10. CASE k < Len(s)
      <3>1. k \in 0 .. Len(s) /\ k + 1 \in 0 .. Len(s) /\ k # Len(s)
        BY <1>1, <2>9, <2>10
      <3>2. QED
        BY <2>3, <2>6, <3>1
    <2>11. CASE k = Len(s) /\ Len(r) = 0
      <3>1. k \in 0 .. Len(s) /\ k = Len(t) /\ r = << >>
        BY <1>1, <1>2, <2>11
      <3>2. PlaceOf(h, t, k) = PlaceOf(h, s, k) /\ w[PlaceOf(h, s, k)].next = PlaceOf(h, s, k + 1)
        BY <2>3, <2>6, <3>1
      <3>3. QED
        BY <2>8, <2>11, <3>1, <3>2
    <2>12. CASE k = Len(s) /\ Len(r) # 0
      <3>1. k \in 0 .. Len(s) /\ 1 \in 1 .. Len(r)
        BY <1>1, <2>12
      <3>2. QED
        BY <2>5, <2>6, <2>7, <2>12, <3>1
    <2>13. CASE k > Len(s) /\ k < Len(t)
      <3> DEFINE i == k - Len(s)
      <3>1. /\ i \in 1 .. Len(r) /\ i + 1 \in 1 .. Len(r) /\ i \in 0 .. Len(r) /\ i # Len(r)
            /\ Len(s) + i = k /\ Len(s) + (i + 1) = k + 1
        BY <1>1, <1>2, <2>9, <2>13
      <3> HIDE DEF i
      <3>2. PlaceOf(h, t, k) = PlaceOf(l, r, i) /\ PlaceOf(h, t, k + 1) = PlaceOf(l, r, i + 1)
        BY <2>7, <3>1
      <3>3. QED
        BY <2>4, <3>1, <3>2
    <2>14. CASE k > Len(s) /\ k = Len(t)
      <3>1. Len(r) \in 1 .. Len(r) /\ Len(r) # 0 /\ Len(s) + Len(r) = k
        BY <1>1, <1>2, <2>9, <2>14
      <3>2. PlaceOf(h, t, k) = PlaceOf(l, r, Len(r))
        BY <2>7, <3>1
      <3>3. QED
        BY <2>5, <2>8, <2>14, <3>1, <3>2
    <2>15. k < Len(s) \/ k = Len(s) \/ (k > Len(s) /\ (k < Len(t) \/ k = Len(t)))
      BY <2>9
    <2>16. QED
      BY <2>10, <2>11, <2>12, <2>13, <2>14, <2>15, Zenon
  <1>6. ASSUME NEW g \in Heads \ (mv \cup {l}) PROVE Leads(w, g, new[g])
    <2>1. CASE g = h
      BY <1>3, <1>5, <2>1
    <2>2. CASE g # h
      <3>1. Leads(m, g, sq[g])
        BY DEF Laid
      <3>2. \A i \in 0 .. Len(sq[g]) : w[PlaceOf(g, sq[g], i)].next = m[PlaceOf(g, sq[g], i)].next
        BY <1>4, <2>2
      <3>3. QED
        BY <1>3, <2>2, <3>1, <3>2, LeadsOn
    <2>3. QED
      BY <2>1, <2>2
  <1>7. ASSUME NEW g \in mv \cup {l} PROVE new[g] = << >>
    <2>1. g # l => g \in Heads \ {h, l} /\ sq[g] = << >>
      BY DEF Laid
    <2>2. QED
      BY <1>3, <2>1
  \* Where an element was before.
  <1>8. ASSUME NEW g \in Heads, NEW i \in 1 .. Len(new[g])
        PROVE  \/ g = h /\ i <= Len(s) /\ i \in 1 .. Len(s) /\ new[g][i] = sq[h][i]
               \/ g = h /\ i > Len(s) /\ i - Len(s) \in 1 .. Len(r) /\ new[g][i] = sq[l][i - Len(s)]
               \/ g \notin {h, l} /\ i \in 1 .. Len(sq[g]) /\ new[g][i] = sq[g][i]
    <2>1. CASE g = l
      BY <1>3, <2>1, EmptySeq
    <2>2. CASE g \notin {h, l}
      BY <1>3, <2>2
    <2>3. CASE g = h /\ i <= Len(s)
      BY <1>1, <1>2, <1>3, <2>3
    <2>4. CASE g = h /\ i > Len(s)
      <3>1. i - Len(s) \in 1 .. Len(r) /\ Len(s) + (i - Len(s)) = i
        BY <1>1, <1>2, <1>3, <2>4
      <3>2. QED
        BY <1>2, <1>3, <2>4, <3>1
    <2>5. QED
      BY <1>1, <2>1, <2>2, <2>3, <2>4
  <1>9. ASSUME NEW f \in Heads, NEW g \in Heads, NEW i \in 1 .. Len(new[f]), NEW k \in 1 .. Len(new[g]),
               new[f][i] = new[g][k]
        PROVE  f = g /\ i = k
    <2>1. \A a, b \in Heads : \A u \in 1 .. Len(sq[a]), v \in 1 .. Len(sq[b]) :
             sq[a][u] = sq[b][v] => a = b /\ u = v
      BY DEF Laid
    <2>2. i \in Int /\ k \in Int
      OBVIOUS
    <2>3. PICK a, u : /\ a = IF f = h /\ i > Len(s) THEN l ELSE f
                      /\ u = IF f = h /\ i > Len(s) THEN i - Len(s) ELSE i
      OBVIOUS
    <2>4. PICK b, v : /\ b = IF g = h /\ k > Len(s) THEN l ELSE g
                      /\ v = IF g = h /\ k > Len(s) THEN k - Len(s) ELSE k
      OBVIOUS
    <2>5. f # l /\ g # l
      BY <1>8
    <2>6. a \in Heads /\ u \in 1 .. Len(sq[a]) /\ new[f][i] = sq[a][u]
      BY <1>1, <1>8, <2>2, <2>3
    <2>7. b \in Heads /\ v \in 1 .. Len(sq[b]) /\ new[g][k] = sq[b][v]
      BY <1>1, <1>8, <2>2, <2>4
    <2>8. a = b /\ u = v
      <3>1. sq[a][u] = sq[b][v]
        BY <1>9, <2>6, <2>7
      <3>2. QED
        BY <2>6, <2>7, <3>1, OnePlace
    <2>9. QED
      BY <1>1, <2>2, <2>3, <2>4, <2>5, <2>8
  <1>10. ASSUME NEW c \in Entries, w[c].next # NULL
         PROVE  \E g \in Heads : \E i \in 1 .. Len(new[g]) : new[g][i] = c
    <2>1. \E g \in Heads : \E i \in 1 .. Len(sq[g]) : sq[g][i] = c
      <3>1. CASE w[c].next = m[c].next
        BY <1>10, <3>1 DEF Laid
      <3>2. CASE w[c].next # m[c].next
        <4>1. c \in {PlaceOf(h, s, Len(s)), PlaceOf(l, r, Len(r))}
          BY <3>2 DEF Cells
        <4>2. QED
          BY <4>1 DEF PlaceOf
      <3>3. QED
        BY <3>1, <3>2
    <2>2. PICK g \in Heads : \E i \in 1 .. Len(sq[g]) : sq[g][i] = c
      BY <2>1
    <2>3. PICK i \in 1 .. Len(sq[g]) : sq[g][i] = c
      BY <2>2
    <2>4. CASE g \notin {h, l}
      BY <1>3, <2>3, <2>4
    <2>5. CASE g = h
      <3>1. i \in 1 .. Len(new[h]) /\ new[h][i] = c
        BY <1>1, <1>2, <1>3, <2>3, <2>5
      <3>2. QED
        BY <3>1
    <2>6. CASE g = l
      <3>1. Len(s) + i \in 1 .. Len(new[h]) /\ new[h][Len(s) + i] = c
        BY <1>1, <1>2, <1>3, <2>3, <2>6
      <3>2. QED
        BY <3>1
    <2>7. QED
      BY <2>4, <2>5, <2>6
  <1>11. Laid(w, mv \cup {l}, new)
    BY <1>3, <1>6, <1>7, <1>9, <1>10 DEF Laid
  <1>12. QED
    BY <1>11 DEF new, t

\* A head that was moved away is initialised: it has an empty list, as before.
LEMMA EmptyLaid ==
  ASSUME NEW m, NEW w, NEW mv, NEW sq, Laid(m, mv, sq), NEW h \in mv, mv \subseteq Heads,
         w[h].next = h, \A c \in Cells \ {h} : w[c].next = m[c].next
  PROVE  Laid(w, mv \ {h}, sq)
  <1> USE ListAssumption
  <1>1. sq \in [Heads -> Seq(Entries)] /\ sq[h] = << >> /\ h \in Heads
    BY DEF Laid
  <1>2. ASSUME NEW g \in Heads \ (mv \ {h}) PROVE Leads(w, g, sq[g])
    <2>1. CASE g = h
      <3>1. Len(sq[h]) = 0 /\ \A i : PlaceOf(h, sq[h], i) = h
        BY <1>1, EmptySeq DEF PlaceOf
      <3>2. QED
        BY <2>1, <3>1 DEF Leads
    <2>2. CASE g # h
      <3>1. Leads(m, g, sq[g])
        BY <2>2 DEF Laid
      <3>2. \A i : PlaceOf(g, sq[g], i) \in Cells \ {h}
        BY <1>1, <2>2, ElementOfSeq DEF PlaceOf, Cells
      <3>3. QED
        BY <3>1, <3>2, LeadsOn
    <2>3. QED
      BY <2>1, <2>2
  <1>3. \A e \in Entries : w[e].next = m[e].next
    BY <1>1 DEF Cells
  <1>4. QED
    BY <1>2, <1>3 DEF Laid

\* The linked cells are the places of the lists.
LEMMA LinkedIsPlaced ==
  ASSUME ListInv, NEW sq, Laid(mem, moved, sq), NEW c \in Linked
  PROVE  \E h \in Heads \ moved : \E i \in 0 .. Len(sq[h]) : c = PlaceOf(h, sq[h], i)
  <1> USE ListAssumption
  <1>1. CASE c \in Heads
    <2>1. c \in Heads \ moved /\ Len(sq[c]) \in Nat
      BY <1>1, LinkedFacts, LenProperties DEF Laid
    <2>2. 0 \in 0 .. Len(sq[c]) /\ PlaceOf(c, sq[c], 0) = c
      BY <2>1 DEF PlaceOf
    <2>3. QED
      BY <2>1, <2>2
  <1>2. CASE c \notin Heads
    <2>1. c \in Entries /\ mem[c].next # NULL
      BY <1>2, LinkedFacts DEF Cells
    <2>2. PICK h \in Heads : \E i \in 1 .. Len(sq[h]) : sq[h][i] = c
      BY <2>1 DEF Laid
    <2>3. PICK i \in 1 .. Len(sq[h]) : sq[h][i] = c
      BY <2>2
    <2>4. h \in Heads \ moved /\ Len(sq[h]) \in Nat
      BY LaidPoints, LenProperties DEF Laid
    <2>5. i \in 0 .. Len(sq[h]) /\ c = PlaceOf(h, sq[h], i)
      BY <2>3, <2>4 DEF PlaceOf
    <2>6. QED
      BY <2>4, <2>5
  <1>3. QED
    BY <1>1, <1>2

\* And the other way round.
LEMMA PlacedIsLinked ==
  ASSUME ListInv, NEW sq, Laid(mem, moved, sq), NEW h \in Usable, NEW i \in 0 .. Len(sq[h])
  PROVE  PlaceOf(h, sq[h], i) \in Linked
  <1>1. h \in Heads /\ h \in Linked
    BY LinkedFacts
  <1>2. CASE i \in 1 .. Len(sq[h])
    BY <1>1, <1>2, LaidPoints, LinkedFacts DEF PlaceOf
  <1>3. CASE i \notin 1 .. Len(sq[h])
    BY <1>1, <1>3 DEF PlaceOf
  <1>4. QED
    BY <1>2, <1>3

\* prev leads back: from a place to the one before it, and from the head to the last one.
LEMMA PrevLeadsBack ==
  ASSUME ListInv, NEW sq, Laid(mem, moved, sq), NEW h \in Usable, NEW i \in 0 .. Len(sq[h])
  PROVE  mem[PlaceOf(h, sq[h], i)].next = PlaceOf(h, sq[h], i + 1)
         /\ mem[PlaceOf(h, sq[h], i + 1)].prev = PlaceOf(h, sq[h], i)
  <1>1. h \in Heads \ moved
    BY DEF Usable
  <1>2. mem[PlaceOf(h, sq[h], i)].next = PlaceOf(h, sq[h], i + 1)
    BY <1>1 DEF Laid, Leads
  <1>3. PlaceOf(h, sq[h], i) \in Linked
    BY PlacedIsLinked
  <1>4. QED
    BY <1>2, <1>3 DEF ListInv, Mirror

\* What a step may do to the sequences: insert a free entry, delete one, move a list, or nothing.
Inserts(sq, new) ==
  \E h \in Heads, e \in Entries : \E i \in 1 .. Len(sq[h]) + 1 :
    /\ \A g \in Heads : \A k \in 1 .. Len(sq[g]) : sq[g][k] # e
    /\ new = [sq EXCEPT ![h] = Abstract!InsertAt(sq[h], i, e)]

Deletes(sq, new) ==
  \E h \in Heads : \E i \in 1 .. Len(sq[h]) : new = [sq EXCEPT ![h] = Abstract!RemoveAt(sq[h], i)]

Moves(sq, new) ==
  \E l, h \in Heads : l # h /\ new = [sq EXCEPT ![h] = sq[h] \o sq[l], ![l] = << >>]

Edited(sq, new) == new = sq \/ Inserts(sq, new) \/ Deletes(sq, new) \/ Moves(sq, new)

\* A free entry is put behind a linked cell.
LEMMA LinkEdits ==
  ASSUME ListInv, NEW sq, Laid(mem, moved, sq), NEW e \in Free, NEW p \in Linked,
         mem' = LinkBetween(mem, e, p, mem[p].next), moved' = moved
  PROVE  \E new : Laid(mem, moved, new)' /\ Edited(sq, new)
  <1> USE ListAssumption
  <1>1. PICK h \in Heads \ moved : \E i \in 0 .. Len(sq[h]) : p = PlaceOf(h, sq[h], i)
    BY LinkedIsPlaced
  <1>2. PICK j \in 0 .. Len(sq[h]) : p = PlaceOf(h, sq[h], j)
    BY <1>1
  <1>3. e \in Entries /\ e \notin Linked /\ mem[e].next = NULL
    <2>1. e \in Entries /\ e \notin Linked
      BY DEF Free, Linked, Usable
    <2>2. QED
      BY <2>1, LinkedFacts
  <1>4. mem[p].next = PlaceOf(h, sq[h], j + 1) /\ mem[p].next \in Linked
    BY <1>1, <1>2, PrevLeadsBack DEF Usable, ListInv, Mirror
  <1>5. Linking(mem, mem', e, p, mem[p].next)
    BY <1>3, <1>4, LinkBetweenFacts, LinkedFacts DEF ListInv, ListTypeOK, Memory, Cells
  <1>6. /\ Laid(mem', moved, [sq EXCEPT ![h] = Abstract!InsertAt(sq[h], j + 1, e)])
        /\ \A g \in Heads : \A k \in 1 .. Len(sq[g]) : sq[g][k] # e
    <2>1. Linking(mem, mem', e, PlaceOf(h, sq[h], j), PlaceOf(h, sq[h], j + 1))
      BY <1>2, <1>4, <1>5, Zenon
    <2>2. QED
      BY <1>1, <1>3, <2>1, InsertLaid, Zenon
  <1>7. j + 1 \in 1 .. Len(sq[h]) + 1
    BY LenProperties DEF Laid
  <1>8. Edited(sq, [sq EXCEPT ![h] = Abstract!InsertAt(sq[h], j + 1, e)])
    BY <1>3, <1>6, <1>7, Zenon DEF Edited, Inserts
  <1>9. QED
    BY <1>6, <1>8

\* A linked entry is deleted.
LEMMA DelEdits ==
  ASSUME ListInv, NEW sq, Laid(mem, moved, sq), NEW e \in Entries \ Free,
         mem' = mk_list_del(mem, e), moved' = moved
  PROVE  \E new : Laid(mem, moved, new)' /\ Edited(sq, new)
  <1> USE ListAssumption
  <1>1. e \in Entries /\ e \in Linked /\ e \in Cells /\ mem[e].next # NULL
    <2>1. e \in Entries /\ e \in Linked
      BY DEF Linked
    <2>2. QED
      BY <2>1, LinkedFacts DEF Cells
  <1>2. PICK h \in Heads : \E i \in 1 .. Len(sq[h]) : sq[h][i] = e
    BY <1>1 DEF Laid
  <1>3. PICK j \in 1 .. Len(sq[h]) : sq[h][j] = e
    BY <1>2
  <1>4. h \in Usable /\ Len(sq[h]) \in Nat
    BY LaidPoints, LenProperties DEF Laid, Usable
  <1>5. j \in 0 .. Len(sq[h]) /\ j - 1 \in 0 .. Len(sq[h]) /\ (j - 1) + 1 = j /\ PlaceOf(h, sq[h], j) = e
    BY <1>3, <1>4 DEF PlaceOf
  <1>6. mem[e].prev = PlaceOf(h, sq[h], j - 1) /\ mem[e].next = PlaceOf(h, sq[h], j + 1)
    BY <1>4, <1>5, PrevLeadsBack
  <1>7. mem[e].prev \in Linked /\ mem[e].next \in Linked /\ mem[mem[e].prev].next = e
    BY <1>1 DEF ListInv, Mirror
  <1>8. e # mem[e].next /\ e # mem[e].prev
    BY <1>1, <1>7, NotAlone DEF ListInv
  <1>9. Unlinking(mem, mem', e, mem[e].prev, mem[e].next)
    BY <1>1, <1>7, <1>8, DelFacts, LinkedFacts DEF ListInv, ListTypeOK, Memory
  <1>10. Laid(mem', moved, [sq EXCEPT ![h] = Abstract!RemoveAt(sq[h], j)])
    <2>1. Unlinking(mem, mem', sq[h][j], PlaceOf(h, sq[h], j - 1), PlaceOf(h, sq[h], j + 1))
      BY <1>3, <1>6, <1>9, Zenon
    <2>2. QED
      BY <2>1, RemoveLaid, Zenon
  <1>11. Edited(sq, [sq EXCEPT ![h] = Abstract!RemoveAt(sq[h], j)])
    BY Zenon DEF Edited, Deletes
  <1>12. QED
    BY <1>10, <1>11

\* A list is moved behind another one.
LEMMA CatEdits ==
  ASSUME ListInv, NEW sq, Laid(mem, moved, sq), NEW l \in Usable, NEW h \in Usable, l # h,
         mem' = mk_list_cat(mem, l, h), moved' = moved \cup {l}
  PROVE  \E new : Laid(mem, moved, new)' /\ Edited(sq, new)
  <1> USE ListAssumption
  <1> DEFINE a == PlaceOf(h, sq[h], Len(sq[h]))
             f == PlaceOf(l, sq[l], 1)
             z == PlaceOf(l, sq[l], Len(sq[l]))
  <1>1. /\ l \in Heads /\ h \in Heads /\ l \notin moved /\ h \notin moved /\ l \in Cells /\ h \in Cells
        /\ Len(sq[l]) \in Nat /\ Len(sq[h]) \in Nat /\ mem \in Memory /\ moved \subseteq Heads
        /\ sq[l] \in Seq(Entries) /\ sq[h] \in Seq(Entries)
    BY LenProperties DEF Usable, Laid, ListInv, ListTypeOK, Memory, Cells
  <1>2. /\ 0 \in 0 .. Len(sq[l]) /\ Len(sq[l]) \in 0 .. Len(sq[l]) /\ Len(sq[h]) \in 0 .. Len(sq[h])
        /\ PlaceOf(l, sq[l], 0) = l /\ PlaceOf(l, sq[l], Len(sq[l]) + 1) = l
        /\ PlaceOf(h, sq[h], Len(sq[h]) + 1) = h /\ 0 + 1 = 1
    BY <1>1 DEF PlaceOf
  <1>3. mem[h].prev = a /\ mem[l].next = f /\ mem[l].prev = z /\ mem[a].next = h
    BY <1>2, PrevLeadsBack
  <1>4. a \in Cells /\ f \in Cells /\ z \in Cells
    BY <1>1, PlacesAreCells
  <1>5. a # l /\ a # z
    BY <1>1, <1>2, PlacesApart
  <1> HIDE DEF a, z
  <1>6. CASE sq[l] = << >>
    <2>1. f = l
      BY <1>6 DEF PlaceOf
    <2>2. MovingNothing(mem, mem', l)
      BY <1>1, <1>3, <1>4, <1>5, <2>1, CatEmptyFacts
    <2>3. \A c \in Cells : mem'[c].next = mem[c].next
      BY <2>2 DEF MovingNothing
    <2>4. Laid(mem', moved \cup {l}, [sq EXCEPT ![h] = sq[h] \o sq[l], ![l] = << >>])
      BY <1>1, <1>6, <2>3, ConcatLaid
    <2>5. QED
      BY <1>1, <2>4 DEF Edited, Moves
  <1>7. CASE sq[l] # << >>
    <2>1. 1 \in 1 .. Len(sq[l])
      BY <1>1, <1>7, EmptySeq
    <2>2. f \in Entries
      BY <1>1, <2>1, ElementOfSeq DEF PlaceOf
    <2>3. f # l /\ f # h
      BY <1>1, <2>2
    <2> HIDE DEF f
    <2>4. Moving(mem, mem', h, a, f, z)
      BY <1>1, <1>3, <1>4, <1>5, <2>3, CatFacts
    <2>5. mem'[a].next = f /\ mem'[z].next = h /\ \A c \in Cells : mem'[c].next # mem[c].next => c \in {a, z}
      BY <2>4 DEF Moving
    <2>6. Laid(mem', moved \cup {l}, [sq EXCEPT ![h] = sq[h] \o sq[l], ![l] = << >>])
      BY <1>1, <1>7, <2>5, ConcatLaid DEF a, f, z
    <2>7. QED
      BY <1>1, <2>6 DEF Edited, Moves
  <1>8. QED
    BY <1>6, <1>7

\* Every step of the lists leaves sequences laid out in the memory, edited once at most.
LEMMA ListEdits ==
  ASSUME ListInv, NEW sq, Laid(mem, moved, sq), [ListNext]_listVars
  PROVE  \E new : Laid(mem, moved, new)' /\ Edited(sq, new)
  <1> USE ListAssumption
  <1>1. ASSUME NEW e \in Free, NEW h \in Usable, Add(e, h) \/ Append_(e, h) \/ Prepend(e, h)
        PROVE  \E new : Laid(mem, moved, new)' /\ Edited(sq, new)
    <2>1. h \in Linked
      BY LinkedFacts
    <2>2. \E p \in Linked : mem' = LinkBetween(mem, e, p, mem[p].next)
      BY <1>1, <2>1, AddIsLink DEF Add, Append_, Prepend
    <2>3. moved' = moved
      BY <1>1 DEF Add, Append_, Prepend
    <2>4. QED
      BY <2>2, <2>3, LinkEdits
  <1>2. ASSUME NEW e \in Free, NEW h \in Usable, NEW q \in Places(h), AddAfter(e, q, h) \/ AddBefore(e, q, h)
        PROVE  \E new : Laid(mem, moved, new)' /\ Edited(sq, new)
    <2>1. q \in Linked
      BY PlacesLinked
    <2>2. \E p \in Linked : mem' = LinkBetween(mem, e, p, mem[p].next)
      BY <1>2, <2>1, AddIsLink DEF AddAfter, AddBefore
    <2>3. moved' = moved
      BY <1>2 DEF AddAfter, AddBefore
    <2>4. QED
      BY <2>2, <2>3, LinkEdits
  <1>3. ASSUME UNCHANGED <<mem, moved>>
        PROVE  \E new : Laid(mem, moved, new)' /\ Edited(sq, new)
    BY <1>3 DEF Edited
  <1>4. ASSUME NEW e \in Entries \ Free, Del(e)
        PROVE  \E new : Laid(mem, moved, new)' /\ Edited(sq, new)
    BY <1>4, DelEdits DEF Del
  <1>5. ASSUME NEW l \in Usable, NEW h \in Usable, Cat(l, h)
        PROVE  \E new : Laid(mem, moved, new)' /\ Edited(sq, new)
    BY <1>5, CatEdits DEF Cat
  <1>6. ASSUME NEW h \in moved, ReInit(h)
        PROVE  \E new : Laid(mem, moved, new)' /\ Edited(sq, new)
    <2>1. h \in Heads /\ h \in Cells /\ mem \in Memory /\ moved \subseteq Heads
      BY DEF ListInv, ListTypeOK, Memory, Cells
    <2>2. mem'[h].next = h /\ \A c \in Cells \ {h} : mem'[c].next = mem[c].next
      BY <1>6, <2>1 DEF ReInit, mk_list_init, Memory
    <2>3. Laid(mem', moved \ {h}, sq)
      BY <2>1, <2>2, EmptyLaid
    <2>4. moved' = moved \ {h}
      BY <1>6 DEF ReInit
    <2>5. QED
      BY <2>3, <2>4 DEF Edited
  <1>7. ASSUME NEW del \in BOOLEAN, LoopStep(del)
        PROVE  \E new : Laid(mem, moved, new)' /\ Edited(sq, new)
    <2>1. moved' = moved /\ mem' = IF del THEN mk_list_del(mem, iter.curr) ELSE mem
      BY <1>7 DEF LoopStep
    <2>2. CASE ~ del
      BY <2>1, <2>2, <1>3
    <2>3. CASE del
      <3>1. iter.curr \in Entries \ Free
        BY <1>7, LoopBody DEF LoopStep
      <3>2. QED
        BY <2>1, <2>3, <3>1, DelEdits
    <2>4. QED
      BY <2>2, <2>3
  <1>8. CASE LoopEnd \/ (\E h \in Usable : LoopStart(h)) \/ UNCHANGED listVars
    BY <1>3, <1>8 DEF LoopEnd, LoopStart, listVars
  <1>9. QED
    BY <1>1, <1>2, <1>4, <1>5, <1>6, <1>7, <1>8 DEF ListNext

\* The sequences of the refinement are the ones that are laid out in the memory.
LEMMA SeqsFound ==
  ASSUME NEW m, NEW mv, NEW sq, Laid(m, mv, sq)
  PROVE  [h \in Heads |-> IF h \in mv THEN << >> ELSE Walk(m, h)] = sq
  <1>1. sq \in [Heads -> Seq(Entries)] /\ \A h \in mv : sq[h] = << >>
    BY DEF Laid
  <1>2. \A h \in Heads \ mv : Walk(m, h) = sq[h]
    BY WalkFinds
  <1>3. QED
    BY <1>1, <1>2

\* The first state holds empty sequences.
LEMMA LaidInit ==
  ASSUME ListInit PROVE Laid(mem, moved, [h \in Heads |-> << >>])
  <1> USE ListAssumption
  <1> DEFINE sq == [h \in Heads |-> << >>]
  <1>1. sq \in [Heads -> Seq(Entries)] /\ \A h \in Heads : sq[h] = << >> /\ Len(sq[h]) = 0
    BY EmptySeq
  <1>2. moved = {} /\ (\A h \in Heads : mem[h].next = h) /\ \A e \in Entries : mem[e].next = NULL
    BY DEF ListInit, Cells, Unlinked
  <1> HIDE DEF sq
  <1>3. \A h \in Heads : Leads(mem, h, sq[h])
    BY <1>1, <1>2 DEF Leads, PlaceOf
  <1>4. Laid(mem, moved, sq)
    BY <1>1, <1>2, <1>3 DEF Laid
  <1>5. QED
    BY <1>4 DEF sq

\* An edit of the sequences is a step of SeqLists.
LEMMA EditIsStep ==
  ASSUME NEW sq \in [Heads -> Seq(Entries)], NEW new, Edited(sq, new),
         [h \in Heads |-> IF h \in moved THEN << >> ELSE Walk(mem, h)] = sq,
         [h \in Heads |-> IF h \in moved' THEN << >> ELSE Walk(mem', h)] = new
  PROVE  Abstract!SeqStep
  <1>1. CASE new = sq
    BY <1>1 DEF Abstract!SeqStep
  <1>2. ASSUME Inserts(sq, new) PROVE Abstract!Insert
    <2>1. PICK h \in Heads, e \in Entries : \E i \in 1 .. Len(sq[h]) + 1 :
                 /\ \A g \in Heads : \A k \in 1 .. Len(sq[g]) : sq[g][k] # e
                 /\ new = [sq EXCEPT ![h] = Abstract!InsertAt(sq[h], i, e)]
      BY <1>2 DEF Inserts
    <2>2. e \notin UNION {Abstract!ToSet(sq[g]) : g \in Heads}
      BY <2>1, LenProperties DEF Abstract!ToSet
    <2>3. e \in Entries \ Abstract!OnLists
      BY <2>2 DEF Abstract!OnLists
    <2>4. PICK i \in 1 .. Len(sq[h]) + 1 : new = [sq EXCEPT ![h] = Abstract!InsertAt(sq[h], i, e)]
      BY <2>1
    <2> DEFINE seqs == [g \in Heads |-> IF g \in moved THEN << >> ELSE Walk(mem, g)]
    <2>5. i \in 1 .. Len(seqs[h]) + 1
      <3>1. seqs = sq
        BY Zenon
      <3> HIDE DEF seqs
      <3>2. QED
        BY <3>1
    <2>6. seqs' = [seqs EXCEPT ![h] = Abstract!InsertAt(seqs[h], i, e)]
      BY <2>4, Zenon
    <2>7. QED
      BY <2>3, <2>5, <2>6, Zenon DEF Abstract!Insert
  <1>3. ASSUME Deletes(sq, new) PROVE Abstract!Delete
    BY <1>3, Zenon DEF Deletes, Abstract!Delete
  <1>4. ASSUME Moves(sq, new) PROVE Abstract!Concat
    BY <1>4, Zenon DEF Moves, Abstract!Concat
  <1>5. QED
    BY <1>1, <1>2, <1>3, <1>4 DEF Edited, Abstract!SeqStep, Abstract!SeqNext

\* Read through next, the lists are sequences: whatever is added, deleted, moved and looped over
\* inserts one free entry, removes one, appends one list to another or changes nothing; none is lost.
THEOREM ListsAreSequences == ListSpec => ImplementsSeqLists
  <1> DEFINE Inv == ListInv /\ \E sq : Laid(mem, moved, sq)
  <1>1. ListInit => Inv /\ Abstract!SeqInit
    <2> SUFFICES ASSUME ListInit PROVE Inv /\ Abstract!SeqInit
      OBVIOUS
    <2>1. Laid(mem, moved, [h \in Heads |-> << >>]) /\ ListInv
      BY LaidInit, ListInvInit
    <2>2. Abstract!SeqInit
      BY <2>1, SeqsFound DEF Abstract!SeqInit
    <2>3. QED
      BY <2>1, <2>2
  <1>2. Inv /\ [ListNext]_listVars => Inv' /\ Abstract!SeqStep
    <2> SUFFICES ASSUME Inv, [ListNext]_listVars PROVE Inv' /\ Abstract!SeqStep
      OBVIOUS
    <2>1. PICK sq : Laid(mem, moved, sq)
      OBVIOUS
    <2>2. PICK new : Laid(mem, moved, new)' /\ Edited(sq, new)
      BY <2>1, ListEdits
    <2>3. ListInv'
      BY ListInvStep
    <2>4. Abstract!SeqStep
      <3>1. [h \in Heads |-> IF h \in moved THEN << >> ELSE Walk(mem, h)] = sq
        BY <2>1, SeqsFound
      <3>2. Laid(mem', moved', new)
        BY <2>2
      <3>3. [h \in Heads |-> IF h \in moved' THEN << >> ELSE Walk(mem', h)] = new
        BY <3>2, SeqsFound
      <3>4. sq \in [Heads -> Seq(Entries)]
        BY <2>1 DEF Laid
      <3>5. QED
        BY <2>2, <3>1, <3>3, <3>4, EditIsStep
    <2>5. QED
      BY <2>2, <2>3, <2>4
  <1> HIDE DEF Inv
  <1>3. [ListNext]_listVars /\ Inv => [UNCHANGED <<mem, moved>> \/ Abstract!SeqStep]_listVars
    BY <1>2
  <1>4. QED
    BY <1>1, <1>2, <1>3, PTL DEF ListSpec, ImplementsSeqLists

-----------------------------------------------------------------------------
(* The log event encoder. *)

\* Induction over a set of naturals.
LEMMA SetInduction ==
  ASSUME NEW S, 0 \in S, \A k \in Nat : k \in S => k + 1 \in S
  PROVE  Nat \subseteq S
  <1> DEFINE Out == {k \in Nat : k \notin S}
  <1>1. SUFFICES ASSUME Out # {} PROVE FALSE
    OBVIOUS
  <1>2. PICK k \in Out : \A y \in Out : ~ (<<y, k>> \in OpToRel(<, Nat))
    BY <1>1, NatLessThanWellFounded, WFMin
  <1>3. k \in Nat /\ k \notin S
    OBVIOUS
  <1>4. k # 0
    BY <1>3
  <1>5. k - 1 \in Nat /\ k - 1 < k /\ k - 1 + 1 = k
    BY <1>3, <1>4
  <1>6. k - 1 \notin Out
    BY <1>2, <1>3, <1>5 DEF OpToRel
  <1>7. k - 1 \in S
    BY <1>5, <1>6
  <1>8. QED
    BY <1>3, <1>5, <1>7

\* The parts of a sequence joined from the left: joined[i] is its first i elements.
Joins(s, joined) == /\ DOMAIN joined = 1 .. Len(s)
                    /\ joined[1] = s[1]
                    /\ \A i \in 2 .. Len(s) : joined[i] = joined[i - 1] \o s[i]

\* FlattenSeq is the last of these joins.
LEMMA FlattenJoins ==
  ASSUME NEW T, NEW s \in Seq(Seq(T)), s # << >>
  PROVE  \E joined \in [1 .. Len(s) -> Seq(T)] : Joins(s, joined) /\ FlattenSeq(s) = joined[Len(s)]
  <1>1. PICK n \in Nat : n = Len(s)
    BY LenProperties, Zenon
  <1>2. n # 0
    BY <1>1, SMT
  <1>3. \A i \in 1 .. n : s[i] \in Seq(T)
    BY <1>1, ElementOfSeq
  <1> DEFINE Step(g, i) == IF i = 1 THEN s[i] ELSE g[i - 1] \o s[i]
             Upto == {k \in Nat : \E g : /\ g \in [1 .. n -> Seq(T)]
                                         /\ \A i \in 1 .. n : i <= k => g[i] = Step(g, i)}
  <1>4. 0 \in Upto
    <2>1. [i \in 1 .. n |-> << >>] \in [1 .. n -> Seq(T)]
      BY EmptySeq
    <2>2. \A i \in 1 .. n : ~ (i <= 0)
      OBVIOUS
    <2>3. QED
      BY <2>1, <2>2
  <1>5. ASSUME NEW k \in Nat, k \in Upto PROVE k + 1 \in Upto
    <2>1. PICK g \in [1 .. n -> Seq(T)] : \A i \in 1 .. n : i <= k => g[i] = Step(g, i)
      BY <1>5
    <2>2. CASE k + 1 \notin 1 .. n
      <3>1. \A i \in 1 .. n : i <= k + 1 => i <= k
        BY <2>2
      <3> HIDE DEF Step
      <3>2. \A i \in 1 .. n : i <= k + 1 => g[i] = Step(g, i)
        BY <2>1, <3>1
      <3>3. k + 1 \in Nat
        OBVIOUS
      <3>4. QED
        BY <3>2, <3>3, Zenon
    <2>3. CASE k + 1 \in 1 .. n
      <3> DEFINE h == [g EXCEPT ![k + 1] = Step(g, k + 1)]
      <3>1. Step(g, k + 1) \in Seq(T)
        <4>1. CASE k = 0
          BY <1>3, <2>3, <4>1
        <4>2. CASE k # 0
          <5>1. k \in 1 .. n /\ k + 1 - 1 = k /\ k + 1 # 1
            BY <2>3, <4>2
          <5>2. g[k] \in Seq(T) /\ s[k + 1] \in Seq(T)
            BY <1>3, <2>1, <2>3, <5>1
          <5>3. g[k] \o s[k + 1] \in Seq(T)
            BY <5>2, ConcatProperties, Zenon
          <5>4. QED
            BY <5>1, <5>3
        <4>3. QED
          BY <4>1, <4>2
      <3>2. h \in [1 .. n -> Seq(T)]
        BY <2>1, <3>1
      <3>3. ASSUME NEW i \in 1 .. n, i <= k + 1 PROVE h[i] = Step(h, i)
        <4>1. i # 1 => h[i - 1] = g[i - 1]
          BY <3>3
        <4>2. Step(h, i) = Step(g, i)
          BY <4>1
        <4>3. CASE i = k + 1
          BY <4>2, <4>3
        <4>4. CASE i # k + 1
          <5>1. i <= k
            BY <3>3, <4>4
          <5>2. h[i] = g[i]
            BY <4>4
          <5>3. QED
            BY <2>1, <4>2, <5>1, <5>2
        <4>5. QED
          BY <4>3, <4>4
      <3> HIDE DEF Step, h
      <3>4. k + 1 \in Nat
        OBVIOUS
      <3>5. QED
        BY <3>2, <3>3, <3>4, Zenon
    <2>4. QED
      BY <2>2, <2>3
  <1>6. n \in Upto
    <2> HIDE DEF Upto
    <2>1. Nat \subseteq Upto
      BY <1>4, <1>5, SetInduction
    <2>2. QED
      BY <2>1
  <1>7. PICK g \in [1 .. n -> Seq(T)] : \A i \in 1 .. n : g[i] = Step(g, i)
    <2> HIDE DEF Step
    <2>1. PICK g \in [1 .. n -> Seq(T)] : \A i \in 1 .. n : i <= n => g[i] = Step(g, i)
      BY <1>6, Zenon
    <2>2. \A i \in 1 .. n : i <= n
      OBVIOUS
    <2>3. QED
      BY <2>1, <2>2, Zenon
  <1>8. g = [i \in 1 .. n |-> IF i = 1 THEN s[i] ELSE g[i - 1] \o s[i]]
    BY <1>7
  <1> DEFINE f == CHOOSE f : f = [i \in 1 .. n |-> IF i = 1 THEN s[i] ELSE f[i - 1] \o s[i]]
  <1>9. f = [i \in 1 .. n |-> IF i = 1 THEN s[i] ELSE f[i - 1] \o s[i]]
    BY <1>8, Zenon
  <1>10. FlattenSeq(s) = f[n]
    BY <1>1, <1>2, Zenon DEF FlattenSeq
  <1> HIDE DEF f
  <1>11. f[1] = s[1] /\ DOMAIN f = 1 .. n /\ \A i \in 2 .. n : f[i] = f[i - 1] \o s[i]
    <2>1. DOMAIN f = 1 .. n
      BY <1>9, Zenon
    <2>2. \A i \in 1 .. n : f[i] = IF i = 1 THEN s[i] ELSE f[i - 1] \o s[i]
      BY <1>9, Zenon
    <2>3. 1 \in 1 .. n /\ \A i \in 2 .. n : i \in 1 .. n /\ i # 1
      BY <1>2
    <2>4. QED
      BY <2>1, <2>2, <2>3, Zenon
  <1>12. Joins(s, f)
    BY <1>1, <1>11 DEF Joins
  <1>13. f \in [1 .. n -> Seq(T)]
    <2> DEFINE Typed == {k \in Nat : k + 1 <= n => f[k + 1] \in Seq(T)}
    <2>1. 0 \in Typed
      BY <1>2, <1>3, <1>11
    <2>2. ASSUME NEW k \in Nat, k \in Typed PROVE k + 1 \in Typed
      <3>1. CASE k + 2 <= n
        <4>1. k + 1 <= n /\ k + 2 \in 2 .. n /\ k + 2 \in 1 .. n /\ k + 2 - 1 = k + 1 /\ k + 1 + 1 = k + 2
          BY <3>1
        <4>2. f[k + 1] \in Seq(T) /\ s[k + 2] \in Seq(T)
          <5>1. k + 1 <= n => f[k + 1] \in Seq(T)
            BY <2>2, Zenon
          <5>2. QED
            BY <1>3, <4>1, <5>1, Zenon
        <4>3. f[k + 2] = f[k + 1] \o s[k + 2]
          <5>1. PICK j \in 2 .. n : j = k + 2
            BY <4>1, Zenon
          <5>2. f[j] = f[j - 1] \o s[j]
            BY <1>11, Zenon
          <5>3. j - 1 = k + 1
            BY <5>1
          <5>4. QED
            BY <5>1, <5>2, <5>3, Zenon
        <4>4. f[k + 2] \in Seq(T)
          BY <4>2, <4>3, ConcatProperties, Zenon
        <4>5. QED
          BY <4>1, <4>4
      <3>2. CASE ~ (k + 2 <= n)
        BY <3>2
      <3>3. QED
        BY <3>1, <3>2
    <2>3. Nat \subseteq Typed
      <3> HIDE DEF Typed
      <3>1. QED
        BY <2>1, <2>2, SetInduction
    <2>4. ASSUME NEW i \in 1 .. n PROVE f[i] \in Seq(T)
      <3>1. i - 1 \in Nat /\ i - 1 + 1 = i /\ i <= n
        OBVIOUS
      <3>2. i - 1 \in Typed
        BY <2>3, <3>1
      <3>3. QED
        BY <3>1, <3>2
    <2>5. f = [i \in 1 .. n |-> f[i]]
      BY <1>9, Zenon
    <2> HIDE DEF Typed
    <2>6. QED
      BY <2>4, <2>5, Zenon
  <1>14. QED
    BY <1>1, <1>10, <1>12, <1>13, Zenon

\* The join of one more element.
LEMMA NextJoin ==
  ASSUME NEW s, NEW joined, Joins(s, joined), NEW n \in Nat, n = Len(s), NEW i \in 1 .. n, i + 1 <= n
  PROVE  joined[i + 1] = joined[i] \o s[i + 1]
  <1>1. i + 1 \in 2 .. n /\ i + 1 - 1 = i
    OBVIOUS
  <1>2. PICK j \in 2 .. n : j = i + 1
    BY <1>1, Zenon
  <1>3. joined[j] = joined[j - 1] \o s[j]
    BY Zenon DEF Joins
  <1>4. j - 1 = i
    BY <1>2
  <1>5. QED
    BY <1>2, <1>3, <1>4, Zenon

\* A first element is flattened in front of the others.
LEMMA FlattenCons ==
  ASSUME NEW T, NEW u \in Seq(T), NEW s \in Seq(Seq(T))
  PROVE  FlattenSeq(<<u>> \o s) = u \o FlattenSeq(s)
  <1> DEFINE t == <<u>> \o s
  <1>1. PICK n \in Nat : n = Len(s)
    BY LenProperties, Zenon
  <1>2. \A i \in 1 .. n : s[i] \in Seq(T)
    BY <1>1, ElementOfSeq
  <1>3. t \in Seq(Seq(T)) /\ Len(t) = n + 1 /\ t[1] = u /\ \A i \in 1 .. n : t[i + 1] = s[i]
    <2> DEFINE one == <<u>>
    <2>1. one \in Seq(Seq(T)) /\ Len(one) = 1 /\ one[1] = u
      OBVIOUS
    <2> HIDE DEF one
    <2>2. /\ one \o s \in Seq(Seq(T)) /\ Len(one \o s) = Len(one) + Len(s)
          /\ \A i \in 1 .. Len(one) + Len(s) : (one \o s)[i] = IF i <= Len(one) THEN one[i] ELSE s[i - Len(one)]
      BY <2>1, ConcatProperties, Zenon
    <2>3. /\ one \o s \in Seq(Seq(T)) /\ Len(one \o s) = n + 1
          /\ \A i \in 1 .. 1 + n : (one \o s)[i] = IF i <= 1 THEN one[i] ELSE s[i - 1]
      BY <1>1, <2>1, <2>2
    <2>4. (one \o s)[1] = u
      <3>1. 1 \in 1 .. 1 + n /\ 1 <= 1
        OBVIOUS
      <3>2. QED
        BY <2>1, <2>3, <3>1, Zenon
    <2>5. ASSUME NEW i \in 1 .. n PROVE (one \o s)[i + 1] = s[i]
      <3>1. i + 1 \in 1 .. 1 + n /\ ~ (i + 1 <= 1) /\ i + 1 - 1 = i
        OBVIOUS
      <3>2. PICK j \in 1 .. 1 + n : j = i + 1
        BY <3>1, Zenon
      <3>3. (one \o s)[j] = IF j <= 1 THEN one[j] ELSE s[j - 1]
        BY <2>3, Zenon
      <3>4. j - 1 = i /\ ~ (j <= 1)
        BY <3>1, <3>2
      <3>5. QED
        BY <3>2, <3>3, <3>4, Zenon
    <2>6. QED
      BY <2>3, <2>4, <2>5 DEF one
  <1>4. t # << >>
    BY <1>3, SMT
  <1> HIDE DEF t
  <1>5. PICK jt \in [1 .. Len(t) -> Seq(T)] : Joins(t, jt) /\ FlattenSeq(t) = jt[Len(t)]
    BY <1>3, <1>4, FlattenJoins, Zenon
  <1>6. jt[1] = u /\ FlattenSeq(t) = jt[n + 1]
    BY <1>3, <1>5, Zenon DEF Joins
  <1>7. CASE s = << >>
    <2>1. n = 0 /\ FlattenSeq(s) = s
      BY <1>1, <1>7 DEF FlattenSeq
    <2>2. u \o s = u
      BY <1>7, ConcatEmptySeq, Zenon
    <2>3. FlattenSeq(t) = jt[1]
      BY <1>6, <2>1
    <2>4. QED
      BY <1>6, <2>1, <2>2, <2>3, Zenon DEF t
  <1>8. CASE s # << >>
    <2>1. n # 0
      BY <1>1, <1>8, SMT
    <2>2. PICK js \in [1 .. Len(s) -> Seq(T)] : Joins(s, js) /\ FlattenSeq(s) = js[Len(s)]
      BY <1>8, FlattenJoins, Zenon
    <2>3. js[1] = s[1] /\ FlattenSeq(s) = js[n]
      BY <1>1, <2>2, Zenon DEF Joins
    <2> DEFINE Match == {k \in Nat : k + 1 <= n => jt[k + 2] = u \o js[k + 1]}
    <2>4. 0 \in Match
      <3>1. 1 \in 1 .. n + 1 /\ 1 + 1 <= n + 1 /\ n + 1 \in Nat /\ 1 \in 1 .. n
        BY <2>1
      <3>2. jt[1 + 1] = jt[1] \o t[1 + 1]
        BY <1>3, <1>5, <3>1, NextJoin, Zenon
      <3>3. t[1 + 1] = s[1]
        BY <1>3, <3>1, Zenon
      <3>4. jt[1 + 1] = u \o js[1]
        BY <1>6, <2>3, <3>2, <3>3, Zenon
      <3>5. jt[0 + 2] = u \o js[0 + 1]
        BY <3>4
      <3>6. QED
        BY <3>5, Zenon
    <2>5. ASSUME NEW k \in Nat, k \in Match PROVE k + 1 \in Match
      <3>1. CASE k + 2 <= n
        <4>1. /\ k + 1 <= n /\ k + 1 \in 1 .. n /\ k + 2 \in 1 .. n /\ k + 1 + 1 = k + 2
              /\ k + 2 \in 1 .. n + 1 /\ k + 2 + 1 <= n + 1 /\ n + 1 \in Nat
          BY <3>1
        <4>2. jt[k + 2] = u \o js[k + 1]
          BY <2>5, <4>1, Zenon
        <4>3. jt[k + 2 + 1] = jt[k + 2] \o t[k + 2 + 1]
          BY <1>3, <1>5, <4>1, NextJoin, Zenon
        <4>4. t[k + 2 + 1] = s[k + 2]
          BY <1>3, <4>1, Zenon
        <4>5. js[k + 1 + 1] = js[k + 1] \o s[k + 1 + 1]
          <5>1. k + 1 + 1 <= n
            BY <4>1
          <5>2. QED
            BY <1>1, <2>2, <4>1, <5>1, NextJoin, Zenon
        <4>6. js[k + 2] = js[k + 1] \o s[k + 2]
          BY <4>1, <4>5, Zenon
        <4>7. js[k + 1] \in Seq(T) /\ s[k + 2] \in Seq(T)
          BY <1>1, <1>2, <2>2, <4>1, Zenon
        <4>8. (u \o js[k + 1]) \o s[k + 2] = u \o (js[k + 1] \o s[k + 2])
          <5>1. PICK a \in Seq(T), b \in Seq(T) : a = js[k + 1] /\ b = s[k + 2]
            BY <4>7, Zenon
          <5>2. (u \o a) \o b = u \o (a \o b)
            BY ConcatAssociative
          <5>3. QED
            BY <5>1, <5>2, Zenon
        <4>9. jt[k + 2 + 1] = u \o js[k + 2]
          BY <4>2, <4>3, <4>4, <4>6, <4>8, Zenon
        <4>10. k + 1 + 2 = k + 2 + 1 /\ k + 1 \in Nat
          OBVIOUS
        <4>11. jt[k + 1 + 2] = u \o js[k + 1 + 1]
          BY <4>1, <4>9, <4>10, Zenon
        <4>12. QED
          BY <4>10, <4>11, Zenon
      <3>2. CASE ~ (k + 2 <= n)
        <4>1. k + 1 \in Nat /\ ~ (k + 1 + 1 <= n)
          BY <3>2
        <4>2. QED
          BY <4>1, Zenon
      <3>3. QED
        BY <3>1, <3>2
    <2>6. Nat \subseteq Match
      <3> HIDE DEF Match
      <3>1. QED
        BY <2>4, <2>5, SetInduction
    <2>7. n - 1 \in Nat /\ n - 1 + 1 = n /\ n - 1 + 2 = n + 1 /\ n <= n
      BY <2>1
    <2>8. n - 1 + 1 <= n => jt[n - 1 + 2] = u \o js[n - 1 + 1]
      BY <2>6, <2>7, Zenon
    <2>9. jt[n + 1] = u \o js[n]
      BY <2>7, <2>8, Zenon
    <2>10. QED
      BY <1>6, <2>3, <2>9, Zenon DEF t
  <1>9. QED
    BY <1>7, <1>8

-----------------------------------------------------------------------------
\* P holds places of w where a type code stands, the first word and the place behind every
\* code's operands among them.
Framed(w, P) ==
  /\ P \subseteq 1 .. Len(w) + 1 /\ 1 \in P
  /\ \A i \in P : i <= Len(w) => w[i] # 0 /\ i + 1 + OperandCount(w[i]) \in P

\* A type code has at most two operands.
LEMMA OperandCountType == \A x : OperandCount(x) \in 0 .. 2
  BY DEF OperandCount

\* What is put together from framed words is framed.
LEMMA FramedConcat ==
  ASSUME NEW u \in Seq(Int), NEW v \in Seq(Int), NEW P, NEW Q, Framed(u, P), Framed(v, Q)
  PROVE  \E R : Framed(u \o v, R)
  <1>1. PICK m \in Nat, n \in Nat : m = Len(u) /\ n = Len(v)
    BY LenProperties, Zenon
  <1> DEFINE w == u \o v
             R == {i \in P : i <= m} \cup {m + q : q \in Q}
  <1>2. Len(w) = m + n /\ \A i \in 1 .. m + n : w[i] = IF i <= m THEN u[i] ELSE v[i - m]
    <2>1. /\ Len(w) = Len(u) + Len(v)
          /\ \A i \in 1 .. Len(u) + Len(v) : w[i] = IF i <= Len(u) THEN u[i] ELSE v[i - Len(u)]
      BY ConcatProperties, Zenon
    <2>2. QED
      BY <1>1, <2>1, Zenon
  <1> HIDE DEF w
  <1>3. /\ P \subseteq 1 .. m + 1 /\ 1 \in P
        /\ \A i \in P : i <= m => u[i] # 0 /\ i + 1 + OperandCount(u[i]) \in P
    BY <1>1, Zenon DEF Framed
  <1>4. /\ Q \subseteq 1 .. n + 1 /\ 1 \in Q
        /\ \A i \in Q : i <= n => v[i] # 0 /\ i + 1 + OperandCount(v[i]) \in Q
    BY <1>1, Zenon DEF Framed
  <1>5. R \subseteq 1 .. m + n + 1
    <2>1. \A i \in 1 .. m + 1 : i \in 1 .. m + n + 1
      OBVIOUS
    <2>2. \A q \in 1 .. n + 1 : m + q \in 1 .. m + n + 1
      OBVIOUS
    <2>3. QED
      BY <1>3, <1>4, <2>1, <2>2
  <1>6. m + 1 \in R
    BY <1>4
  <1>7. 1 \in R
    <2>1. CASE m = 0
      BY <1>6, <2>1
    <2>2. CASE m # 0
      BY <1>3, <2>2
    <2>3. QED
      BY <2>1, <2>2
  <1>8. ASSUME NEW i \in R, i <= m + n PROVE w[i] # 0 /\ i + 1 + OperandCount(w[i]) \in R
    <2>1. i \in 1 .. m + n
      <3>1. i \in 1 .. m + n + 1
        BY <1>5
      <3>2. QED
        BY <1>8, <3>1
    <2>2. CASE i \in P /\ i <= m
      <3>1. w[i] = u[i]
        BY <1>2, <2>1, <2>2, Zenon
      <3>2. PICK k \in 0 .. 2 : k = OperandCount(u[i])
        BY OperandCountType
      <3>3. u[i] # 0 /\ i + 1 + k \in P
        BY <1>3, <2>2, <3>2, Zenon
      <3>4. i + 1 + k \in 1 .. m + 1
        BY <1>3, <3>3, Zenon
      <3>5. i + 1 + k <= m \/ i + 1 + k = m + 1
        BY <2>1, <3>4
      <3>6. i + 1 + k \in R
        BY <1>6, <3>3, <3>5
      <3>7. QED
        BY <3>1, <3>2, <3>3, <3>6, Zenon
    <2>3. CASE ~ (i \in P /\ i <= m)
      <3>1. PICK q \in Q : i = m + q
        BY <2>3
      <3>2. q \in 1 .. n + 1
        BY <1>4
      <3>3. q <= n /\ ~ (i <= m) /\ i - m = q
        BY <2>1, <3>1, <3>2
      <3>4. w[i] = v[q]
        BY <1>2, <2>1, <3>3, Zenon
      <3>5. PICK k \in 0 .. 2 : k = OperandCount(v[q])
        BY OperandCountType
      <3>6. v[q] # 0 /\ q + 1 + k \in Q
        BY <1>4, <3>3, <3>5, Zenon
      <3>7. m + (q + 1 + k) \in R
        BY <3>6
      <3>8. i + 1 + k = m + (q + 1 + k)
        BY <3>1, <3>2
      <3>9. QED
        BY <3>4, <3>5, <3>6, <3>7, <3>8, Zenon
    <2>4. QED
      BY <2>2, <2>3
  <1>9. Framed(w, R)
    <2> HIDE DEF R
    <2>1. R \subseteq 1 .. Len(w) + 1
      BY <1>2, <1>5
    <2>2. \A i \in R : i <= Len(w) => w[i] # 0 /\ i + 1 + OperandCount(w[i]) \in R
      BY <1>2, <1>8, Zenon
    <2>3. QED
      BY <1>7, <2>1, <2>2, Zenon DEF Framed
  <1>10. QED
    BY <1>9, Zenon DEF w

\* A type code with its operands is framed.
LEMMA FramedUnits ==
  /\ \A c \in NoOperand : <<c>> \in Seq(Int) /\ Framed(<<c>>, {1, 2})
  /\ \A c \in 1 .. 24 \ (NoOperand \cup TwoOperands), x \in Int : <<c, x>> \in Seq(Int) /\ Framed(<<c, x>>, {1, 3})
  /\ \A c \in TwoOperands, x \in Int, y \in Int : <<c, x, y>> \in Seq(Int) /\ Framed(<<c, x, y>>, {1, 4})
  <1>1. ASSUME NEW c \in NoOperand PROVE <<c>> \in Seq(Int) /\ Framed(<<c>>, {1, 2})
    <2>1. c # 0 /\ OperandCount(c) = 0 /\ c \in Int
      BY DEF NoOperand, OperandCount
    <2>2. QED
      BY <2>1 DEF Framed
  <1>2. ASSUME NEW c \in 1 .. 24 \ (NoOperand \cup TwoOperands), NEW x \in Int
        PROVE  <<c, x>> \in Seq(Int) /\ Framed(<<c, x>>, {1, 3})
    <2>1. c # 0 /\ OperandCount(c) = 1 /\ c \in Int
      BY DEF OperandCount
    <2>2. QED
      BY <2>1 DEF Framed
  <1>3. ASSUME NEW c \in TwoOperands, NEW x \in Int, NEW y \in Int
        PROVE  <<c, x, y>> \in Seq(Int) /\ Framed(<<c, x, y>>, {1, 4})
    <2>1. c # 0 /\ OperandCount(c) = 2 /\ c \in Int
      BY DEF OperandCount, TwoOperands, NoOperand
    <2>2. QED
      BY <2>1 DEF Framed
  <1>4. QED
    BY <1>1, <1>2, <1>3

\* A type code before its operands.
LEMMA CodeFirst ==
  ASSUME NEW c \in Int
  PROVE  /\ \A x \in Int : <<c>> \o <<x>> = <<c, x>>
         /\ \A x \in Int, y \in Int : <<c>> \o <<x, y>> = <<c, x, y>>
  <1>1. ASSUME NEW s \in Seq(Int), NEW t \in Seq(Int), Len(t) = Len(s) + 1, t[1] = c,
               \A i \in 1 .. Len(s) : t[i + 1] = s[i]
        PROVE  <<c>> \o s = t
    <2> DEFINE one == <<c>>
    <2>1. one \in Seq(Int) /\ Len(one) = 1 /\ one[1] = c
      OBVIOUS
    <2> HIDE DEF one
    <2>2. PICK n \in Nat : n = Len(s)
      BY LenProperties, Zenon
    <2>3. /\ one \o s \in Seq(Int) /\ Len(one \o s) = Len(one) + Len(s)
          /\ \A i \in 1 .. Len(one) + Len(s) : (one \o s)[i] = IF i <= Len(one) THEN one[i] ELSE s[i - Len(one)]
      BY <2>1, ConcatProperties, Zenon
    <2>4. /\ Len(one \o s) = 1 + n /\ Len(t) = n + 1
          /\ \A i \in 1 .. 1 + n : (one \o s)[i] = IF i <= 1 THEN one[i] ELSE s[i - 1]
      BY <1>1, <2>1, <2>2, <2>3, Zenon
    <2>5. Len(one \o s) = Len(t)
      BY <2>4
    <2>6. ASSUME NEW i \in 1 .. 1 + n PROVE (one \o s)[i] = t[i]
      <3>1. CASE i = 1
        BY <1>1, <2>1, <2>4, <3>1
      <3>2. CASE i # 1
        <4>1. PICK j \in 1 .. n : i = j + 1 /\ i - 1 = j /\ ~ (i <= 1)
          BY <3>2
        <4>2. (one \o s)[i] = s[j]
          BY <2>4, <4>1, Zenon
        <4>3. t[i] = s[j]
          BY <1>1, <2>2, <4>1, Zenon
        <4>4. QED
          BY <4>2, <4>3
      <3>3. QED
        BY <3>1, <3>2
    <2>7. QED
      <3>1. \A i \in 1 .. Len(one \o s) : (one \o s)[i] = t[i]
        BY <2>4, <2>6, Zenon
      <3>2. one \o s = t
        BY <1>1, <2>3, <2>5, <3>1, SeqEqual, Zenon
      <3>3. QED
        BY <3>2 DEF one
  <1>2. ASSUME NEW x \in Int PROVE <<c>> \o <<x>> = <<c, x>>
    <2>1. /\ <<x>> \in Seq(Int) /\ <<c, x>> \in Seq(Int) /\ Len(<<c, x>>) = Len(<<x>>) + 1 /\ <<c, x>>[1] = c
          /\ \A i \in 1 .. Len(<<x>>) : <<c, x>>[i + 1] = <<x>>[i]
      OBVIOUS
    <2>2. QED
      BY <1>1, <2>1, Zenon
  <1>3. ASSUME NEW x \in Int, NEW y \in Int PROVE <<c>> \o <<x, y>> = <<c, x, y>>
    <2>1. /\ <<x, y>> \in Seq(Int) /\ <<c, x, y>> \in Seq(Int) /\ Len(<<c, x, y>>) = Len(<<x, y>>) + 1
          /\ <<c, x, y>>[1] = c /\ \A i \in 1 .. Len(<<x, y>>) : <<c, x, y>>[i + 1] = <<x, y>>[i]
      OBVIOUS
    <2>2. QED
      BY <1>1, <2>1, Zenon
  <1>4. QED
    BY <1>2, <1>3

\* Every value macro yields framed words.
LEMMA FramedValues ==
  ASSUME NEW value, MacroValue(value)
  PROVE  value \in Seq(Int) /\ \E P : Framed(value, P)
  <1> DEFINE Fine(w) == w \in Seq(Int) /\ \E P : Framed(w, P)
  <1>1. ASSUME NEW u, NEW v, Fine(u), Fine(v) PROVE Fine(u \o v)
    <2>1. u \o v \in Seq(Int)
      BY <1>1, ConcatProperties
    <2>2. PICK P, Q : Framed(u, P) /\ Framed(v, Q)
      BY <1>1
    <2>3. QED
      BY <1>1, <2>1, <2>2, FramedConcat
  <1>2. \A c \in NoOperand : Fine(<<c>>)
    BY FramedUnits, Zenon
  <1>3. \A c \in 1 .. 24 \ (NoOperand \cup TwoOperands), x \in Int : Fine(<<c, x>>)
    BY FramedUnits, Zenon
  <1>4. \A c \in TwoOperands, x \in Int, y \in Int : Fine(<<c, x, y>>)
    BY FramedUnits, Zenon
  <1>5. {2, 4, 5, 6} \subseteq TwoOperands /\ {1, 3} \subseteq 1 .. 24 \ (NoOperand \cup TwoOperands)
    BY DEF TwoOperands, NoOperand
  <1>6. PICK n \in Int, m \in Int, type \in Int :
          \/ \E code \in NoOperand : value = SINGLE_VALUE(code, << >>)
          \/ \E code \in 1 .. 24 \ (NoOperand \cup TwoOperands) : value = SINGLE_VALUE(code, <<n>>)
          \/ \E code \in TwoOperands : value = SINGLE_VALUE(code, <<n, m>>)
          \/ value = STRING_VALUE(n, m)
          \/ value = BINARY_VALUE(n, m)
          \/ value = EXT_VALUE(0, type, n, m)
    <2>1. OperandWords \subseteq Int
      BY EncAssumption DEF EncAssumption
    <2>2. PICK n \in OperandWords, m \in OperandWords, type \in OperandWords :
            \/ \E code \in NoOperand : value = SINGLE_VALUE(code, << >>)
            \/ \E code \in 1 .. 24 \ (NoOperand \cup TwoOperands) : value = SINGLE_VALUE(code, <<n>>)
            \/ \E code \in TwoOperands : value = SINGLE_VALUE(code, <<n, m>>)
            \/ value \in {STRING_VALUE(n, m), BINARY_VALUE(n, m), EXT_VALUE(0, type, n, m)}
      BY Zenon DEF MacroValue
    <2>3. n \in Int /\ m \in Int /\ type \in Int
      BY <2>1
    <2>4. QED
      BY <2>2, <2>3, Zenon
  <1> HIDE DEF Fine
  <1>7. CASE \E code \in NoOperand : value = SINGLE_VALUE(code, << >>)
    <2>1. PICK code \in NoOperand : value = <<code>> \o << >>
      BY <1>7, Zenon DEF SINGLE_VALUE
    <2>2. <<code>> \o << >> = <<code>>
      OBVIOUS
    <2>3. QED
      BY <1>2, <2>1, <2>2, Zenon DEF Fine
  <1>8. CASE \E code \in 1 .. 24 \ (NoOperand \cup TwoOperands) : value = SINGLE_VALUE(code, <<n>>)
    <2>1. PICK code \in 1 .. 24 \ (NoOperand \cup TwoOperands) : value = <<code>> \o <<n>>
      BY <1>8, Zenon DEF SINGLE_VALUE
    <2>2. code \in Int
      OBVIOUS
    <2>3. <<code>> \o <<n>> = <<code, n>>
      BY <2>2, CodeFirst, Zenon
    <2>4. QED
      BY <1>3, <2>1, <2>3, Zenon DEF Fine
  <1>9. CASE \E code \in TwoOperands : value = SINGLE_VALUE(code, <<n, m>>)
    <2>1. PICK code \in TwoOperands : value = <<code>> \o <<n, m>>
      BY <1>9, Zenon DEF SINGLE_VALUE
    <2>2. code \in Int
      BY DEF TwoOperands
    <2>3. <<code>> \o <<n, m>> = <<code, n, m>>
      BY <2>2, CodeFirst, Zenon
    <2>4. QED
      BY <1>4, <2>1, <2>3, Zenon DEF Fine
  <1>10. CASE value = STRING_VALUE(n, m)
    <2>1. Fine(<<1, m>>) /\ Fine(<<2, n, m>>)
      BY <1>3, <1>4, <1>5
    <2>2. QED
      BY <1>1, <1>10, <2>1, Zenon DEF Fine, STRING_VALUE
  <1>11. CASE value = BINARY_VALUE(n, m)
    <2>1. Fine(<<3, m>>) /\ Fine(<<4, n, m>>)
      BY <1>3, <1>4, <1>5
    <2>2. QED
      BY <1>1, <1>11, <2>1, Zenon DEF Fine, BINARY_VALUE
  <1>12. CASE value = EXT_VALUE(0, type, n, m)
    <2>1. Fine(<<5, type, m>>) /\ Fine(<<6, n, m>>)
      BY <1>4, <1>5
    <2>2. QED
      BY <1>1, <1>12, <2>1, Zenon DEF Fine, EXT_VALUE
  <1>13. QED
    BY <1>6, <1>7, <1>8, <1>9, <1>10, <1>11, <1>12, Zenon

\* The words of a list of values are framed.
LEMMA FramedLists ==
  ASSUME NEW values \in Seq(Seq(Int)), \A i \in 1 .. Len(values) : MacroValue(values[i])
  PROVE  FlattenSeq(values) \in Seq(Int) /\ \E P : Framed(FlattenSeq(values), P)
  <1>1. CASE values = << >>
    <2>1. FlattenSeq(values) = << >>
      BY <1>1 DEF FlattenSeq
    <2>2. << >> \in Seq(Int) /\ Framed(<< >>, {1})
      BY DEF Framed
    <2>3. QED
      BY <2>1, <2>2
  <1>2. CASE values # << >>
    <2>1. PICK n \in Nat : n = Len(values)
      BY LenProperties, Zenon
    <2>2. n # 0
      BY <1>2, <2>1, SMT
    <2>3. \A i \in 1 .. n : values[i] \in Seq(Int) /\ \E P : Framed(values[i], P)
      BY <2>1, FramedValues, Zenon
    <2>5. PICK joined \in [1 .. Len(values) -> Seq(Int)] :
            Joins(values, joined) /\ FlattenSeq(values) = joined[Len(values)]
      BY <1>2, FlattenJoins, Zenon
    <2>6. joined \in [1 .. n -> Seq(Int)] /\ joined[1] = values[1] /\ FlattenSeq(values) = joined[n]
      BY <2>1, <2>5, Zenon DEF Joins
    <2> DEFINE Fine == {k \in Nat : k + 1 <= n => \E P : Framed(joined[k + 1], P)}
    <2>7. 0 \in Fine
      <3>1. 1 \in 1 .. n /\ 0 + 1 = 1
        BY <2>2
      <3>2. \E P : Framed(joined[1], P)
        BY <2>3, <2>6, <3>1, Zenon
      <3>3. QED
        BY <3>1, <3>2
    <2>8. ASSUME NEW k \in Nat, k \in Fine PROVE k + 1 \in Fine
      <3>1. CASE k + 2 <= n
        <4>1. k + 1 <= n /\ k + 1 \in 1 .. n /\ k + 1 + 1 <= n /\ k + 1 + 1 \in 1 .. n /\ k + 1 \in Nat
          BY <3>1
        <4>2. PICK j \in 1 .. n : j = k + 1 + 1
          BY <4>1, Zenon
        <4>3. joined[j] = joined[k + 1] \o values[j]
          BY <2>1, <2>5, <4>1, <4>2, NextJoin, Zenon
        <4>4. PICK P : Framed(joined[k + 1], P)
          BY <2>8, <4>1, Zenon
        <4>5. PICK Q : Framed(values[j], Q)
          BY <2>3, Zenon
        <4>6. joined[k + 1] \in Seq(Int) /\ values[j] \in Seq(Int)
          BY <2>3, <2>6, <4>1, Zenon
        <4>7. \E R : Framed(joined[j], R)
          BY <4>3, <4>4, <4>5, <4>6, FramedConcat, Zenon
        <4>8. QED
          BY <4>1, <4>2, <4>7, Zenon
      <3>2. CASE ~ (k + 2 <= n)
        <4>1. k + 1 \in Nat /\ ~ (k + 1 + 1 <= n)
          BY <3>2
        <4>2. QED
          BY <4>1, Zenon
      <3>3. QED
        BY <3>1, <3>2
    <2>9. Nat \subseteq Fine
      <3> HIDE DEF Fine
      <3>1. QED
        BY <2>7, <2>8, SetInduction
    <2>10. PICK k \in Nat : k + 1 = n /\ k + 1 <= n /\ n \in 1 .. n
      <3>1. n - 1 \in Nat /\ n - 1 + 1 = n /\ n <= n /\ n \in 1 .. n
        BY <2>2
      <3>2. QED
        BY <3>1
    <2>11. \E P : Framed(joined[k + 1], P)
      BY <2>9, <2>10, Zenon
    <2>12. QED
      BY <2>6, <2>10, <2>11, Zenon
  <1>3. QED
    BY <1>1, <1>2

\* What ReadValues reads from place i on, when g says what is read from later places.
ReadFrom(w, g, i) ==
  IF i > Len(w) THEN <<"beyond">>
  ELSE IF w[i] = TERMINATOR THEN << >>
  ELSE IF i + OperandCount(w[i]) > Len(w) THEN <<"beyond">>
  ELSE <<SubSeq(w, i, i + OperandCount(w[i]))>> \o g[i + 1 + OperandCount(w[i])]

\* The recursion of ReadValues defines a function: it only looks ahead.
LEMMA ReadDefined ==
  ASSUME NEW w, NEW n \in Nat, n = Len(w)
  PROVE  \E g : /\ \A i \in 1 .. n + 3 : g[i] = ReadFrom(w, g, i)
               /\ ReadValues(w) = g[1]
  <1> DEFINE M == n + 3
             Done == {k \in Nat : \E g : /\ g = [i \in 1 .. M |-> g[i]]
                                         /\ \A i \in 1 .. M : i > M - k => g[i] = ReadFrom(w, g, i)}
  <1>1. M \in Nat
    OBVIOUS
  <1>2. ASSUME NEW g, NEW h, NEW i \in 1 .. M, \A j \in 1 .. M : j > i => h[j] = g[j]
        PROVE  ReadFrom(w, g, i) = ReadFrom(w, h, i)
    <2>1. PICK oc \in 0 .. 2 : oc = OperandCount(w[i])
      BY OperandCountType, Zenon
    <2>2. CASE i + oc > n
      BY <2>1, <2>2 DEF ReadFrom
    <2>3. CASE ~ (i + oc > n)
      <3>1. i + 1 + oc \in 1 .. M /\ i + 1 + oc > i
        BY <2>3
      <3>2. h[i + 1 + oc] = g[i + 1 + oc]
        BY <1>2, <3>1, Zenon
      <3>3. QED
        BY <2>1, <3>2, Zenon DEF ReadFrom
    <2>4. QED
      BY <2>2, <2>3
  <1> HIDE DEF M
  <1>3. 0 \in Done
    <2> DEFINE g == [i \in 1 .. M |-> << >>]
    <2>1. g = [i \in 1 .. M |-> g[i]]
      OBVIOUS
    <2>2. \A i \in 1 .. M : ~ (i > M - 0)
      BY <1>1
    <2> HIDE DEF g
    <2>3. QED
      BY <2>1, <2>2, Zenon
  <1>4. ASSUME NEW k \in Nat, k \in Done PROVE k + 1 \in Done
    <2>1. PICK g : /\ g = [i \in 1 .. M |-> g[i]]
                   /\ \A i \in 1 .. M : i > M - k => g[i] = ReadFrom(w, g, i)
      BY <1>4, Zenon
    <2>2. k + 1 \in Nat
      OBVIOUS
    <2>3. PICK j \in Int : j = M - k
      BY <1>1
    <2> DEFINE h == [i \in 1 .. M |-> IF i = j THEN ReadFrom(w, g, j) ELSE g[i]]
    <2>4. h = [i \in 1 .. M |-> h[i]]
      OBVIOUS
    <2>5. \A i \in 1 .. M : h[i] = IF i = j THEN ReadFrom(w, g, j) ELSE g[i]
      OBVIOUS
    <2> HIDE DEF h
    <2>6. ASSUME NEW i \in 1 .. M, i > M - (k + 1) PROVE h[i] = ReadFrom(w, h, i)
      <3>1. i = j \/ (i > M - k /\ i # j)
        BY <1>1, <2>3, <2>6
      <3>2. \A l \in 1 .. M : l > i => l # j
        BY <2>3, <3>1
      <3>3. \A l \in 1 .. M : l > i => h[l] = g[l]
        BY <2>5, <3>2, Zenon
      <3>4. ReadFrom(w, g, i) = ReadFrom(w, h, i)
        BY <1>2, <3>3, Zenon
      <3>5. CASE i = j
        BY <2>5, <3>4, <3>5, Zenon
      <3>6. CASE i > M - k /\ i # j
        BY <2>1, <2>5, <3>4, <3>6, Zenon
      <3>7. QED
        BY <3>1, <3>5, <3>6
    <2>7. QED
      BY <2>2, <2>4, <2>6, Zenon
  <1>5. M \in Done
    <2> HIDE DEF Done
    <2>1. Nat \subseteq Done
      BY <1>3, <1>4, SetInduction
    <2>2. QED
      BY <1>1, <2>1
  <1>6. PICK g : /\ g = [i \in 1 .. M |-> g[i]]
                 /\ \A i \in 1 .. M : i > M - M => g[i] = ReadFrom(w, g, i)
    BY <1>5, Zenon
  <1>7. \A i \in 1 .. M : i > M - M
    BY <1>1
  <1>8. g = [i \in 1 .. M |-> ReadFrom(w, g, i)]
    <2>1. \A i \in 1 .. M : g[i] = ReadFrom(w, g, i)
      BY <1>6, <1>7, Zenon
    <2>2. QED
      BY <1>6, <2>1, Zenon
  <1> DEFINE f == CHOOSE f : f = [i \in 1 .. M |-> ReadFrom(w, f, i)]
  <1>9. f = [i \in 1 .. M |-> ReadFrom(w, f, i)]
    BY <1>8, Zenon
  <1>10. ReadValues(w) = f[1]
    BY Zenon DEF ReadValues, ReadFrom, M
  <1> HIDE DEF f
  <1>11. \A i \in 1 .. M : f[i] = ReadFrom(w, f, i)
    BY <1>9, Zenon
  <1>12. QED
    BY <1>10, <1>11, Zenon DEF M

\* Framed words, followed by the terminator, are read as they are.
LEMMA ReadsBack ==
  ASSUME NEW F \in Seq(Int), NEW P, Framed(F, P)
  PROVE  FlattenSeq(ReadValues(F \o <<TERMINATOR>>)) = F
  <1> DEFINE w == F \o <<TERMINATOR>>
  <1>1. PICK m \in Nat : m = Len(F)
    BY LenProperties, Zenon
  <1>2. w \in Seq(Int) /\ Len(w) = m + 1 /\ w[m + 1] = 0 /\ \A i \in 1 .. m : w[i] = F[i]
    <2> DEFINE one == <<TERMINATOR>>
    <2>1. one \in Seq(Int) /\ Len(one) = 1 /\ one[1] = 0
      BY DEF TERMINATOR
    <2> HIDE DEF one
    <2>2. /\ F \o one \in Seq(Int) /\ Len(F \o one) = Len(F) + Len(one)
          /\ \A i \in 1 .. Len(F) + Len(one) : (F \o one)[i] = IF i <= Len(F) THEN F[i] ELSE one[i - Len(F)]
      BY <2>1, ConcatProperties, Zenon
    <2>3. /\ F \o one \in Seq(Int) /\ Len(F \o one) = m + 1
          /\ \A i \in 1 .. m + 1 : (F \o one)[i] = IF i <= m THEN F[i] ELSE one[i - m]
      BY <1>1, <2>1, <2>2, Zenon
    <2>4. PICK l \in 1 .. m + 1 : l = m + 1 /\ ~ (l <= m) /\ l - m = 1
      OBVIOUS
    <2>5. (F \o one)[m + 1] = 0
      <3>1. (F \o one)[l] = IF l <= m THEN F[l] ELSE one[l - m]
        BY <2>3, Zenon
      <3>2. QED
        BY <2>1, <2>4, <3>1, Zenon
    <2>6. \A i \in 1 .. m : i \in 1 .. m + 1 /\ i <= m
      OBVIOUS
    <2>7. \A i \in 1 .. m : (F \o one)[i] = F[i]
      BY <2>3, <2>6, Zenon
    <2>8. QED
      BY <2>3, <2>5, <2>7, Zenon DEF one
  <1> HIDE DEF w
  <1>3. /\ P \subseteq 1 .. m + 1 /\ 1 \in P
        /\ \A i \in P : i <= m => F[i] # 0 /\ i + 1 + OperandCount(F[i]) \in P
    BY <1>1, Zenon DEF Framed
  <1>4. m + 1 \in Nat
    OBVIOUS
  <1>5. PICK g : (\A i \in 1 .. (m + 1) + 3 : g[i] = ReadFrom(w, g, i)) /\ ReadValues(w) = g[1]
    BY <1>2, <1>4, ReadDefined, Zenon
  <1>6. \A i \in P : g[i] = ReadFrom(w, g, i)
    <2>1. \A i \in 1 .. m + 1 : i \in 1 .. (m + 1) + 3
      OBVIOUS
    <2>2. QED
      BY <1>3, <1>5, <2>1, Zenon
  <1> DEFINE Read(i) == g[i] \in Seq(Seq(Int)) /\ FlattenSeq(g[i]) = SubSeq(w, i, m)
             Done == {k \in Nat : \A i \in P : i >= m + 1 - k => Read(i)}
  <1>7. 0 \in Done
    <2>1. ASSUME NEW i \in P, i >= m + 1 - 0 PROVE Read(i)
      <3>1. i \in 1 .. m + 1
        BY <1>3, Zenon
      <3>2. i = m + 1
        BY <2>1, <3>1
      <3>3. ReadFrom(w, g, i) = << >>
        BY <1>2, <3>2 DEF ReadFrom, TERMINATOR
      <3>4. g[i] = << >>
        BY <1>6, <3>3, Zenon
      <3>5. SubSeq(w, i, m) = << >>
        <4>1. m < i /\ i \in Int /\ m \in Int
          BY <3>2
        <4>2. QED
          BY <4>1, SubSeqEmpty, Zenon
      <3>6. << >> \in Seq(Seq(Int)) /\ FlattenSeq(<< >>) = << >>
        BY DEF FlattenSeq
      <3>7. QED
        BY <3>4, <3>5, <3>6, Zenon
    <2> HIDE DEF Read
    <2>2. QED
      BY <2>1, Zenon
  <1>8. ASSUME NEW k \in Nat, k \in Done PROVE k + 1 \in Done
    <2>1. ASSUME NEW i \in P, i >= m + 1 - (k + 1) PROVE Read(i)
      <3>1. i \in 1 .. m + 1
        BY <1>3, Zenon
      <3>2. CASE i >= m + 1 - k
        BY <1>8, <3>2, Zenon
      <3>3. CASE ~ (i >= m + 1 - k)
        <4>1. i <= m /\ i \in 1 .. m /\ i \in Int /\ m \in Int
          BY <3>1, <3>3
        <4>2. PICK oc \in 0 .. 2 : oc = OperandCount(F[i])
          BY OperandCountType, Zenon
        <4>3. F[i] # 0 /\ w[i] = F[i]
          BY <1>2, <1>3, <4>1, Zenon
        <4>4. PICK j \in P : j = i + 1 + oc
          BY <1>3, <4>1, <4>2, Zenon
        <4>5. j \in 1 .. m + 1
          BY <1>3, Zenon
        <4>6. j >= m + 1 - k /\ ~ (i > m + 1) /\ ~ (i + oc > m + 1)
          BY <2>1, <3>3, <4>1, <4>4, <4>5
        <4>7. Read(j)
          BY <1>8, <4>6, Zenon
        <4>8. g[i] = <<SubSeq(w, i, i + oc)>> \o g[j]
          <5>1. ReadFrom(w, g, i) = <<SubSeq(w, i, i + oc)>> \o g[i + 1 + oc]
            BY <1>2, <4>2, <4>3, <4>6, Zenon DEF ReadFrom, TERMINATOR
          <5>2. QED
            BY <1>6, <4>4, <5>1, Zenon
        <4>9. SubSeq(w, i, i + oc) \in Seq(Int)
          <5>1. \A l \in i .. i + oc : l \in 1 .. m + 1
            BY <4>1, <4>6
          <5>2. \A l \in 1 .. m + 1 : w[l] \in Int
            BY <1>2, ElementOfSeq
          <5>3. i + oc \in Int /\ \A l \in i .. i + oc : w[l] \in Int
            BY <4>1, <5>1, <5>2
          <5>4. QED
            BY <4>1, <5>3, SubSeqProperties
        <4>10. FlattenSeq(g[i]) = SubSeq(w, i, i + oc) \o SubSeq(w, j, m)
          <5>1. FlattenSeq(<<SubSeq(w, i, i + oc)>> \o g[j]) = SubSeq(w, i, i + oc) \o FlattenSeq(g[j])
            BY <4>7, <4>9, FlattenCons
          <5>2. QED
            BY <4>7, <4>8, <5>1, Zenon
        <4>11. SubSeq(w, i, i + oc) \o SubSeq(w, j, m) = SubSeq(w, i, m)
          <5>1. PICK l \in Int : l = i + oc
            BY <4>1
          <5>2. i \in 1 .. m + 1 + 1 /\ l \in i - 1 .. m + 1 /\ m \in l .. m + 1 /\ j = l + 1
            BY <4>1, <4>4, <4>5, <5>1
          <5>3. i \in 1 .. Len(w) + 1 /\ l \in i - 1 .. Len(w) /\ m \in l .. Len(w)
            BY <1>2, <5>2, Zenon
          <5>4. SubSeq(w, i, l) \o SubSeq(w, l + 1, m) = SubSeq(w, i, m)
            BY <1>2, <5>3, ConcatAdjacentSubSeq
          <5>5. QED
            BY <5>1, <5>2, <5>4, Zenon
        <4>12. g[i] \in Seq(Seq(Int))
          <5>1. <<SubSeq(w, i, i + oc)>> \in Seq(Seq(Int))
            BY <4>9
          <5>2. QED
            BY <4>7, <4>8, <5>1, ConcatProperties
        <4>13. QED
          BY <4>10, <4>11, <4>12, Zenon
      <3>4. QED
        BY <3>2, <3>3
    <2>2. k + 1 \in Nat
      OBVIOUS
    <2> HIDE DEF Read
    <2>3. QED
      BY <2>1, <2>2, Zenon
  <1>9. Nat \subseteq Done
    <2> HIDE DEF Done
    <2>1. QED
      BY <1>7, <1>8, SetInduction
  <1>10. 1 >= m + 1 - m
    OBVIOUS
  <1>11. Read(1)
    <2> HIDE DEF Read
    <2>1. QED
      BY <1>3, <1>9, <1>10, Zenon
  <1>12. SubSeq(w, 1, m) = F
    <2>1. \A i \in 1 .. m : w[i] \in Int
      <3>1. \A i \in 1 .. m : F[i] \in Int
        BY <1>1, ElementOfSeq
      <3>2. QED
        BY <1>2, <3>1
    <2>2. 1 \in Int /\ m \in Int /\ m - 1 + 1 = m
      OBVIOUS
    <2>3. /\ SubSeq(w, 1, m) \in Seq(Int)
          /\ Len(SubSeq(w, 1, m)) = IF 1 <= m THEN m - 1 + 1 ELSE 0
          /\ \A i \in 1 .. m - 1 + 1 : SubSeq(w, 1, m)[i] = w[1 + i - 1]
      BY <2>1, <2>2, SubSeqProperties
    <2>4. Len(SubSeq(w, 1, m)) = m
      BY <2>3
    <2>5. \A i \in 1 .. m : SubSeq(w, 1, m)[i] = F[i]
      <3>1. ASSUME NEW i \in 1 .. m PROVE SubSeq(w, 1, m)[i] = F[i]
        <4>1. i \in 1 .. m - 1 + 1 /\ 1 + i - 1 = i
          OBVIOUS
        <4>2. QED
          BY <1>2, <2>3, <4>1
      <3>2. QED
        BY <3>1, Zenon
    <2>6. QED
      BY <1>1, <2>3, <2>4, <2>5, SeqEqual
  <1>13. QED
    BY <1>5, <1>11, <1>12, Zenon DEF w

-----------------------------------------------------------------------------
\* The inductive invariant: there are three fields, and the last operation was exact.
EncInv == DOMAIN fields = Targets /\ SetIsExact

\* A list of values that is appended to an empty record.
LEMMA AppendedExactly ==
  ASSUME DOMAIN fields = Targets, NEW target \in Targets, NEW values \in ArgumentLists, append_values_to(target, values)
  PROVE  EncInv'
  <1>1. /\ fields' = [fields EXCEPT ![target].buffer = ReadValues(append_values(values))]
        /\ last' = [op |-> "values", field |-> target, result |-> SUCCESS, value |-> values]
        /\ fields[target] = EmptyField
    BY Zenon DEF append_values_to
  <1>2. DOMAIN fields' = Targets
    BY <1>1, Zenon
  <1>3. fields'[target].buffer = ReadValues(append_values(values))
    BY <1>1 DEF EmptyField
  <1>4. FlattenSeq(ReadValues(append_values(values))) = FlattenSeq(values)
    <2>1. values \in Seq(Seq(Int)) /\ \A i \in 1 .. Len(values) : MacroValue(values[i])
      BY EncAssumption, Zenon DEF EncAssumption
    <2>2. FlattenSeq(values) \in Seq(Int) /\ \E P : Framed(FlattenSeq(values), P)
      BY <2>1, FramedLists, Zenon
    <2>3. QED
      BY <2>2, ReadsBack, Zenon DEF append_values
  <1>5. last'.op = "values" /\ last'.field = target /\ last'.value = values
    BY <1>1
  <1>6. SetIsExact'
    BY <1>3, <1>4, <1>5 DEF SetIsExact
  <1>7. QED
    BY <1>2, <1>6 DEF EncInv

\* What a flush leaves of a field that holds one unflushed value.
LEMMA FlushedField ==
  ASSUME NEW b
  PROVE  dynamic_field_flush([scopes |-> << >>, buffer |-> b, data |-> << >>])
           = [scopes |-> << >>, buffer |-> b, data |-> b]
  <1> DEFINE f == [scopes |-> << >>, buffer |-> b, data |-> << >>]
  <1>1. f.buffer = b
    OBVIOUS
  <1>2. [f EXCEPT !.scopes = << >>, !.data = b] = [scopes |-> << >>, buffer |-> b, data |-> b]
    <2>1. [f EXCEPT !.scopes = << >>] = f
      OBVIOUS
    <2>2. [f EXCEPT !.data = b] = [scopes |-> << >>, buffer |-> b, data |-> b]
      OBVIOUS
    <2> HIDE DEF f
    <2>3. [f EXCEPT !.scopes = << >>, !.data = b] = [[f EXCEPT !.scopes = << >>] EXCEPT !.data = b]
      BY Zenon
    <2>4. QED
      BY <2>1, <2>2, <2>3, Zenon
  <1>3. dynamic_field_flush(f) = [f EXCEPT !.scopes = << >>, !.data = f.buffer]
    BY Zenon DEF dynamic_field_flush
  <1> HIDE DEF f
  <1>4. dynamic_field_flush(f) = [scopes |-> << >>, buffer |-> b, data |-> b]
    BY <1>1, <1>2, <1>3, Zenon
  <1>5. QED
    BY <1>4, Zenon DEF f

\* The settled field of the property, written out.
LEMMA SettledField ==
  ASSUME NEW b
  PROVE  [EmptyField EXCEPT !.buffer = b, !.data = b]
           = [scopes |-> << >>, buffer |-> b, data |-> b]
  <1> DEFINE f == [EmptyField EXCEPT !.buffer = b]
  <1>1. f = [scopes |-> << >>, buffer |-> b, data |-> << >>]
    BY DEF EmptyField
  <1> HIDE DEF f
  <1>2. [f EXCEPT !.data = b] = [scopes |-> << >>, buffer |-> b, data |-> b]
    BY <1>1
  <1>3. [EmptyField EXCEPT !.buffer = b, !.data = b] = [f EXCEPT !.data = b]
    BY Zenon DEF f
  <1>4. QED
    BY <1>2, <1>3, Zenon

\* A field that is set whole.
LEMMA SetsExactly ==
  ASSUME NEW target \in Targets, NEW v, NEW fails \in 0 .. 5, NEW resets \in Seq(Targets),
         \E i \in 1 .. Len(resets) : resets[i] = target,
         target = ROOT => \A f \in Targets : \E i \in 1 .. Len(resets) : resets[i] = f,
         SetOutcome(target, v, fails, resets)
  PROVE  EncInv'
  <1> DEFINE n == Len(resets)
             done(i) == fails = 0 \/ i < fails
             reset == [f \in Targets |-> IF \E i \in 1 .. n : resets[i] = f /\ done(i)
                                         THEN dynamic_field_reset(fields[f]) ELSE fields[f]]
             full == IF done(n + 1) THEN dynamic_field_append(reset[target], v) ELSE reset[target]
  <1>1. /\ fields' = [reset EXCEPT ![target] = IF done(n + 2) THEN dynamic_field_flush(full) ELSE full]
        /\ last' = [op |-> "set", field |-> target, value |-> v,
                    result |-> IF fails = 0 THEN SUCCESS ELSE ALLOCATION_ERROR]
    BY Zenon DEF SetOutcome
  <1>2. DOMAIN fields' = Targets
    BY <1>1
  <1>3. last'.op = "set" /\ last'.field = target /\ last'.value = v
    BY <1>1
  <1>4. CASE fails # 0
    <2>1. last'.result # SUCCESS
      BY <1>1, <1>4 DEF SUCCESS, ALLOCATION_ERROR
    <2>2. SetIsExact'
      BY <2>1, Zenon DEF SetIsExact
    <2>3. QED
      BY <1>2, <2>2, Zenon DEF EncInv
  <1>5. CASE fails = 0
    <2>1. \A i : done(i)
      BY <1>5
    <2>2. \A f \in Targets : (\E i \in 1 .. n : resets[i] = f) => reset[f] = EmptyField
      BY <2>1, Zenon DEF dynamic_field_reset
    <2> HIDE DEF n, done, reset
    <2>3. reset[target] = EmptyField
      BY <2>2, Zenon DEF n
    <2>4. full = [EmptyField EXCEPT !.buffer = Append(@, v)]
      BY <2>1, <2>3, Zenon DEF dynamic_field_append
    <2>5. full = [scopes |-> << >>, buffer |-> <<v>>, data |-> << >>]
      BY <2>4 DEF EmptyField
    <2> HIDE DEF full
    <2>6. fields' = [reset EXCEPT ![target] = dynamic_field_flush(full)]
      BY <1>1, <2>1, Zenon
    <2>7. dynamic_field_flush(full) = [scopes |-> << >>, buffer |-> <<v>>, data |-> <<v>>]
      BY <2>5, FlushedField, Zenon
    <2>8. DOMAIN reset = Targets
      BY DEF reset
    <2>9. fields'[target] = [EmptyField EXCEPT !.buffer = <<v>>, !.data = <<v>>]
      <3>1. fields'[target] = dynamic_field_flush(full)
        BY <2>6, <2>8, Zenon
      <3>2. QED
        BY <2>7, <3>1, SettledField, Zenon
    <2>10. target = ROOT => \A f \in Targets \ {ROOT} : fields'[f] = EmptyField
      <3>1. ASSUME target = ROOT, NEW f \in Targets \ {ROOT} PROVE fields'[f] = EmptyField
        <4>1. reset[f] = EmptyField
          BY <2>2, <3>1, Zenon DEF n
        <4>2. QED
          BY <2>6, <2>8, <3>1, <4>1
      <3>2. QED
        BY <3>1, Zenon
    <2>11. SetIsExact'
      BY <1>3, <2>9, <2>10 DEF SetIsExact
    <2>12. QED
      BY <1>2, <2>11, Zenon DEF EncInv
  <1>6. QED
    BY <1>4, <1>5

\* An edit of a field claims nothing about it.
LEMMA EditsExactly ==
  ASSUME DOMAIN fields = Targets, NEW target, NEW new,
         fields' = IF get_field(target) = SUCCESS THEN [fields EXCEPT ![target] = new] ELSE fields,
         last' = [op |-> "edit", field |-> target, result |-> get_field(target), value |-> << >>]
  PROVE  EncInv'
  <1>1. DOMAIN fields' = Targets
    BY Zenon
  <1>2. last'.op = "edit"
    OBVIOUS
  <1>3. SetIsExact'
    BY <1>2 DEF SetIsExact
  <1>4. QED
    BY <1>1, <1>3, Zenon DEF EncInv

\* Opening, committing and rolling back scopes.
LEMMA ScopesExactly ==
  ASSUME EncInv, NEW target, Scopes(target)
  PROVE  EncInv'
  <1>1. DOMAIN fields = Targets
    BY DEF EncInv
  <1>2. PICK new : /\ fields' = IF get_field(target) = SUCCESS THEN [fields EXCEPT ![target] = new] ELSE fields
                   /\ last' = [op |-> "edit", field |-> target, result |-> get_field(target), value |-> << >>]
    BY Zenon DEF Scopes, begin_map, begin_array, commit_map, commit_array, rollback_map, rollback_array, OnField
  <1>3. QED
    BY <1>1, <1>2, EditsExactly, Zenon

\* Appending a value.
LEMMA AppendsExactly ==
  ASSUME EncInv, NEW v, append_root(v) \/ append_metadata(v) \/ append_body(v)
  PROVE  EncInv'
  <1>1. DOMAIN fields = Targets
    BY DEF EncInv
  <1>2. PICK target, new :
          /\ fields' = IF get_field(target) = SUCCESS THEN [fields EXCEPT ![target] = new] ELSE fields
          /\ last' = [op |-> "edit", field |-> target, result |-> get_field(target), value |-> << >>]
    BY Zenon DEF append_root, append_metadata, append_body, OnField
  <1>3. QED
    BY <1>1, <1>2, EditsExactly, Zenon

\* The fields that each of the functions resets.
LEMMA SettersExactly ==
  ASSUME NEW v, NEW fails \in 0 .. 5,
         \/ set_root_from_msgpack_object(v, fails) \/ set_root_from_raw_msgpack(v, fails)
         \/ set_body_from_msgpack_object(v, fails) \/ set_body_from_raw_msgpack(v, fails)
         \/ set_metadata_from_msgpack_object(v, fails) \/ set_metadata_from_raw_msgpack(v, fails)
  PROVE  EncInv'
  <1>1. CASE SetOutcome(ROOT, v, fails, <<METADATA, BODY, ROOT>>)
    <2> DEFINE resets == <<METADATA, BODY, ROOT>>
    <2>1. /\ resets \in Seq(Targets) /\ ROOT \in Targets
          /\ \A f \in Targets : \E i \in 1 .. Len(resets) : resets[i] = f
      BY DEF Targets, ROOT, METADATA, BODY
    <2> HIDE DEF resets
    <2>2. SetOutcome(ROOT, v, fails, resets)
      BY <1>1 DEF resets
    <2>3. QED
      BY <2>1, <2>2, SetsExactly, Zenon
  <1>2. ASSUME NEW target \in {BODY, METADATA}, SetOutcome(target, v, fails, <<target>>)
        PROVE  EncInv'
    <2> DEFINE resets == <<target>>
    <2>1. /\ resets \in Seq(Targets) /\ target \in Targets /\ target # ROOT
          /\ \E i \in 1 .. Len(resets) : resets[i] = target
      BY DEF Targets, ROOT, METADATA, BODY
    <2> HIDE DEF resets
    <2>2. SetOutcome(target, v, fails, resets)
      BY <1>2 DEF resets
    <2>3. QED
      BY <2>1, <2>2, SetsExactly, Zenon
  <1>3. QED
    BY <1>1, <1>2, Zenon DEF set_root_from_msgpack_object, set_root_from_raw_msgpack, set_body_from_msgpack_object,
         set_body_from_raw_msgpack, set_metadata_from_msgpack_object, set_metadata_from_raw_msgpack

\* One call of the encoder keeps the invariant.
LEMMA EncStep ==
  ASSUME EncInv, [EncNext]_encVars
  PROVE  EncInv'
  <1>1. CASE UNCHANGED encVars
    BY <1>1, Zenon DEF encVars, EncInv, SetIsExact
  <1>2. CASE root_scopes \/ metadata_scopes \/ body_scopes \/ Scopes(0)
    BY <1>2, ScopesExactly, Zenon DEF root_scopes, metadata_scopes, body_scopes
  <1>3. CASE \E v \in EncValues : append_root(v) \/ append_metadata(v) \/ append_body(v)
    BY <1>3, AppendsExactly, Zenon
  <1>4. CASE \E v \in EncValues, fails \in 0 .. 5 :
               \/ set_root_from_msgpack_object(v, fails) \/ set_root_from_raw_msgpack(v, fails)
               \/ set_body_from_msgpack_object(v, fails) \/ set_body_from_raw_msgpack(v, fails)
               \/ set_metadata_from_msgpack_object(v, fails) \/ set_metadata_from_raw_msgpack(v, fails)
    BY <1>4, SettersExactly, Zenon
  <1>5. CASE \E t \in Targets, values \in ArgumentLists : append_values_to(t, values)
    BY <1>5, AppendedExactly, Zenon DEF EncInv
  <1>6. QED
    BY <1>1, <1>2, <1>3, <1>4, <1>5, Zenon DEF EncNext

\* For all argument lists that the value macros can yield, and whatever was done before: a
\* value list arrives word for word, and a successful set leaves exactly its value
\* (flb_log_event_encoder.h:78-194, flb_log_event_encoder_root_macros.h:129-188).
THEOREM EncoderIsExact == EncSpec => []SetIsExact
  <1>1. EncInit => EncInv
    BY DEF EncInit, EncInv, SetIsExact
  <1>2. EncInv /\ [EncNext]_encVars => EncInv'
    BY EncStep
  <1>3. EncInv => SetIsExact
    BY DEF EncInv
  <1>4. QED
    BY <1>1, <1>2, <1>3, PTL DEF EncSpec

-----------------------------------------------------------------------------
(* The codecs. *)

\* Byte i of a sequence, 0 behind its end: what was read, as plain numbers.
ByteAt(s, i) == IF i <= Len(s) THEN s[i] ELSE 0

\* A continuation byte, and a second byte that leads to no overlong form, surrogate or too
\* large code point.
Continues(x) == 128 <= x /\ x <= 191
Fits(x1, x2) == /\ Continues(x2)
                /\ x1 = 224 => 160 <= x2
                /\ x1 = 237 => x2 <= 159
                /\ x1 = 240 => 144 <= x2
                /\ x1 = 244 => x2 <= 143

\* The well-formed sequences of n bytes, byte by byte, and their code points.
GoodAt(n, x1, x2, x3, x4) ==
  \/ n = 1 /\ 0 <= x1 /\ x1 <= 127
  \/ n = 2 /\ 194 <= x1 /\ x1 <= 223 /\ Fits(x1, x2)
  \/ n = 3 /\ 224 <= x1 /\ x1 <= 239 /\ Fits(x1, x2) /\ Continues(x3)
  \/ n = 4 /\ 240 <= x1 /\ x1 <= 244 /\ Fits(x1, x2) /\ Continues(x3) /\ Continues(x4)

CodeAt(n, x1, x2, x3, x4) ==
  IF n = 1 THEN x1
  ELSE IF n = 2 THEN (x1 - 192) * 64 + (x2 - 128)
  ELSE IF n = 3 THEN (x1 - 224) * 4096 + (x2 - 128) * 64 + (x3 - 128)
  ELSE (x1 - 240) * 262144 + (x2 - 128) * 4096 + (x3 - 128) * 64 + (x4 - 128)

\* What has been read when the automaton is in a state that is neither ACCEPT nor REJECT.
PendingAt(n, x1, x2, x3, st, cp) ==
  \/ n = 1 /\ 194 <= x1 /\ x1 <= 223 /\ st = 2 /\ cp = x1 - 192
  \/ /\ n = 1 /\ 224 <= x1 /\ x1 <= 239 /\ cp = x1 - 224
     /\ st = IF x1 = 224 THEN 4 ELSE IF x1 = 237 THEN 5 ELSE 3
  \/ /\ n = 1 /\ 240 <= x1 /\ x1 <= 244 /\ cp = x1 - 240
     /\ st = IF x1 = 240 THEN 6 ELSE IF x1 = 244 THEN 8 ELSE 7
  \/ n = 2 /\ 224 <= x1 /\ x1 <= 239 /\ Fits(x1, x2) /\ st = 2 /\ cp = (x1 - 224) * 64 + (x2 - 128)
  \/ n = 2 /\ 240 <= x1 /\ x1 <= 244 /\ Fits(x1, x2) /\ st = 3 /\ cp = (x1 - 240) * 64 + (x2 - 128)
  \/ /\ n = 3 /\ 240 <= x1 /\ x1 <= 244 /\ Fits(x1, x2) /\ Continues(x3) /\ st = 2
     /\ cp = (x1 - 240) * 4096 + (x2 - 128) * 64 + (x3 - 128)

\* Some byte that was read cannot stand where it stands.
BrokenAt(n, x1, x2, x3, x4) ==
  \/ 128 <= x1 /\ x1 <= 193
  \/ 245 <= x1
  \/ n >= 2 /\ ~ Fits(x1, x2)
  \/ n >= 3 /\ ~ Continues(x3)
  \/ n >= 4 /\ ~ Continues(x4)

Good(s)            == GoodAt(Len(s), ByteAt(s, 1), ByteAt(s, 2), ByteAt(s, 3), ByteAt(s, 4))
Pending(s, st, cp) == PendingAt(Len(s), ByteAt(s, 1), ByteAt(s, 2), ByteAt(s, 3), st, cp)
Broken(s)          == BrokenAt(Len(s), ByteAt(s, 1), ByteAt(s, 2), ByteAt(s, 3), ByteAt(s, 4))

\* The inductive invariant of the automaton.
DecodeInv ==
  /\ bytes \in Seq(0 .. 255) /\ Len(bytes) <= 4 /\ state \in 0 .. 8 /\ codep \in Nat
  /\ state = 0 => bytes = << >> \/ (Good(bytes) /\ codep = CodePointOf(bytes))
  /\ state = 1 => bytes # << >> /\ Broken(bytes)
  /\ state \in 2 .. 8 => bytes # << >> /\ Len(bytes) <= 3 /\ Pending(bytes, state, codep)

\* The powers of two that the shifts and masks multiply and divide by.
LEMMA PowersOfTwo == 2^2 = 4 /\ 2^3 = 8 /\ 2^4 = 16 /\ 2^5 = 32 /\ 2^6 = 64 /\ 2^8 = 256
  BY SMT

\* The class of each byte and the bits of it that the decoder keeps.
LEMMA ClassOf ==
  ASSUME NEW b \in 0 .. 255
  PROVE  /\ b \in 0 .. 127   => ByteClass(b) = 0 /\ LowBits(b, 8 - ByteClass(b)) = b
         /\ b \in 128 .. 143 => ByteClass(b) = 1 /\ LowBits(b, 6) = b - 128
         /\ b \in 144 .. 159 => ByteClass(b) = 9 /\ LowBits(b, 6) = b - 128
         /\ b \in 160 .. 191 => ByteClass(b) = 7 /\ LowBits(b, 6) = b - 128
         /\ b \in {192, 193} \cup 245 .. 255 => ByteClass(b) = 8
         /\ b \in 194 .. 223 => ByteClass(b) = 2 /\ LowBits(b, 8 - ByteClass(b)) = b - 192
         /\ b \in 224 .. 239 => /\ ByteClass(b) = IF b = 224 THEN 10 ELSE IF b = 237 THEN 4 ELSE 3
                                /\ LowBits(b, 8 - ByteClass(b)) = b - 224
         /\ b \in 240 .. 244 => /\ ByteClass(b) = IF b = 240 THEN 11 ELSE IF b = 244 THEN 5 ELSE 6
                                /\ LowBits(b, 8 - ByteClass(b)) = b - 240
  <1>1. CASE b \in 0 .. 127
    <2>1. ByteClass(b) = 0
      BY <1>1 DEF ByteClass
    <2>2. LowBits(b, 8 - 0) = b
      BY <1>1, PowersOfTwo DEF LowBits
    <2>3. QED
      BY <1>1, <2>1, <2>2
  <1>2. CASE b \in 128 .. 191
    <2>1. LowBits(b, 6) = b - 128
      BY <1>2, PowersOfTwo DEF LowBits
    <2>2. QED
      BY <1>2, <2>1 DEF ByteClass
  <1>3. CASE b \in {192, 193} \cup 245 .. 255
    BY <1>3 DEF ByteClass
  <1>4. CASE b \in 194 .. 223
    <2>1. ByteClass(b) = 2
      BY <1>4 DEF ByteClass
    <2>2. LowBits(b, 8 - 2) = b - 192
      BY <1>4, PowersOfTwo DEF LowBits
    <2>3. QED
      BY <1>4, <2>1, <2>2
  <1>5. CASE b \in 224 .. 239
    <2>1. ByteClass(b) = IF b = 224 THEN 10 ELSE IF b = 237 THEN 4 ELSE 3
      BY <1>5 DEF ByteClass
    <2>2. LowBits(b, 8 - ByteClass(b)) = b - 224
      <3>1. CASE b = 224
        BY <3>1, <2>1 DEF LowBits
      <3>2. CASE b = 237
        <4>1. ByteClass(b) = 4
          BY <3>2, <2>1
        <4>2. LowBits(b, 8 - 4) = b - 224
          BY <3>2, PowersOfTwo DEF LowBits
        <4>3. QED
          BY <4>1, <4>2
      <3>3. CASE b # 224 /\ b # 237
        <4>1. ByteClass(b) = 3
          BY <3>3, <2>1
        <4>2. LowBits(b, 8 - 3) = b - 224
          BY <3>3, <1>5, PowersOfTwo DEF LowBits
        <4>3. QED
          BY <4>1, <4>2
      <3>4. QED
        BY <3>1, <3>2, <3>3
    <2>3. QED
      BY <1>5, <2>1, <2>2
  <1>6. CASE b \in 240 .. 244
    <2>1. ByteClass(b) = IF b = 240 THEN 11 ELSE IF b = 244 THEN 5 ELSE 6
      BY <1>6 DEF ByteClass
    <2>2. LowBits(b, 8 - ByteClass(b)) = b - 240
      <3>1. CASE b = 240
        BY <3>1, <2>1 DEF LowBits
      <3>2. CASE b = 244
        <4>1. ByteClass(b) = 5
          BY <3>2, <2>1
        <4>2. LowBits(b, 8 - 5) = b - 240
          BY <3>2, PowersOfTwo DEF LowBits
        <4>3. QED
          BY <4>1, <4>2
      <3>3. CASE b # 240 /\ b # 244
        <4>1. ByteClass(b) = 6
          BY <3>3, <2>1
        <4>2. LowBits(b, 8 - 6) = b - 240
          BY <3>3, <1>6, PowersOfTwo DEF LowBits
        <4>3. QED
          BY <4>1, <4>2
      <3>4. QED
        BY <3>1, <3>2, <3>3
    <2>3. QED
      BY <1>6, <2>1, <2>2
  <1>7. QED
    BY <1>1, <1>2, <1>3, <1>4, <1>5, <1>6

\* The first row of the table of transitions, and where a continuation byte leads in the others.
LEMMA FirstRow ==
  /\ Transition(0, 0) = 0 /\ Transition(0, 1) = 1 /\ Transition(0, 2) = 2 /\ Transition(0, 3) = 3
  /\ Transition(0, 4) = 5 /\ Transition(0, 5) = 8 /\ Transition(0, 6) = 7 /\ Transition(0, 7) = 1
  /\ Transition(0, 8) = 1 /\ Transition(0, 9) = 1 /\ Transition(0, 10) = 4 /\ Transition(0, 11) = 6
  BY DEF Transition

\* Every other row accepts continuation bytes only, and each by its own narrower range.
LEMMA OtherRows ==
  ASSUME NEW s \in 2 .. 8, NEW type \in 0 .. 11
  PROVE  /\ type \notin {1, 7, 9} => Transition(s, type) = REJECT
         /\ type \in {1, 7, 9} =>
              /\ s = 2 => Transition(s, type) = ACCEPT
              /\ s = 3 => Transition(s, type) = 2
              /\ s = 4 => Transition(s, type) = IF type = 7 THEN 2 ELSE REJECT
              /\ s = 5 => Transition(s, type) = IF type = 7 THEN REJECT ELSE 2
              /\ s = 6 => Transition(s, type) = IF type = 1 THEN REJECT ELSE 3
              /\ s = 7 => Transition(s, type) = 3
              /\ s = 8 => Transition(s, type) = IF type = 1 THEN 3 ELSE REJECT
  BY DEF Transition, ACCEPT, REJECT

\* The bytes of a sequence are bytes, also behind its end.
LEMMA AtType ==
  ASSUME NEW s \in Seq(0 .. 255), NEW i \in 1 .. 4
  PROVE  ByteAt(s, i) \in 0 .. 255
  <1>1. CASE i <= Len(s)
    <2>1. i \in 1 .. Len(s)
      BY <1>1, LenProperties
    <2>2. s[i] \in 0 .. 255
      BY <2>1, ElementOfSeq
    <2>3. QED
      BY <1>1, <2>2 DEF ByteAt
  <1>2. CASE ~ (i <= Len(s))
    BY <1>2 DEF ByteAt
  <1>3. QED
    BY <1>1, <1>2

\* The bytes after another byte was read.
LEMMA AtAppend ==
  ASSUME NEW s \in Seq(0 .. 255), NEW b \in 0 .. 255
  PROVE  /\ Append(s, b) \in Seq(0 .. 255) /\ Append(s, b) # << >> /\ Len(Append(s, b)) = Len(s) + 1
         /\ \A i \in 1 .. 4 : ByteAt(Append(s, b), i) = IF i <= Len(s) THEN ByteAt(s, i)
                                                    ELSE IF i = Len(s) + 1 THEN b ELSE 0
  <1>0. PICK n \in Nat : n = Len(s)
    BY LenProperties, Zenon
  <1>1. /\ Append(s, b) \in Seq(0 .. 255) /\ Append(s, b) # << >> /\ Len(Append(s, b)) = n + 1
        /\ Append(s, b)[n + 1] = b /\ \A i \in 1 .. n : Append(s, b)[i] = s[i]
    <2>1. /\ Append(s, b) \in Seq(0 .. 255) /\ Append(s, b) # << >> /\ Len(Append(s, b)) = Len(s) + 1
          /\ Append(s, b)[Len(s) + 1] = b /\ \A i \in 1 .. Len(s) : Append(s, b)[i] = s[i]
      BY SMT
    <2>2. QED
      BY <1>0, <2>1, Zenon
  <1>2. ASSUME NEW i \in 1 .. 4
        PROVE  ByteAt(Append(s, b), i) = IF i <= n THEN ByteAt(s, i) ELSE IF i = n + 1 THEN b ELSE 0
    <2>1. CASE i <= n
      <3>1. Append(s, b)[i] = s[i] /\ i <= n + 1
        BY <1>1, <2>1
      <3>2. QED
        BY <1>0, <1>1, <2>1, <3>1 DEF ByteAt
    <2>2. CASE i = n + 1
      <3>1. ~ (i <= n) /\ i <= n + 1
        BY <2>2
      <3>2. QED
        BY <1>1, <2>2, <3>1 DEF ByteAt
    <2>3. CASE i > n + 1
      <3>1. ~ (i <= n) /\ ~ (i <= n + 1) /\ i # n + 1
        BY <2>3
      <3>2. QED
        BY <1>1, <3>1 DEF ByteAt
    <2>4. QED
      BY <2>1, <2>2, <2>3
  <1>3. QED
    BY <1>0, <1>1, <1>2, Zenon

\* All continuation bytes continue.
LEMMA TailAt ==
  ASSUME NEW s \in Seq(0 .. 255), NEW n \in 1 .. 4, n = Len(s)
  PROVE  Tail_(s) <=> /\ n >= 2 => Continues(ByteAt(s, 2))
                      /\ n >= 3 => Continues(ByteAt(s, 3))
                      /\ n >= 4 => Continues(ByteAt(s, 4))
  <1>1. \A i \in 1 .. 4 : i <= n => s[i] = ByteAt(s, i) /\ ByteAt(s, i) \in 0 .. 255
    BY AtType DEF ByteAt
  <1>2. ASSUME NEW i \in 2 .. n PROVE s[i] \in 128 .. 191 <=> Continues(ByteAt(s, i))
    <2>1. i \in 1 .. 4 /\ i <= n
      OBVIOUS
    <2>2. s[i] = ByteAt(s, i) /\ ByteAt(s, i) \in 0 .. 255
      BY <1>1, <2>1
    <2>3. PICK x \in 0 .. 255 : s[i] = x /\ ByteAt(s, i) = x
      BY <2>2
    <2>4. x \in 128 .. 191 <=> Continues(x)
      BY DEF Continues
    <2>5. QED
      BY <2>3, <2>4
  <1>3. Tail_(s) <=> \A i \in 2 .. n : Continues(ByteAt(s, i))
    BY <1>2 DEF Tail_
  <1>4. n >= 2 <=> 2 \in 2 .. n
    OBVIOUS
  <1>5. n >= 3 <=> 3 \in 2 .. n
    OBVIOUS
  <1>6. n >= 4 <=> 4 \in 2 .. n
    OBVIOUS
  <1>7. \A i \in 2 .. n : i = 2 \/ i = 3 \/ i = 4
    OBVIOUS
  <1>8. QED
    BY <1>3, <1>4, <1>5, <1>6, <1>7, Zenon

\* The code point of a sequence, byte by byte.
LEMMA CodeOf ==
  ASSUME NEW s \in Seq(0 .. 255), NEW n \in 1 .. 4, n = Len(s)
  PROVE  CodePointOf(s) = CodeAt(n, ByteAt(s, 1), ByteAt(s, 2), ByteAt(s, 3), ByteAt(s, 4))
  <1>1. \A i \in 1 .. 4 : i <= n => s[i] = ByteAt(s, i)
    BY DEF ByteAt
  <1>2. CASE n = 1
    BY <1>1, <1>2 DEF CodePointOf, CodeAt
  <1>3. CASE n = 2
    BY <1>1, <1>3 DEF CodePointOf, CodeAt
  <1>4. CASE n = 3
    BY <1>1, <1>4 DEF CodePointOf, CodeAt
  <1>5. CASE n = 4
    BY <1>1, <1>5 DEF CodePointOf, CodeAt
  <1>6. QED
    BY <1>2, <1>3, <1>4, <1>5

\* In numbers: the reference's lead byte, continuation bytes and range of the code point
\* say what GoodAt says byte by byte.
LEMMA GoodNumbers ==
  ASSUME NEW n \in 1 .. 4, NEW x1 \in 0 .. 255, NEW x2 \in 0 .. 255, NEW x3 \in 0 .. 255, NEW x4 \in 0 .. 255
  PROVE  GoodAt(n, x1, x2, x3, x4) <=>
           /\ x1 \in LeadOf(n)
           /\ n >= 2 => Continues(x2)
           /\ n >= 3 => Continues(x3)
           /\ n >= 4 => Continues(x4)
           /\ ScalarOf(n, CodeAt(n, x1, x2, x3, x4))
  <1>1. LeadOf(1) = 0 .. 127 /\ LeadOf(2) = 192 .. 223 /\ LeadOf(3) = 224 .. 239 /\ LeadOf(4) = 240 .. 247
    BY DEF LeadOf
  <1>2. CASE n = 1
    BY <1>1, <1>2 DEF GoodAt, ScalarOf, CodeAt
  <1>3. CASE n = 2
    BY <1>1, <1>3 DEF GoodAt, ScalarOf, CodeAt, Continues, Fits
  <1>4. CASE n = 3
    BY <1>1, <1>4 DEF GoodAt, ScalarOf, CodeAt, Continues, Fits
  <1>5. CASE n = 4
    BY <1>1, <1>5 DEF GoodAt, ScalarOf, CodeAt, Continues, Fits
  <1>6. QED
    BY <1>2, <1>3, <1>4, <1>5

\* The well-formed sequences of the reference, byte by byte.
LEMMA WellFormedIsGood ==
  ASSUME NEW s \in Seq(0 .. 255)
  PROVE  WellFormed(s) <=> Len(s) \in 1 .. 4 /\ Good(s)
  <1>1. CASE Len(s) \notin 1 .. 4
    BY <1>1 DEF WellFormed
  <1>2. CASE Len(s) \in 1 .. 4
    <2>1. PICK n \in 1 .. 4 : n = Len(s)
      BY <1>2
    <2>2. s[1] = ByteAt(s, 1)
      BY <2>1 DEF ByteAt
    <2>3. WellFormed(s) <=> /\ ByteAt(s, 1) \in LeadOf(n) /\ Tail_(s)
                            /\ ScalarOf(n, CodeAt(n, ByteAt(s, 1), ByteAt(s, 2), ByteAt(s, 3), ByteAt(s, 4)))
      BY <2>1, <2>2, CodeOf DEF WellFormed
    <2>4. WellFormed(s) <=> GoodAt(n, ByteAt(s, 1), ByteAt(s, 2), ByteAt(s, 3), ByteAt(s, 4))
      <3>1. /\ ByteAt(s, 1) \in 0 .. 255 /\ ByteAt(s, 2) \in 0 .. 255
            /\ ByteAt(s, 3) \in 0 .. 255 /\ ByteAt(s, 4) \in 0 .. 255
        BY AtType
      <3>2. Tail_(s) <=> /\ n >= 2 => Continues(ByteAt(s, 2))
                         /\ n >= 3 => Continues(ByteAt(s, 3))
                         /\ n >= 4 => Continues(ByteAt(s, 4))
        BY <2>1, TailAt
      <3>3. GoodAt(n, ByteAt(s, 1), ByteAt(s, 2), ByteAt(s, 3), ByteAt(s, 4)) <=>
              /\ ByteAt(s, 1) \in LeadOf(n)
              /\ n >= 2 => Continues(ByteAt(s, 2))
              /\ n >= 3 => Continues(ByteAt(s, 3))
              /\ n >= 4 => Continues(ByteAt(s, 4))
              /\ ScalarOf(n, CodeAt(n, ByteAt(s, 1), ByteAt(s, 2), ByteAt(s, 3), ByteAt(s, 4)))
        BY <3>1, GoodNumbers
      <3>4. QED
        BY <2>3, <3>2, <3>3, Zenon
    <2>5. QED
      BY <2>1, <2>4 DEF Good
  <1>3. QED
    BY <1>1, <1>2

\* The first byte of a sequence.
LEMMA FirstByte ==
  ASSUME DecodeInv, NEW b \in 0 .. 255, flb_utf8_decode(b), state = 0
  PROVE  DecodeInv'
  <1>1. /\ state' = Transition(0, ByteClass(b))
        /\ codep' = IF state' = 1 THEN 0 ELSE LowBits(b, 8 - ByteClass(b))
        /\ bytes' = <<b>>
    BY DEF flb_utf8_decode, ACCEPT, REJECT
  <1>2. bytes' \in Seq(0 .. 255) /\ bytes' # << >> /\ Len(bytes') = 1
    BY <1>1
  <1>3. ByteAt(bytes', 1) = b /\ ByteAt(bytes', 2) = 0 /\ ByteAt(bytes', 3) = 0 /\ ByteAt(bytes', 4) = 0
    BY <1>1 DEF ByteAt
  <1>4. CodePointOf(bytes') = b
    BY <1>2, <1>3, CodeOf DEF CodeAt
  <1>5. CASE b \in 0 .. 127
    <2>1. state' = 0 /\ codep' = b
      BY <1>1, <1>5, ClassOf, FirstRow
    <2>2. Good(bytes')
      BY <1>2, <1>3, <1>5 DEF Good, GoodAt
    <2>3. QED
      BY <1>2, <1>4, <2>1, <2>2 DEF DecodeInv
  <1>6. CASE b \in 128 .. 193 \cup 245 .. 255
    <2>1. ByteClass(b) \in {1, 7, 8, 9}
      BY <1>6, ClassOf
    <2>2. state' = 1 /\ codep' = 0
      BY <1>1, <2>1, FirstRow
    <2>3. Broken(bytes')
      BY <1>2, <1>3, <1>6 DEF Broken, BrokenAt
    <2>4. QED
      BY <1>2, <2>2, <2>3 DEF DecodeInv
  <1>7. CASE b \in 194 .. 244
    <2>1. state' \in 2 .. 8 /\ codep' \in Nat /\ PendingAt(1, b, 0, 0, state', codep')
      <3>1. CASE b \in 194 .. 223
        BY <1>1, <3>1, ClassOf, FirstRow DEF PendingAt
      <3>2. CASE b \in 224 .. 239
        BY <1>1, <3>2, ClassOf, FirstRow DEF PendingAt
      <3>3. CASE b \in 240 .. 244
        BY <1>1, <3>3, ClassOf, FirstRow DEF PendingAt
      <3>4. QED
        BY <1>7, <3>1, <3>2, <3>3
    <2>2. Pending(bytes', state', codep')
      BY <1>2, <1>3, <2>1 DEF Pending
    <2>3. QED
      BY <1>2, <2>1, <2>2 DEF DecodeInv
  <1>8. QED
    BY <1>5, <1>6, <1>7

\* In numbers: where a byte leads that does not continue what was read.
LEMMA OtherByteNumbers ==
  ASSUME NEW b \in 0 .. 255, b \notin 128 .. 191, NEW st \in 2 .. 8
  PROVE  Transition(st, ByteClass(b)) = 1
  <1>1. ByteClass(b) \in 0 .. 11 /\ ByteClass(b) \notin {1, 7, 9}
    BY ClassOf
  <1>2. QED
    BY <1>1, OtherRows DEF REJECT

\* In numbers: where a continuation byte leads.
LEMMA TailByteNumbers ==
  ASSUME NEW b \in 128 .. 191, NEW st \in 2 .. 8, NEW next, next = Transition(st, ByteClass(b))
  PROVE  /\ LowBits(b, 6) = b - 128
         /\ st = 2 => next = 0
         /\ st = 3 => next = 2
         /\ st = 4 => next = IF b >= 160 THEN 2 ELSE 1
         /\ st = 5 => next = IF b >= 160 THEN 1 ELSE 2
         /\ st = 6 => next = IF b <= 143 THEN 1 ELSE 3
         /\ st = 7 => next = 3
         /\ st = 8 => next = IF b <= 143 THEN 3 ELSE 1
  <1>1. /\ LowBits(b, 6) = b - 128
        /\ ByteClass(b) = IF b <= 143 THEN 1 ELSE IF b <= 159 THEN 9 ELSE 7
    BY ClassOf
  <1>2. CASE b <= 143
    BY <1>1, <1>2, OtherRows DEF ACCEPT, REJECT
  <1>3. CASE b > 143 /\ b <= 159
    BY <1>1, <1>3, OtherRows DEF ACCEPT, REJECT
  <1>4. CASE b > 159
    BY <1>1, <1>4, OtherRows DEF ACCEPT, REJECT
  <1>5. QED
    BY <1>2, <1>3, <1>4

\* A byte behind the first.
LEMMA NextByte ==
  ASSUME DecodeInv, NEW b \in 0 .. 255, flb_utf8_decode(b), state \in 2 .. 8
  PROVE  DecodeInv'
  <1>1. /\ state' = Transition(state, ByteClass(b))
        /\ codep' = IF state' = 1 THEN 0 ELSE codep * 64 + LowBits(b, 6)
        /\ bytes' = Append(bytes, b)
    BY DEF flb_utf8_decode, ACCEPT, REJECT
  <1>2. bytes \in Seq(0 .. 255) /\ codep \in Nat /\ bytes # << >> /\ Len(bytes) <= 3 /\ Pending(bytes, state, codep)
    BY DEF DecodeInv
  <1>3. PICK n \in 1 .. 3 : n = Len(bytes)
    <2>1. PICK n \in Nat : n = Len(bytes)
      BY <1>2, LenProperties, Zenon
    <2>2. n # 0
      BY <1>2, <2>1, SMT
    <2>3. n <= 3
      BY <1>2, <2>1, Zenon
    <2>4. n \in 1 .. 3
      BY <2>2, <2>3
    <2>5. QED
      BY <2>1, <2>4, Zenon
  <1>4. PICK x1 \in 0 .. 255, x2 \in 0 .. 255, x3 \in 0 .. 255 :
          x1 = ByteAt(bytes, 1) /\ x2 = ByteAt(bytes, 2) /\ x3 = ByteAt(bytes, 3)
    <2>1. \A i \in 1 .. 4 : ByteAt(bytes, i) \in 0 .. 255
      BY <1>2, AtType
    <2>2. ByteAt(bytes, 1) \in 0 .. 255 /\ ByteAt(bytes, 2) \in 0 .. 255 /\ ByteAt(bytes, 3) \in 0 .. 255
      BY <2>1
    <2>3. QED
      BY <2>2, Zenon
  <1>5. PendingAt(n, x1, x2, x3, state, codep)
    BY <1>2, <1>3, <1>4 DEF Pending
  <1>6. /\ bytes' \in Seq(0 .. 255) /\ bytes' # << >> /\ Len(bytes') = n + 1
        /\ \A i \in 1 .. 4 : ByteAt(bytes', i) = IF i <= n THEN ByteAt(bytes, i) ELSE IF i = n + 1 THEN b ELSE 0
    <2>1. /\ Append(bytes, b) \in Seq(0 .. 255) /\ Append(bytes, b) # << >>
          /\ Len(Append(bytes, b)) = Len(bytes) + 1
          /\ \A i \in 1 .. 4 : ByteAt(Append(bytes, b), i) = IF i <= Len(bytes) THEN ByteAt(bytes, i)
                                                         ELSE IF i = Len(bytes) + 1 THEN b ELSE 0
      BY <1>2, AtAppend, Zenon
    <2>2. QED
      BY <1>1, <1>3, <2>1, Zenon
  <1>7. PICK y2 \in 0 .. 255, y3 \in 0 .. 255, y4 \in 0 .. 255 :
          y2 = ByteAt(bytes', 2) /\ y3 = ByteAt(bytes', 3) /\ y4 = ByteAt(bytes', 4)
    <2>1. \A i \in 1 .. 4 : ByteAt(bytes', i) \in 0 .. 255
      BY <1>6, AtType
    <2>2. ByteAt(bytes', 2) \in 0 .. 255 /\ ByteAt(bytes', 3) \in 0 .. 255 /\ ByteAt(bytes', 4) \in 0 .. 255
      BY <2>1
    <2>3. QED
      BY <2>2, Zenon
  <1>8. /\ ByteAt(bytes', 1) = x1
        /\ y2 = IF n = 1 THEN b ELSE x2
        /\ n >= 2 => y3 = IF n = 2 THEN b ELSE x3
        /\ n = 3 => y4 = b
    <2>1. ByteAt(bytes', 1) = x1 /\ (n >= 2 => ByteAt(bytes', 2) = x2) /\ (n >= 3 => ByteAt(bytes', 3) = x3)
      BY <1>4, <1>6
    <2>2. (n = 1 => ByteAt(bytes', 2) = b) /\ (n = 2 => ByteAt(bytes', 3) = b) /\ (n = 3 => ByteAt(bytes', 4) = b)
      BY <1>6
    <2>3. QED
      BY <1>7, <2>1, <2>2
  <1>9. CASE b \notin 128 .. 191
    <2>1. state' = 1 /\ codep' = 0
      <3>1. Transition(state, ByteClass(b)) = 1
        BY <1>9, OtherByteNumbers
      <3>2. QED
        BY <1>1, <3>1, Zenon
    <2>2. ~ Continues(b)
      BY <1>9 DEF Continues
    <2>3. BrokenAt(n + 1, x1, y2, y3, y4)
      BY <1>8, <2>2 DEF BrokenAt, Fits
    <2>4. Broken(bytes')
      BY <1>6, <1>7, <1>8, <2>3 DEF Broken
    <2>5. n + 1 <= 4
      OBVIOUS
    <2>6. QED
      BY <1>6, <2>1, <2>4, <2>5 DEF DecodeInv
  <1>10. CASE b \in 128 .. 191
    <2>1. LowBits(b, 6) = b - 128
      BY <1>10, ClassOf
    <2>2. PICK cq \in Int : cq = codep * 64 + (b - 128)
      BY <1>2
    <2>3. codep' = IF state' = 1 THEN 0 ELSE cq
      BY <1>1, <2>1, <2>2
    <2>4. /\ cq \in Nat
          /\ \/ state' = 0 /\ GoodAt(n + 1, x1, y2, y3, y4) /\ cq = CodeAt(n + 1, x1, y2, y3, y4)
             \/ state' = 1 /\ BrokenAt(n + 1, x1, y2, y3, y4)
             \/ state' \in 2 .. 8 /\ n + 1 <= 3 /\ PendingAt(n + 1, x1, y2, y3, state', cq)
      <3> DEFINE next == Transition(state, ByteClass(b))
      <3>1. next = state' /\ codep \in Nat
        BY <1>1, <1>2
      <3>4. /\ state = 2 => next = 0
            /\ state = 3 => next = 2
            /\ state = 4 => next = IF b >= 160 THEN 2 ELSE 1
            /\ state = 5 => next = IF b >= 160 THEN 1 ELSE 2
            /\ state = 6 => next = IF b <= 143 THEN 1 ELSE 3
            /\ state = 7 => next = 3
            /\ state = 8 => next = IF b <= 143 THEN 3 ELSE 1
        BY <1>10, TailByteNumbers
      <3> HIDE DEF next
      <3>2. /\ cq \in Nat
            /\ \/ next = 0 /\ GoodAt(n + 1, x1, y2, y3, y4) /\ cq = CodeAt(n + 1, x1, y2, y3, y4)
               \/ next = 1 /\ BrokenAt(n + 1, x1, y2, y3, y4)
               \/ next \in 2 .. 8 /\ n + 1 <= 3 /\ PendingAt(n + 1, x1, y2, y3, next, cq)
        <4>1. cq \in Nat
          BY <1>10, <2>2, <3>1
        <4>2. CASE n = 1 /\ x1 <= 223
          BY <1>5, <1>8, <1>10, <2>2, <4>1, <4>2, <3>4 DEF PendingAt, GoodAt, CodeAt, Fits, Continues
        <4>3. CASE n = 1 /\ 224 <= x1 /\ x1 <= 239
          BY <1>5, <1>8, <1>10, <2>2, <4>1, <4>3, <3>4 DEF PendingAt, BrokenAt, Fits, Continues
        <4>4. CASE n = 1 /\ 240 <= x1
          BY <1>5, <1>8, <1>10, <2>2, <4>1, <4>4, <3>4 DEF PendingAt, BrokenAt, Fits, Continues
        <4>5. CASE n = 2 /\ x1 <= 239
          BY <1>5, <1>8, <1>10, <2>2, <4>1, <4>5, <3>4 DEF PendingAt, GoodAt, CodeAt, Fits, Continues
        <4>6. CASE n = 2 /\ 240 <= x1
          BY <1>5, <1>8, <1>10, <2>2, <4>1, <4>6, <3>4 DEF PendingAt, Fits, Continues
        <4>7. CASE n = 3
          BY <1>5, <1>8, <1>10, <2>2, <4>1, <4>7, <3>4 DEF PendingAt, GoodAt, CodeAt, Fits, Continues
        <4>8. QED
          BY <4>2, <4>3, <4>4, <4>5, <4>6, <4>7
      <3>3. QED
        BY <3>1, <3>2, Zenon
    <2>5. n + 1 \in 1 .. 4 /\ n + 1 <= 4
      OBVIOUS
    <2>6. CASE state' = 0
      <3>1. Good(bytes') /\ CodePointOf(bytes') = cq
        <4>1. CodePointOf(bytes') = CodeAt(n + 1, ByteAt(bytes', 1), ByteAt(bytes', 2), ByteAt(bytes', 3), ByteAt(bytes', 4))
          BY <1>6, <2>5, CodeOf, Zenon
        <4>2. Good(bytes')
          BY <1>6, <1>7, <1>8, <2>4, <2>6 DEF Good
        <4>3. QED
          BY <1>7, <1>8, <2>4, <2>6, <4>1, <4>2
      <3>2. codep' = cq
        BY <2>3, <2>6
      <3>3. QED
        BY <1>6, <2>4, <2>5, <2>6, <3>1, <3>2 DEF DecodeInv
    <2>7. CASE state' = 1
      <3>1. Broken(bytes')
        BY <1>6, <1>7, <1>8, <2>4, <2>7 DEF Broken
      <3>2. codep' = 0
        BY <2>3, <2>7
      <3>3. QED
        BY <1>6, <2>5, <2>7, <3>1, <3>2 DEF DecodeInv
    <2>8. CASE state' \in 2 .. 8
      <3>1. codep' = cq
        BY <2>3, <2>8
      <3>2. Pending(bytes', state', codep') /\ Len(bytes') <= 3
        BY <1>6, <1>7, <1>8, <2>4, <2>8, <3>1 DEF Pending
      <3>3. QED
        BY <1>6, <2>4, <2>5, <2>8, <3>1, <3>2 DEF DecodeInv
    <2>9. QED
      BY <2>4, <2>6, <2>7, <2>8
  <1>11. QED
    BY <1>9, <1>10

\* A sequence that is continued with n equal bytes.
LEMMA Filled ==
  ASSUME NEW s \in Seq(0 .. 255), NEW n \in 1 .. 3, NEW fill \in 0 .. 255
  PROVE  LET t == s \o Copies(n, fill)
         IN  /\ t \in Seq(0 .. 255) /\ Len(t) = Len(s) + n
             /\ \A i \in 1 .. 4 : ByteAt(t, i) = IF i <= Len(s) THEN ByteAt(s, i)
                                            ELSE IF i <= Len(s) + n THEN fill ELSE 0
  <1> DEFINE f == Copies(n, fill)
             t == s \o f
  <1>1. f \in Seq(0 .. 255) /\ Len(f) = n /\ \A i \in 1 .. n : f[i] = fill
    BY DEF Copies
  <1>2. PICK m \in Nat : m = Len(s)
    BY LenProperties
  <1>3. /\ t \in Seq(0 .. 255) /\ Len(t) = m + n
        /\ \A i \in 1 .. m + n : t[i] = IF i <= m THEN s[i] ELSE f[i - m]
    <2> HIDE DEF f
    <2>1. /\ t \in Seq(0 .. 255) /\ Len(t) = Len(s) + Len(f)
          /\ \A i \in 1 .. Len(s) + Len(f) : t[i] = IF i <= Len(s) THEN s[i] ELSE f[i - Len(s)]
      BY <1>1, ConcatProperties
    <2>2. QED
      BY <1>1, <1>2, <2>1
  <1> HIDE DEF f, t
  <1>4. ASSUME NEW i \in 1 .. 4
        PROVE  ByteAt(t, i) = IF i <= m THEN ByteAt(s, i) ELSE IF i <= m + n THEN fill ELSE 0
    <2>1. CASE i <= m
      <3>1. i \in 1 .. m + n
        BY <2>1
      <3>2. t[i] = s[i] /\ i <= m + n
        BY <1>3, <2>1, <3>1
      <3>3. QED
        BY <1>2, <1>3, <2>1, <3>2 DEF ByteAt
    <2>2. CASE ~ (i <= m) /\ i <= m + n
      <3>1. i \in 1 .. m + n /\ i - m \in 1 .. n
        BY <2>2
      <3>2. t[i] = fill
        BY <1>1, <1>3, <2>2, <3>1
      <3>3. QED
        BY <1>3, <2>2, <3>2 DEF ByteAt
    <2>3. CASE ~ (i <= m) /\ ~ (i <= m + n)
      BY <1>3, <2>3 DEF ByteAt
    <2>4. QED
      BY <2>1, <2>2, <2>3
  <1>5. QED
    BY <1>2, <1>3, <1>4 DEF f, t

\* What is broken cannot be repaired by more bytes.
LEMMA BrokenStays ==
  ASSUME NEW s \in Seq(0 .. 255), s # << >>, Len(s) <= 4, Broken(s)
  PROVE  ~ WellFormed(s) /\ ~ Extensible(s)
  <1>1. PICK n \in Nat : n = Len(s)
    BY LenProperties, Zenon
  <1>2. n # 0 /\ n <= 4
    BY <1>1, SMT
  <1>3. PICK x1 \in 0 .. 255, x2 \in 0 .. 255, x3 \in 0 .. 255, x4 \in 0 .. 255 :
          x1 = ByteAt(s, 1) /\ x2 = ByteAt(s, 2) /\ x3 = ByteAt(s, 3) /\ x4 = ByteAt(s, 4)
    <2>1. \A i \in 1 .. 4 : ByteAt(s, i) \in 0 .. 255
      BY AtType
    <2>2. ByteAt(s, 1) \in 0 .. 255 /\ ByteAt(s, 2) \in 0 .. 255 /\ ByteAt(s, 3) \in 0 .. 255 /\ ByteAt(s, 4) \in 0 .. 255
      BY <2>1
    <2>3. QED
      BY <2>2, Zenon
  <1>4. BrokenAt(n, x1, x2, x3, x4)
    BY <1>1, <1>3 DEF Broken
  <1>5. ~ GoodAt(n, x1, x2, x3, x4)
    BY <1>4 DEF BrokenAt, GoodAt
  <1>6. ~ WellFormed(s)
    BY <1>1, <1>3, <1>5, WellFormedIsGood DEF Good
  <1>7. ASSUME NEW k \in 1 .. 3, NEW fill \in 0 .. 255, WellFormed(s \o Copies(k, fill))
        PROVE  FALSE
    <2> DEFINE t == s \o Copies(k, fill)
    <2>1. /\ t \in Seq(0 .. 255) /\ Len(t) = Len(s) + k
          /\ \A i \in 1 .. 4 : ByteAt(t, i) = IF i <= Len(s) THEN ByteAt(s, i)
                                         ELSE IF i <= Len(s) + k THEN fill ELSE 0
      BY Filled
    <2>2. WellFormed(t)
      BY <1>7
    <2> HIDE DEF t
    <2>3. Len(t) \in 1 .. 4 /\ Good(t)
      BY <2>1, <2>2, WellFormedIsGood, Zenon
    <2>4. Len(t) = n + k /\ \A i \in 1 .. 4 : ByteAt(t, i) = IF i <= n THEN ByteAt(s, i) ELSE IF i <= n + k THEN fill ELSE 0
      BY <1>1, <2>1, Zenon
    <2>5. n + k \in 1 .. 4
      BY <2>3, <2>4
    <2>6. PICK y2 \in 0 .. 255, y3 \in 0 .. 255, y4 \in 0 .. 255 :
            /\ y2 = ByteAt(t, 2) /\ y3 = ByteAt(t, 3) /\ y4 = ByteAt(t, 4)
            /\ n >= 2 => y2 = x2
            /\ n >= 3 => y3 = x3
      <3>1. ByteAt(t, 2) = IF 2 <= n THEN x2 ELSE IF 2 <= n + k THEN fill ELSE 0
        BY <1>3, <2>4
      <3>2. ByteAt(t, 3) = IF 3 <= n THEN x3 ELSE IF 3 <= n + k THEN fill ELSE 0
        BY <1>3, <2>4
      <3>3. ByteAt(t, 4) = IF 4 <= n THEN x4 ELSE IF 4 <= n + k THEN fill ELSE 0
        BY <1>3, <2>4
      <3>4. ByteAt(t, 2) \in 0 .. 255 /\ ByteAt(t, 3) \in 0 .. 255 /\ ByteAt(t, 4) \in 0 .. 255
        <4>1. \A i \in 1 .. 4 : ByteAt(t, i) \in 0 .. 255
          BY <2>1, AtType, Zenon
        <4>2. QED
          BY <4>1
      <3>5. (n >= 2 => ByteAt(t, 2) = x2) /\ (n >= 3 => ByteAt(t, 3) = x3)
        BY <3>1, <3>2
      <3>6. QED
        BY <3>4, <3>5, Zenon
    <2>7. ByteAt(t, 1) = x1
      BY <1>2, <1>3, <2>4
    <2>8. GoodAt(n + k, x1, y2, y3, y4)
      BY <2>3, <2>4, <2>6, <2>7 DEF Good
    <2>9. n <= 3
      BY <2>5
    <2>10. QED
      BY <1>2, <1>4, <2>5, <2>6, <2>8, <2>9 DEF BrokenAt, GoodAt
  <1>8. ~ Extensible(s)
    <2>1. SUFFICES ASSUME Extensible(s) PROVE FALSE
      OBVIOUS
    <2>2. PICK k \in 1 .. 3, fill \in {128, 143, 144, 159, 160, 191} : WellFormed(s \o Copies(k, fill))
      BY <2>1, Zenon DEF Extensible
    <2>3. fill \in 0 .. 255
      OBVIOUS
    <2>4. QED
      BY <1>7, <2>2, <2>3, Zenon
  <1>9. QED
    BY <1>6, <1>8

\* The bytes that complete what is pending: how many, and which.
Missing(st) == IF st = 2 THEN 1 ELSE IF st \in {3, 4, 5} THEN 2 ELSE 3
Filler(st)  == IF st = 4 THEN 160 ELSE IF st = 6 THEN 144 ELSE 128

\* What is pending is no code point yet and can become one.
LEMMA PendingExtends ==
  ASSUME NEW s \in Seq(0 .. 255), s # << >>, Len(s) <= 3, NEW st \in 2 .. 8, NEW cp \in Nat, Pending(s, st, cp)
  PROVE  ~ WellFormed(s) /\ Extensible(s)
  <1>1. PICK n \in Nat : n = Len(s)
    BY LenProperties, Zenon
  <1>2. n # 0 /\ n <= 3
    BY <1>1, SMT
  <1>3. PICK x1 \in 0 .. 255, x2 \in 0 .. 255, x3 \in 0 .. 255, x4 \in 0 .. 255 :
          x1 = ByteAt(s, 1) /\ x2 = ByteAt(s, 2) /\ x3 = ByteAt(s, 3) /\ x4 = ByteAt(s, 4)
    <2>1. \A i \in 1 .. 4 : ByteAt(s, i) \in 0 .. 255
      BY AtType
    <2>2. ByteAt(s, 1) \in 0 .. 255 /\ ByteAt(s, 2) \in 0 .. 255 /\ ByteAt(s, 3) \in 0 .. 255 /\ ByteAt(s, 4) \in 0 .. 255
      BY <2>1
    <2>3. QED
      BY <2>2, Zenon
  <1>4. PendingAt(n, x1, x2, x3, st, cp)
    BY <1>1, <1>3 DEF Pending
  <1>5. ~ GoodAt(n, x1, x2, x3, x4)
    BY <1>4 DEF PendingAt, GoodAt
  <1>6. ~ WellFormed(s)
    BY <1>1, <1>3, <1>5, WellFormedIsGood DEF Good
  <1>7. PICK k \in 1 .. 3, fill \in 0 .. 255 : k = Missing(st) /\ fill = Filler(st)
    BY DEF Missing, Filler
  <1> DEFINE t == s \o Copies(k, fill)
  <1>8. /\ t \in Seq(0 .. 255) /\ Len(t) = Len(s) + k
        /\ \A i \in 1 .. 4 : ByteAt(t, i) = IF i <= Len(s) THEN ByteAt(s, i)
                                       ELSE IF i <= Len(s) + k THEN fill ELSE 0
    BY Filled
  <1>9. WellFormed(t)
    <2> HIDE DEF t
    <2>1. Len(t) = n + k /\ \A i \in 1 .. 4 : ByteAt(t, i) = IF i <= n THEN ByteAt(s, i) ELSE IF i <= n + k THEN fill ELSE 0
      BY <1>1, <1>8, Zenon
    <2>2. PICK y2 \in 0 .. 255, y3 \in 0 .. 255, y4 \in 0 .. 255 :
            /\ y2 = ByteAt(t, 2) /\ y3 = ByteAt(t, 3) /\ y4 = ByteAt(t, 4)
            /\ y2 = IF 2 <= n THEN x2 ELSE IF 2 <= n + k THEN fill ELSE 0
            /\ y3 = IF 3 <= n THEN x3 ELSE IF 3 <= n + k THEN fill ELSE 0
            /\ y4 = IF 4 <= n + k THEN fill ELSE 0
      <3>1. ByteAt(t, 2) = IF 2 <= n THEN x2 ELSE IF 2 <= n + k THEN fill ELSE 0
        BY <1>3, <2>1
      <3>2. ByteAt(t, 3) = IF 3 <= n THEN x3 ELSE IF 3 <= n + k THEN fill ELSE 0
        BY <1>3, <2>1
      <3>3. ByteAt(t, 4) = IF 4 <= n + k THEN fill ELSE 0
        BY <1>2, <1>3, <2>1
      <3>4. ByteAt(t, 2) \in 0 .. 255 /\ ByteAt(t, 3) \in 0 .. 255 /\ ByteAt(t, 4) \in 0 .. 255
        <4>1. \A i \in 1 .. 4 : ByteAt(t, i) \in 0 .. 255
          BY <1>8, AtType, Zenon
        <4>2. QED
          BY <4>1
      <3>5. PICK y2 \in 0 .. 255, y3 \in 0 .. 255, y4 \in 0 .. 255 : y2 = ByteAt(t, 2) /\ y3 = ByteAt(t, 3) /\ y4 = ByteAt(t, 4)
        BY <3>4, Zenon
      <3>6. y2 = IF 2 <= n THEN x2 ELSE IF 2 <= n + k THEN fill ELSE 0
        BY <3>1, <3>5
      <3>7. y3 = IF 3 <= n THEN x3 ELSE IF 3 <= n + k THEN fill ELSE 0
        BY <3>2, <3>5
      <3>8. y4 = IF 4 <= n + k THEN fill ELSE 0
        BY <3>3, <3>5
      <3>9. QED
        BY <3>5, <3>6, <3>7, <3>8
    <2>3. ByteAt(t, 1) = x1
      BY <1>2, <1>3, <2>1
    <2>4. n + k \in 1 .. 4 /\ GoodAt(n + k, x1, y2, y3, y4)
      BY <1>2, <1>4, <1>7, <2>2 DEF PendingAt, GoodAt, Fits, Continues, Missing, Filler
    <2>5. Len(t) \in 1 .. 4 /\ Good(t)
      BY <2>1, <2>2, <2>3, <2>4 DEF Good
    <2>6. QED
      BY <1>8, <2>5, WellFormedIsGood, Zenon
  <1>10. fill \in {128, 143, 144, 159, 160, 191}
    BY <1>7 DEF Filler
  <1>11. Extensible(s)
    <2>1. WellFormed(s \o Copies(k, fill))
      BY <1>9 DEF t
    <2>2. \E fl \in {128, 143, 144, 159, 160, 191} : WellFormed(s \o Copies(k, fl))
      <3>1. WITNESS fill \in {128, 143, 144, 159, 160, 191}
      <3>2. QED
        BY <2>1
    <2>3. \E m \in 1 .. 3 : \E fl \in {128, 143, 144, 159, 160, 191} : WellFormed(s \o Copies(m, fl))
      <3>1. WITNESS k \in 1 .. 3
      <3>2. QED
        BY <2>2, Zenon
    <2>4. QED
      BY <2>3, Zenon DEF Extensible
  <1>12. QED
    BY <1>6, <1>11

\* The length that a first byte announces.
LEMMA LengthAnnounced ==
  ASSUME NEW n \in Nat, NEW x \in 0 .. 255, NEW x2, NEW x3, NEW x4, GoodAt(n, x, x2, x3, x4)
  PROVE  n = flb_utf8_len(x)
  <1>1. CASE n = 1 /\ x <= 127
    BY <1>1 DEF flb_utf8_len
  <1>2. CASE n = 2 /\ 194 <= x /\ x <= 223
    BY <1>2 DEF flb_utf8_len
  <1>3. CASE n = 3 /\ 224 <= x /\ x <= 239
    BY <1>3 DEF flb_utf8_len
  <1>4. CASE n = 4 /\ 240 <= x /\ x <= 244
    BY <1>4 DEF flb_utf8_len
  <1>5. QED
    BY <1>1, <1>2, <1>3, <1>4, Zenon DEF GoodAt

\* What the automaton says of the bytes that were read.
LEMMA DecodeIsExact ==
  ASSUME DecodeInv, bytes # << >>
  PROVE  /\ state = ACCEPT <=> WellFormed(bytes)
         /\ state = ACCEPT => codep = CodePointOf(bytes) /\ Len(bytes) = flb_utf8_len(bytes[1])
         /\ state = REJECT <=> ~ WellFormed(bytes) /\ ~ Extensible(bytes)
  <1>1. bytes \in Seq(0 .. 255) /\ Len(bytes) <= 4 /\ state \in 0 .. 8 /\ codep \in Nat
    BY DEF DecodeInv
  <1>2. CASE state = 0
    <2>1. Good(bytes) /\ codep = CodePointOf(bytes)
      BY <1>2 DEF DecodeInv
    <2>2. PICK n \in Nat : n = Len(bytes)
      BY <1>1, LenProperties, Zenon
    <2>3. n # 0 /\ n <= 4
      BY <1>1, <2>2, SMT
    <2>4. WellFormed(bytes)
      <3>1. n \in 1 .. 4
        BY <2>3
      <3>2. QED
        BY <1>1, <2>1, <2>2, <3>1, WellFormedIsGood, Zenon
    <2>5. PICK x1 \in 0 .. 255 : x1 = ByteAt(bytes, 1)
      <3>1. 1 \in 1 .. 4
        OBVIOUS
      <3>2. ByteAt(bytes, 1) \in 0 .. 255
        BY <1>1, <3>1, AtType, Zenon
      <3>3. QED
        BY <3>2, Zenon
    <2>6. n = flb_utf8_len(x1)
      <3>1. GoodAt(n, x1, ByteAt(bytes, 2), ByteAt(bytes, 3), ByteAt(bytes, 4))
        BY <2>1, <2>2, <2>5 DEF Good
      <3>2. QED
        BY <3>1, LengthAnnounced, Zenon
    <2>7. bytes[1] = x1
      BY <2>2, <2>3, <2>5 DEF ByteAt
    <2>8. QED
      BY <1>2, <2>1, <2>2, <2>4, <2>6, <2>7 DEF ACCEPT, REJECT
  <1>3. CASE state = 1
    <2>1. Broken(bytes)
      BY <1>3 DEF DecodeInv
    <2>2. ~ WellFormed(bytes) /\ ~ Extensible(bytes)
      BY <1>1, <2>1, BrokenStays, Zenon
    <2>3. QED
      BY <1>3, <2>2 DEF ACCEPT, REJECT
  <1>4. CASE state \in 2 .. 8
    <2>1. Len(bytes) <= 3 /\ Pending(bytes, state, codep)
      BY <1>4 DEF DecodeInv
    <2>2. ~ WellFormed(bytes) /\ Extensible(bytes)
      BY <1>1, <1>4, <2>1, PendingExtends, Zenon
    <2>3. QED
      BY <1>4, <2>2 DEF ACCEPT, REJECT
  <1>5. QED
    BY <1>1, <1>2, <1>3, <1>4

\* A number that is put above another is found there again.
LEMMA DivMod ==
  ASSUME NEW d \in Nat \ {0}, NEW q \in Nat, NEW o \in 0 .. d - 1
  PROVE  (q * d + o) \div d = q /\ (q * d + o) % d = o
  BY SMT

\* A key of result, task and output is taken apart into what it was made of.
LEMMA KeyRoundTrip ==
  ASSUME NEW ret \in 0 .. 2, NEW task_id \in 0 .. 2^14 - 1, NEW out_id \in 0 .. 2^14 - 1
  PROVE  LET val == FLB_TASK_SET(ret, task_id, out_id)
         IN  FLB_TASK_RET(val) = ret /\ FLB_TASK_ID(val) = task_id /\ FLB_TASK_OUT(val) = out_id
  <1>1. PICK d \in Nat \ {0} : d = 2^14
    BY SMT
  <1>2. 2^28 = d * d
    BY <1>1, SMT
  <1>3. task_id \in 0 .. d - 1 /\ out_id \in 0 .. d - 1
    BY <1>1
  <1>4. PICK low \in Nat : low = task_id * d + out_id
    BY <1>3, SMT
  <1>5. low \in 0 .. d * d - 1
    <2>1. task_id * d <= (d - 1) * d
      BY <1>3, SMT
    <2>2. QED
      BY <1>3, <1>4, <2>1, SMT
  <1>6. low \div d = task_id /\ low % d = out_id
    BY <1>3, <1>4, DivMod
  <1>7. PICK dd \in Nat \ {0} : dd = d * d
    BY SMT
  <1>8. (ret * dd + low) \div dd = ret /\ (ret * dd + low) % dd = low
    BY <1>5, <1>7, DivMod
  <1>9. PICK val \in Nat : val = ret * dd + low
    BY SMT
  <1>10. val = ((ret * d + task_id) * d) + out_id
    BY <1>3, <1>4, <1>7, <1>9, SMT
  <1>11. val % d = out_id
    <2>1. PICK q \in Nat : q = ret * d + task_id
      BY <1>3, SMT
    <2>2. (q * d + out_id) % d = out_id
      BY <1>3, DivMod
    <2>3. QED
      BY <1>10, <2>1, <2>2
  <1>12. FLB_TASK_SET(ret, task_id, out_id) = val
    <2>1. FLB_TASK_SET(ret, task_id, out_id) = ret * dd + task_id * d + out_id
      BY <1>1, <1>2, <1>7 DEF FLB_TASK_SET
    <2>2. ret * dd + task_id * d + out_id = ret * dd + (task_id * d + out_id)
      BY <1>3, SMT
    <2>3. QED
      BY <1>4, <1>9, <2>1, <2>2, Zenon
  <1>13. FLB_TASK_RET(val) = ret
    BY <1>2, <1>7, <1>8, <1>9, Zenon DEF FLB_TASK_RET
  <1>14. FLB_TASK_ID(val) = task_id
    <2>1. val % 2^28 = low
      BY <1>2, <1>7, <1>8, <1>9, Zenon
    <2>2. QED
      BY <1>1, <1>6, <2>1, Zenon DEF FLB_TASK_ID
  <1>15. FLB_TASK_OUT(val) = out_id
    BY <1>1, <1>11, Zenon DEF FLB_TASK_OUT
  <1>16. QED
    BY <1>12, <1>13, <1>14, <1>15, Zenon

\* The assignments of a swap, byte by byte, turn a value round.
LEMMA SwapIsExact ==
  ASSUME NEW raw \in Seq(0 .. 255)
  PROVE  /\ Len(raw) = 2 => FLB_BSWAP_16(raw) = [i \in 1 .. Len(raw) |-> raw[Len(raw) + 1 - i]]
         /\ Len(raw) = 4 => FLB_BSWAP_32(raw) = [i \in 1 .. Len(raw) |-> raw[Len(raw) + 1 - i]]
         /\ Len(raw) = 8 => FLB_BSWAP_64(raw) = [i \in 1 .. Len(raw) |-> raw[Len(raw) + 1 - i]]
  <1>1. CASE Len(raw) = 2
    BY <1>1 DEF FLB_BSWAP_16
  <1>2. CASE Len(raw) = 4
    BY <1>2 DEF FLB_BSWAP_32
  <1>3. CASE Len(raw) = 8
    BY <1>3 DEF FLB_BSWAP_64
  <1>4. QED
    BY <1>1, <1>2, <1>3

\* What lies before a string does not matter to where it is cut.
LEMMA TrimIsExact ==
  ASSUME NEW str \in Seq(0 .. 255), NEW c \in 0 .. 255, NEW before \in 0 .. 255
  PROVE  LET ends == {i \in 1 .. Len(str) : str[i] # c}
         IN  flb_rtrim(str, c, before) =
               IF ends = {} THEN NoString ELSE SubSeq(str, 1, CHOOSE i \in ends : \A j \in ends : j <= i)
  <1>1. PICK n \in Nat : n = Len(str)
    BY LenProperties, Zenon
  <1> DEFINE at(i) == IF i = 0 THEN before ELSE str[i]
             kept  == {i \in 0 .. n : at(i) # c}
             ends  == {i \in 1 .. n : str[i] # c}
  <1>2. flb_rtrim(str, c, before) =
          IF \A i \in kept : i = 0 THEN NoString
          ELSE SubSeq(str, 1, CHOOSE i \in kept : \A j \in kept : j <= i)
    <2> DEFINE all == {i \in 0 .. Len(str) : (IF i = 0 THEN before ELSE str[i]) # c}
    <2>1. flb_rtrim(str, c, before) =
            IF \A i \in all : i = 0 THEN NoString
            ELSE SubSeq(str, 1, CHOOSE i \in all : \A j \in all : j <= i)
      BY DEF flb_rtrim
    <2>2. all = kept
      BY <1>1
    <2> HIDE DEF all, kept
    <2>3. QED
      BY <2>1, <2>2
  <1>3. \A i : i \in ends <=> i \in kept /\ i # 0
    OBVIOUS
  <1>4. ends \subseteq 1 .. n /\ kept \subseteq 0 .. n
    OBVIOUS
  <1> HIDE DEF kept, ends
  <1>5. (\A i \in kept : i = 0) <=> ends = {}
    BY <1>3, Zenon
  <1>6. CASE ends = {}
    BY <1>1, <1>2, <1>5, <1>6, Zenon DEF ends
  <1>7. CASE ends # {}
    <2>1. PICK e \in ends : TRUE
      BY <1>7
    <2>2. ASSUME NEW i
          PROVE  (i \in kept /\ \A j \in kept : j <= i) <=> (i \in ends /\ \A j \in ends : j <= i)
      <3>1. ASSUME i \in kept, \A j \in kept : j <= i PROVE i \in ends /\ \A j \in ends : j <= i
        BY <1>3, <1>4, <2>1, <3>1
      <3>2. ASSUME i \in ends, \A j \in ends : j <= i PROVE i \in kept /\ \A j \in kept : j <= i
        BY <1>3, <1>4, <3>2
      <3>3. QED
        BY <3>1, <3>2
    <2>3. (CHOOSE i \in kept : \A j \in kept : j <= i) = (CHOOSE i \in ends : \A j \in ends : j <= i)
      BY <2>2, Zenon
    <2>4. flb_rtrim(str, c, before) = SubSeq(str, 1, CHOOSE i \in ends : \A j \in ends : j <= i)
      BY <1>2, <1>5, <1>7, <2>3, Zenon
    <2>5. QED
      BY <1>1, <1>7, <2>4, Zenon DEF ends
  <1>8. QED
    BY <1>6, <1>7, Zenon

\* The part of CodecsExact about the conversions looked at last.
ConvExact ==
  /\ conv.of = "key" => conv.out = conv.in
  /\ conv.of = "swap" => conv.out = [i \in 1 .. Len(conv.in) |-> conv.in[Len(conv.in) + 1 - i]]
  /\ conv.of = "trim" =>
       LET str  == conv.in[1]
           ends == {i \in 1 .. Len(str) : str[i] # conv.in[2]}
       IN  conv.out = IF ends = {} THEN NoString
                      ELSE SubSeq(str, 1, CHOOSE i \in ends : \A j \in ends : j <= i)

\* The inductive invariant of the codecs.
CodecInv == DecodeInv /\ ConvExact

\* The invariant holds at the start.
LEMMA CodecInitInv == CodecInit => CodecInv
  <1>1. ASSUME CodecInit PROVE DecodeInv /\ ConvExact
    <2>1. bytes = << >> /\ state = 0 /\ codep = 0 /\ conv.of = "none"
      BY <1>1 DEF CodecInit, ACCEPT
    <2>2. DecodeInv
      BY <2>1 DEF DecodeInv
    <2>3. ConvExact
      BY <2>1 DEF ConvExact
    <2>4. QED
      BY <2>2, <2>3
  <1>2. QED
    BY <1>1 DEF CodecInv

\* A step that leaves the automaton alone leaves its invariant alone.
LEMMA DecodeRests ==
  ASSUME DecodeInv, UNCHANGED <<bytes, state, codep>>
  PROVE  DecodeInv'
  BY Zenon DEF DecodeInv

\* One call of a codec keeps the invariant.
LEMMA CodecStep ==
  ASSUME CodecInv, [CodecNext]_codecVars
  PROVE  CodecInv'
  <1> USE CodecAssumption
  <1>1. CASE UNCHANGED codecVars
    <2>1. UNCHANGED <<bytes, state, codep>> /\ UNCHANGED conv
      BY <1>1 DEF codecVars
    <2>2. QED
      BY <2>1, DecodeRests DEF CodecInv, ConvExact
  <1>2. ASSUME NEW b \in CodecBytes, flb_utf8_decode(b)
        PROVE  CodecInv'
    <2>1. b \in 0 .. 255
      BY DEF CodecAssumption
    <2>2. state # 1 /\ UNCHANGED conv
      BY <1>2 DEF flb_utf8_decode, REJECT
    <2>3. state \in 0 .. 8 /\ DecodeInv
      BY DEF CodecInv, DecodeInv
    <2>4. DecodeInv'
      <3>1. CASE state = 0
        BY <1>2, <2>1, <2>3, <3>1, FirstByte, Zenon
      <3>2. CASE state \in 2 .. 8
        BY <1>2, <2>1, <2>3, <3>2, NextByte, Zenon
      <3>3. QED
        BY <2>2, <2>3, <3>1, <3>2
    <2>5. ConvExact'
      BY <2>2 DEF CodecInv, ConvExact
    <2>6. QED
      BY <2>4, <2>5 DEF CodecInv
  <1>3. ASSUME NEW ret \in 0 .. 2, NEW task_id \in KeyIds, NEW out_id \in KeyIds, SendKey(ret, task_id, out_id)
        PROVE  CodecInv'
    <2>1. task_id \in 0 .. 2^14 - 1 /\ out_id \in 0 .. 2^14 - 1
      BY Zenon DEF CodecAssumption
    <2> DEFINE low == FLB_TASK_SET(ret, task_id, out_id)
    <2>2. FLB_TASK_RET(low) = ret /\ FLB_TASK_ID(low) = task_id /\ FLB_TASK_OUT(low) = out_id
      BY <2>1, KeyRoundTrip, Zenon
    <2>3. /\ conv' = [of |-> "key", in |-> <<2, ret, task_id, out_id>>,
                      out |-> <<2, FLB_TASK_RET(low), FLB_TASK_ID(low), FLB_TASK_OUT(low)>>]
          /\ UNCHANGED <<bytes, state, codep>>
      <3> HIDE DEF low
      <3>1. /\ conv' = [of |-> "key", in |-> <<FLB_ENGINE_TASK, ret, task_id, out_id>>,
                        out |-> <<FLB_BITS_U64_HIGH(FLB_BITS_U64_SET(FLB_ENGINE_TASK, low)),
                                  FLB_TASK_RET(FLB_BITS_U64_LOW(FLB_BITS_U64_SET(FLB_ENGINE_TASK, low))),
                                  FLB_TASK_ID(FLB_BITS_U64_LOW(FLB_BITS_U64_SET(FLB_ENGINE_TASK, low))),
                                  FLB_TASK_OUT(FLB_BITS_U64_LOW(FLB_BITS_U64_SET(FLB_ENGINE_TASK, low)))>>]
            /\ UNCHANGED <<bytes, state, codep>>
        BY <1>3, Zenon DEF SendKey, low
      <3>2. /\ FLB_BITS_U64_HIGH(FLB_BITS_U64_SET(FLB_ENGINE_TASK, low)) = 2
            /\ FLB_BITS_U64_LOW(FLB_BITS_U64_SET(FLB_ENGINE_TASK, low)) = low
        BY DEF FLB_BITS_U64_HIGH, FLB_BITS_U64_LOW, FLB_BITS_U64_SET, FLB_ENGINE_TASK
      <3>3. QED
        BY <3>1, <3>2, Zenon DEF FLB_ENGINE_TASK
    <2> HIDE DEF low
    <2>4. conv' = [of |-> "key", in |-> <<2, ret, task_id, out_id>>, out |-> <<2, ret, task_id, out_id>>]
      BY <2>2, <2>3, Zenon
    <2>5. ConvExact'
      BY <2>4 DEF ConvExact
    <2>6. DecodeInv'
      BY <2>3, DecodeRests, Zenon DEF CodecInv
    <2>7. QED
      BY <2>5, <2>6 DEF CodecInv
  <1>4. ASSUME NEW raw \in SwapValues, Swap(raw)
        PROVE  CodecInv'
    <2>1. raw \in Seq(0 .. 255)
      BY DEF CodecAssumption
    <2> DEFINE turned == [i \in 1 .. Len(raw) |-> raw[Len(raw) + 1 - i]]
    <2>2. Len(raw) \in {2, 4, 8}
      BY DEF CodecAssumption
    <2>3. conv' = [of |-> "swap", in |-> raw, out |-> turned] /\ UNCHANGED <<bytes, state, codep>>
      <3>1. CASE Len(raw) = 2
        BY <1>4, <2>1, <3>1, SwapIsExact DEF Swap
      <3>2. CASE Len(raw) = 4
        BY <1>4, <2>1, <3>2, SwapIsExact DEF Swap
      <3>3. CASE Len(raw) = 8
        BY <1>4, <2>1, <3>3, SwapIsExact DEF Swap
      <3>4. QED
        BY <2>2, <3>1, <3>2, <3>3
    <2>4. ConvExact'
      BY <2>3 DEF ConvExact
    <2>5. DecodeInv'
      BY <2>3, DecodeRests, Zenon DEF CodecInv
    <2>6. QED
      BY <2>4, <2>5 DEF CodecInv
  <1>5. ASSUME NEW str \in TrimStrings, NEW c \in TrimChars, NEW before \in TrimChars, Trim(str, c, before)
        PROVE  CodecInv'
    <2>1. str \in Seq(0 .. 255) /\ c \in 0 .. 255 /\ before \in 0 .. 255
      <3>1. str \in Seq(0 .. 255)
        BY Zenon
      <3>2. TrimChars \subseteq 0 .. 255
        BY Zenon
      <3>3. c \in 0 .. 255
        BY <3>2, Zenon
      <3>4. before \in 0 .. 255
        BY <3>2, Zenon
      <3>5. QED
        BY <3>1, <3>3, <3>4, Zenon
    <2> DEFINE ends == {i \in 1 .. Len(str) : str[i] # c}
               cut  == IF ends = {} THEN NoString ELSE SubSeq(str, 1, CHOOSE i \in ends : \A j \in ends : j <= i)
    <2>2. flb_rtrim(str, c, before) = cut
      BY <2>1, TrimIsExact, Zenon
    <2>3. /\ conv' = [of |-> "trim", in |-> <<str, c>>, out |-> flb_rtrim(str, c, before)]
          /\ UNCHANGED <<bytes, state, codep>>
      BY <1>5, Zenon DEF Trim
    <2>4. conv'.of = "trim" /\ conv'.in[1] = str /\ conv'.in[2] = c /\ conv'.out = flb_rtrim(str, c, before)
      BY <2>3
    <2>5. ConvExact'
      <3>1. conv'.of \notin {"key", "swap"}
        BY <2>4
      <3>2. conv'.out = cut
        BY <2>2, <2>4, Zenon
      <3>3. QED
        BY <2>4, <3>1, <3>2, Zenon DEF ConvExact
    <2>6. DecodeInv'
      BY <2>3, DecodeRests, Zenon DEF CodecInv
    <2>7. QED
      BY <2>5, <2>6 DEF CodecInv
  <1>6. QED
    BY <1>1, <1>2, <1>3, <1>4, <1>5 DEF CodecNext

\* The invariant implies the property.
LEMMA CodecInvExact == CodecInv => CodecsExact
  BY DecodeIsExact, Zenon DEF CodecInv, ConvExact, CodecsExact

\* For all bytes, ids, values and strings: the automaton of flb_utf8.h accepts exactly the
\* well-formed sequences and rejects at the first byte that no well-formed sequence
\* continues; keys, swaps and trims are exact.
THEOREM CodecsAreExact == CodecSpec => []CodecsExact
  <1>1. CodecInit => CodecInv
    BY CodecInitInv
  <1>2. CodecInv /\ [CodecNext]_codecVars => CodecInv'
    BY CodecStep
  <1>3. CodecInv => CodecsExact
    BY CodecInvExact
  <1>4. QED
    BY <1>1, <1>2, <1>3, PTL DEF CodecSpec
=============================================================================
