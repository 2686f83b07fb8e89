------------------------------ MODULE FlbStream ------------------------------
(* The stream that connections are listed on (fluent-bit/flb_stream.h): its mode   *)
(* flags and the lock of its connection lists, which exists only once thread        *)
(* safety was enabled; before, acquiring and releasing it do nothing and succeed.   *)
(* Enabling is three steps that other threads see one by one; its stores become      *)
(* visible in the order of the program, as on the x86 hosts the agents run on.       *)
EXTENDS Naturals, FiniteSets

CONSTANT StreamUsers  \* threads that work on the stream's lists

ASSUME StreamAssumption == {"none", "unset"} \cap StreamUsers = {}

VARIABLES stream,   \* struct flb_stream: thread_safety_flag, flags, linked
          mutex,    \* who holds list_mutex, "none", or "unset" before its initialisation
          enabling, \* what flb_stream_enable_thread_safety does next: "init", "unlink",
                    \* or "out" when nobody is in it
          inside,   \* users between a successful acquire and the release
          refused,  \* users whose last acquire failed
          early     \* history: somebody was inside when the mutex was initialised

streamVars == <<stream, mutex, enabling, inside, refused, early>>

\* The flags of flb_io.h the stream's helpers set, clear and test.
Modes == {"ASYNC", "TCP_KA", "TLS"}

\* flb_stream_setup leaves thread safety off; the creator links the stream.
StreamInit == /\ stream \in [safe : {FALSE}, flags : SUBSET Modes, linked : BOOLEAN]
              /\ mutex = "unset" /\ enabling = "out"
              /\ inside = {} /\ refused = {} /\ early = FALSE

flb_stream_enable_flags(s, flag)  == [s EXCEPT !.flags = @ \cup {flag}]
flb_stream_disable_flags(s, flag) == [s EXCEPT !.flags = @ \ {flag}]
flb_stream_get_flag_status(s, flag) == flag \in s.flags

\* Async mode and keep-alive are switched; TLS has no switch.
SwitchMode(flag, on) ==
  /\ flag # "TLS"
  /\ flb_stream_get_flag_status(stream, flag) # on
  /\ stream' = IF on THEN flb_stream_enable_flags(stream, flag) ELSE flb_stream_disable_flags(stream, flag)
  /\ UNCHANGED <<mutex, enabling, inside, refused, early>>

\* flb_stream_enable_thread_safety, its three steps.  First the flag, which acquire and
\* release test; nothing keeps a second call from doing all of it again.
EnableFlag == /\ enabling = "out"
              /\ stream' = [stream EXCEPT !.safe = TRUE]
              /\ enabling' = "init"
              /\ UNCHANGED <<mutex, inside, refused, early>>

\* Then the mutex, which is open afterwards, whoever had it.
EnableMutex == /\ enabling = "init"
               /\ mutex' = "none"
               /\ early' = (early \/ inside # {})
               /\ enabling' = "unlink"
               /\ UNCHANGED <<stream, inside, refused>>

\* Last, a linked stream leaves the list of its creator.
EnableUnlink == /\ enabling = "unlink"
                /\ stream' = [stream EXCEPT !.linked = FALSE]
                /\ enabling' = "out"
                /\ UNCHANGED <<mutex, inside, refused, early>>

Enter(u)  == inside' = inside \cup {u} /\ refused' = refused \ {u}
Refuse(u) == refused' = refused \cup {u} /\ UNCHANGED inside

\* The mutated form: a taken lock is reported as acquired.
AcquireAnyway(u, wait_flag) ==
  /\ u \notin inside
  /\ \/ mutex = "unset" /\ Enter(u) /\ UNCHANGED mutex
     \/ mutex # "unset" /\ (wait_flag => mutex = "none") /\ Enter(u) /\ mutex' = u
  /\ UNCHANGED <<stream, enabling, early>>

\* pthread_mutex_lock waits, pthread_mutex_trylock refuses.  Between the flag and the
\* initialisation of the mutex either call is undefined: it succeeds or it fails.
flb_stream_acquire_lock(u, wait_flag) ==
  /\ u \notin inside
  /\ \/ ~ stream.safe /\ Enter(u) /\ UNCHANGED mutex
     \/ stream.safe /\ mutex = "unset" /\ (Enter(u) \/ Refuse(u)) /\ UNCHANGED mutex
     \/ stream.safe /\ mutex = "none" /\ Enter(u) /\ mutex' = u
     \/ stream.safe /\ mutex \in StreamUsers /\ ~ wait_flag /\ Refuse(u) /\ UNCHANGED mutex
  /\ UNCHANGED <<stream, enabling, early>>

\* The unlock happens if the flag is set now, whatever it was at the acquire: the mutex of
\* another user, or of nobody, is then unlocked by who does not hold it, which pthreads
\* leave undefined: it stays as it is or it opens.
flb_stream_release_lock(u) ==
  /\ u \in inside
  /\ \/ mutex = u /\ mutex' = "none"
     \/ mutex # u /\ mutex # "unset" /\ mutex' \in {mutex, "none"}
     \/ mutex = "unset" /\ UNCHANGED mutex
  /\ inside' = inside \ {u}
  /\ UNCHANGED <<stream, enabling, refused, early>>

StreamNext == \/ \E flag \in Modes, on \in BOOLEAN : SwitchMode(flag, on)
              \/ EnableFlag \/ EnableMutex \/ EnableUnlink
              \/ \E u \in StreamUsers : \/ flb_stream_release_lock(u)
                                        \/ \E w \in BOOLEAN : flb_stream_acquire_lock(u, w)

StreamSpec == StreamInit /\ [][StreamNext]_streamVars
-----------------------------------------------------------------------------
\* Once the mutex is initialised the stream's lists have one user at a time, the one who
\* holds the mutex, unless somebody was inside at that moment, let in before the flag was
\* set or between the flag and the mutex; and when enabling is over the stream is on no
\* shared list (flb_stream.h:147-206).
ExclusiveWhenSafe ==
  /\ mutex # "unset" /\ ~ early => Cardinality(inside) <= 1 /\ \A u \in inside : mutex = u
  /\ stream.safe /\ enabling = "out" => ~ stream.linked
=============================================================================
