--------------------------- MODULE OutputProcess ---------------------------
(* flb_output_flush_create (fluent-bit/flb_output.h): before a chunk is flushed the *)
(* processors of the output rewrite it.  Logs go through the processor as one       *)
(* buffer, which it may return as it was; metrics and traces are decoded context by *)
(* context, processed, encoded and appended to a buffer that is enlarged when a      *)
(* context does not fit.  Every call may fail, and each failure path releases by     *)
(* hand what was acquired so far.                                                    *)
EXTENDS Naturals, FiniteSets

CONSTANTS MaxSize,      \* bound: size of the chunk and of an encoded context
          MaxContexts   \* bound: contexts in a chunk

ASSUME ProcAssumption == MaxSize \in Nat /\ MaxContexts \in Nat

VARIABLE proc

\* held: what is allocated; alloc, size and offset: the bytes allocated for p_buf, p_size
\* and serialization_buffer_offset; shared: p_buf is the task's own data; freed: that data
\* was freed; leaked: contexts that nobody destroys.
NewProc(type, size) == [at |-> "idle", type |-> type, size |-> size, alloc |-> 0, offset |-> 0,
                        contexts |-> 0, held |-> {}, shared |-> FALSE, freed |-> FALSE, leaked |-> 0]

ProcInit == proc = NewProc("none", 0)

Acquire(p, what) == [p EXCEPT !.held = @ \cup what]
Release(p, what) == [p EXCEPT !.held = @ \ what, !.freed = @ \/ (p.shared /\ "p_buf" \in what)]
At(p, pc)        == [p EXCEPT !.at = pc]

\* A failure path: what it releases, then NULL is returned.
Null(p, what) == At(Release(p, what), "null")

\* The flush context and its coroutine; without active processors the chunk goes as it is.
ProcCreate(type, size, active, fail) ==
  /\ proc.at \in {"idle", "null", "over"}
  /\ LET p == Acquire(NewProc(type, size), {"out_flush"})
     IN  proc' = CASE fail = "context" -> At(NewProc(type, size), "null")
                   [] fail = "coroutine" -> Null(p, {"out_flush"})
                   [] OTHER -> At(Acquire(p, {"coro"}), IF active THEN "process" ELSE "stack")

\* FLB_EVENT_TYPE_LOGS: an error or an empty result end the flush, and so do a result
\* without records and a chunk that cannot be created.
ProcLogs(outcome, size, shared) ==
  /\ proc.at = "process" /\ proc.type = "logs"
  /\ LET p == [Acquire(proc, {"p_buf"}) EXCEPT !.shared = shared, !.size = size, !.alloc = size,
                                               !.offset = size]
     IN  proc' = CASE outcome \in {"error", "empty"} -> Null(proc, {"coro", "out_flush"})
                   [] outcome \in {"no records", "no chunk"} -> Null(p, {"coro", "out_flush", "p_buf"})
                   [] OTHER -> At(Acquire(p, {"chunk"}), "stack")

\* FLB_EVENT_TYPE_METRICS and _TRACES: twice the chunk is allocated, its size is p_size.
ProcBuffer(fail) ==
  /\ proc.at = "process"
  /\ proc' = IF fail THEN Null(proc, {"coro", "out_flush"})
             ELSE [At(Acquire(proc, {"p_buf"}), "decode") EXCEPT !.alloc = 2 * proc.size]

\* The mutated form: the buffer is enlarged once it is full, not when a context does not fit.
GrowWhenFull(p, bytes) ==
  IF p.offset > p.size THEN [p EXCEPT !.alloc = p.size + bytes, !.size = @ + bytes] ELSE p

\* flb_realloc to p_size plus the context, which may be less than was allocated.
Grow(p, bytes) ==
  IF p.offset + bytes > p.size THEN [p EXCEPT !.alloc = p.size + bytes, !.size = @ + bytes] ELSE p

\* A context is decoded and processed; one that the processor refuses is skipped and not
\* destroyed.  Otherwise it is encoded, destroyed, and copied behind the others.
ProcContext(outcome, bytes) ==
  /\ proc.at = "decode" /\ proc.contexts < MaxContexts
  /\ LET p == [proc EXCEPT !.contexts = @ + 1]
         g == Grow(p, bytes)
     IN  proc' = CASE outcome = "refused" -> [p EXCEPT !.leaked = @ + 1]
                   [] outcome = "encode fails" -> Null(p, {"coro", "out_flush", "p_buf"})
                   [] outcome = "realloc fails" /\ g # p ->
                        Null(Acquire(p, {"encoded"}), {"encoded", "coro", "out_flush", "p_buf"})
                   [] OTHER -> [g EXCEPT !.offset = @ + bytes]

\* Nothing decodes any more: an empty result ends the flush, otherwise p_size bytes of the
\* buffer become the chunk.
ProcChunk(fail) ==
  /\ proc.at = "decode"
  /\ proc' = IF proc.offset = 0 \/ fail THEN Null(proc, {"coro", "out_flush", "p_buf"})
             ELSE At(Acquire(proc, {"chunk"}), "stack")

\* co_create: without a stack the processed chunk is released with its data, whoever owns
\* them; otherwise the flush is linked and entered.
ProcStack(fail) ==
  /\ proc.at = "stack"
  /\ proc' = IF fail
             THEN Null(proc, {"coro", "out_flush"}
                             \cup IF "chunk" \in proc.held THEN {"p_buf", "chunk"} ELSE {})
             ELSE At(Acquire(proc, {"stack"}), "linked")

\* flb_output_return releases the processed chunk, its data only if they are not the task's;
\* flb_output_flush_destroy releases the rest.
ProcReturn ==
  /\ proc.at = "linked"
  /\ LET p == [proc EXCEPT !.held = IF proc.shared THEN @ \ {"p_buf"} ELSE @]
     IN  proc' = At(Release(p, p.held), "over")

\* The serialisation of one kind; the two blocks of the function differ in the library
\* that decodes and encodes.
ProcSerialize == \/ \E fail \in BOOLEAN : ProcBuffer(fail) \/ ProcChunk(fail)
                 \/ \E outcome \in {"ok", "refused", "encode fails", "realloc fails"},
                       bytes \in 1 .. MaxSize : ProcContext(outcome, bytes)

ProcMetrics == proc.type = "metrics" /\ ProcSerialize
ProcTraces  == proc.type = "traces" /\ ProcSerialize

ProcNext ==
  \/ \E type \in {"logs", "metrics", "traces"}, size \in 1 .. MaxSize, active \in BOOLEAN,
        fail \in {"none", "context", "coroutine"} : ProcCreate(type, size, active, fail)
  \/ \E outcome \in {"ok", "error", "empty", "no records", "no chunk"}, size \in 1 .. MaxSize,
        shared \in BOOLEAN : ProcLogs(outcome, size, shared)
  \/ ProcMetrics \/ ProcTraces
  \/ \E fail \in BOOLEAN : ProcStack(fail)
  \/ ProcReturn

ProcSpec == ProcInit /\ [][ProcNext]_proc
-----------------------------------------------------------------------------
\* However the contexts shrink and grow, they are copied within the buffer and the chunk is
\* no larger than it.  When a flush is given up or over, all is released but the contexts
\* that the processor refused, and a flush that was linked never frees the task's own data
\* (flb_output.h:650-892, :943-950).
ProcessKeepsBounds ==
  /\ "p_buf" \in proc.held => proc.offset <= proc.size /\ proc.size <= proc.alloc
  /\ proc.at \in {"null", "over"} => proc.held = {}
  /\ proc.at \in {"linked", "over"} => ~ proc.freed
=============================================================================
