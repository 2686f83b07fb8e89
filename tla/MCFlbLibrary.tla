---------------------------- MODULE MCFlbLibrary ----------------------------
(* The parts of the Fluent Bit headers that do not share state, one at a time: the *)
(* first state chooses the part, and the others stay as they were initialised.      *)
EXTENDS MkList, EventLoop, FlbPlugins, FlbStream, FlbInput, LogEncoder, OutputProcess, FlbCodecs

CONSTANTS timer, conn1, conn2, odd, tail, cpu, dummy

VARIABLE part

libVars == <<part, listVars, loopVars, pluginVars, streamVars, inputVars, encVars, proc, codecVars>>

\* One event per priority class, two of one, and one whose priority names no bucket.
MCKind == (timer :> "sched") @@ (conn1 :> "network") @@ (conn2 :> "network") @@ (odd :> "none")

\* Two collectors share an input thread.
MCThreadOfColl == (tail :> "in1") @@ (cpu :> "in1") @@ (dummy :> "in2")

\* The bytes at the edges of the classes of UTF-8, one byte in every place of a value, and
\* all short strings of two characters.
MCCodecBytes  == {0, 127, 128, 143, 144, 159, 160, 191, 192, 193, 194, 223, 224, 225, 236, 237, 238, 239,
                  240, 241, 243, 244, 245, 255}
MCSwapValues  == UNION {{[j \in 1 .. n |-> IF j = i THEN 255 ELSE j] : i \in 1 .. n} : n \in {2, 4, 8}}
MCTrimStrings == UNION {[1 .. n -> {99, 100}] : n \in 0 .. 4}

\* Argument lists with operands that look like terminators and codes.
MCArgumentLists ==
  LET one == {SINGLE_VALUE(7, << >>), STRING_VALUE(0, 0), BINARY_VALUE(1, 0), EXT_VALUE(3, 0, 0, 2)}
             \cup {SINGLE_VALUE(c, <<n>>) : c \in {9, 18, 19, 21}, n \in {0, 20}}
             \cup {SINGLE_VALUE(20, <<0, n>>) : n \in {0, 2}}
  IN  {<<a>> : a \in one} \cup {<<a, b>> : a \in one, b \in {STRING_VALUE(0, 0), SINGLE_VALUE(7, << >>)}}

Parts == {"list", "queue", "loop", "plugins", "stream", "input", "encoder", "process", "codecs"}

LibInit ==
  /\ part \in Parts
  /\ ListInit /\ PluginInit /\ InputInit /\ EncInit /\ ProcInit /\ CodecInit
  /\ IF part = "queue" THEN BqInit /\ EngineInit ELSE LoopInit
  /\ StreamInit /\ (part # "stream" => stream.flags = {} /\ stream.linked)

\* The other parts rest.
Rest(p) ==
  /\ UNCHANGED part
  /\ p # "list" => UNCHANGED listVars
  /\ p \notin {"queue", "loop"} => UNCHANGED bqVars
  /\ p # "loop" => UNCHANGED engineVars
  /\ p # "plugins" => UNCHANGED pluginVars
  /\ p # "stream" => UNCHANGED streamVars
  /\ p # "input" => UNCHANGED inputVars
  /\ p # "encoder" => UNCHANGED encVars
  /\ p # "process" => UNCHANGED proc
  /\ p # "codecs" => UNCHANGED codecVars

LibNext ==
  \/ part = "list" /\ ListNext /\ Rest("list")
  \/ part = "queue" /\ BqNext /\ Rest("queue")
  \/ part = "loop" /\ LoopNext /\ Rest("loop")
  \/ part = "plugins" /\ PluginNext /\ Rest("plugins")
  \/ part = "stream" /\ StreamNext /\ Rest("stream")
  \/ part = "input" /\ InputNext /\ Rest("input")
  \/ part = "encoder" /\ EncNext /\ Rest("encoder")
  \/ part = "process" /\ ProcNext /\ Rest("process")
  \/ part = "codecs" /\ CodecNext /\ Rest("codecs")

\* The fairness of the event loop, in the behaviours that are about it.
LibFairness ==
  /\ WF_loopVars(part = "loop" /\ Round)
  /\ WF_loopVars(part = "loop" /\ Load)
  /\ WF_loopVars(part = "loop" /\ Take)
  /\ WF_loopVars(part = "loop" /\ Handle)
  /\ WF_loopVars(part = "loop" /\ LoadInjected)
  /\ WF_loopVars(part = "loop" /\ WaitAgain)

LibSpec == LibInit /\ [][LibNext]_libVars /\ LibFairness
=============================================================================
