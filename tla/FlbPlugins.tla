----------------------------- MODULE FlbPlugins -----------------------------
(* The registry of built-in plugins (fluent-bit/flb_plugins.h): every plugin that *)
(* is compiled in is copied to the heap and linked to the list of its kind; the    *)
(* registration may stop in the middle when memory runs out, and the              *)
(* deregistration walks whatever is on the lists.  A plugin is its kind and its    *)
(* place among the plugins of that kind.                                           *)
EXTENDS Naturals, Sequences, FiniteSets

VARIABLES phase,       \* "idle", "registering", "failed", "ready", "unregistering"
          lists,       \* [Kinds -> the plugins linked, in order]
          heap,        \* plugins allocated and not freed
          destroyed    \* plugins whose cb_destroy was called since their registration

pluginVars == <<phase, lists, heap, destroyed>>

Kinds == {"custom", "input", "output", "filter", "processor"}

\* The extern declarations: how many plugins of each kind there are.
Declared == [custom |-> 1, input |-> 26, output |-> 38, filter |-> 21, processor |-> 2]

\* The kinds in the order of flb_plugins_register.
Order == <<"custom", "input", "output", "filter", "processor">>

Complete(kind) == Len(lists[kind]) = Declared[kind]

\* The kind that is registered next.
Next_(kind) == \E i \in 1 .. 5 : /\ Order[i] = kind /\ ~ Complete(kind)
                                 /\ \A j \in 1 .. i - 1 : Complete(Order[j])
-----------------------------------------------------------------------------
PluginInit == /\ phase = "idle"
              /\ lists = [k \in Kinds |-> << >>]
              /\ heap = {} /\ destroyed = {}

Begin == /\ phase = "idle"
         /\ phase' = "registering"
         /\ destroyed' = {}
         /\ UNCHANGED <<lists, heap>>

\* malloc, memcpy of the plugin's definition, mk_list_add; no memory returns -1 and what
\* is linked so far stays.
Register(kind, memory) ==
  /\ phase = "registering" /\ Next_(kind)
  /\ IF memory
     THEN LET p == <<kind, Len(lists[kind]) + 1>>
          IN  /\ lists' = [lists EXCEPT ![kind] = Append(@, p)]
              /\ heap' = heap \cup {p}
              /\ UNCHANGED <<phase, destroyed>>
     ELSE phase' = "failed" /\ UNCHANGED <<lists, heap, destroyed>>

RegisterCustom(memory)    == Register("custom", memory)
RegisterInput(memory)     == Register("input", memory)
RegisterOutput(memory)    == Register("output", memory)
RegisterFilter(memory)    == Register("filter", memory)
RegisterProcessor(memory) == Register("processor", memory)

Registered == /\ phase = "registering" /\ \A k \in Kinds : Complete(k)
              /\ phase' = "ready"
              /\ UNCHANGED <<lists, heap, destroyed>>

\* The configuration is torn down, also after a registration that failed.
BeginUnregister == /\ phase \in {"ready", "failed"}
                   /\ phase' = "unregistering"
                   /\ UNCHANGED <<lists, heap, destroyed>>

\* The mutated form: an output is freed and stays linked.
UnregisterLinked(kind) ==
  /\ phase = "unregistering" /\ lists[kind] # << >>
  /\ heap' = heap \ {Head(lists[kind])}
  /\ UNCHANGED <<phase, lists, destroyed>>

\* One step of a foreach_safe loop of flb_plugins_unregister: inputs and outputs may have
\* a cb_destroy; the entry is unlinked and freed.  The loops run in the order of the kinds.
Unregister(kind) ==
  /\ phase = "unregistering" /\ lists[kind] # << >>
  /\ \E i \in 1 .. 5 : Order[i] = kind /\ \A j \in 1 .. i - 1 : lists[Order[j]] = << >>
  /\ lists' = [lists EXCEPT ![kind] = Tail(@)]
  /\ heap' = heap \ {Head(lists[kind])}
  /\ destroyed' = IF kind \in {"input", "output"} THEN destroyed \cup {Head(lists[kind])} ELSE destroyed
  /\ UNCHANGED phase

Unregistered == /\ phase = "unregistering" /\ \A k \in Kinds : lists[k] = << >>
                /\ phase' = "idle"
                /\ UNCHANGED <<lists, heap, destroyed>>

PluginNext ==
  \/ Begin \/ Registered \/ BeginUnregister \/ Unregistered
  \/ \E memory \in BOOLEAN : \/ RegisterCustom(memory) \/ RegisterInput(memory)
                             \/ RegisterOutput(memory) \/ RegisterFilter(memory)
                             \/ RegisterProcessor(memory)
  \/ \E kind \in Kinds : Unregister(kind)

PluginSpec == PluginInit /\ [][PluginNext]_pluginVars
-----------------------------------------------------------------------------
\* Every copy on the heap is on the list of its kind, once, also when the registration
\* stopped in the middle, so that the deregistration frees all of them and no plugin that
\* is still registered was destroyed (flb_plugins.h:124-890).
PluginsAccounted ==
  /\ heap = UNION {{lists[k][i] : i \in DOMAIN lists[k]} : k \in Kinds}
  /\ \A k \in Kinds : \A i, j \in DOMAIN lists[k] : lists[k][i][1] = k /\ (lists[k][i] = lists[k][j] => i = j)
  /\ phase = "idle" => heap = {}
  /\ destroyed \cap heap = {}
=============================================================================
