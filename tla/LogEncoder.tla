----------------------------- MODULE LogEncoder -----------------------------
(* The log event encoder (fluent-bit/flb_log_event_encoder*.h): a record is built   *)
(* in three dynamic fields, root, metadata and body, by appending values inside     *)
(* nested maps and arrays, or by setting a field whole.  Values reach the encoder   *)
(* as C variable arguments, a type code followed by its operands, ended by a zero.  *)
(* The dynamic field functions are not in the repository.                           *)
EXTENDS Integers, Sequences, SequencesExt, FiniteSets

CONSTANTS EncValues,     \* msgpack values
          MaxBuffer,     \* bound: values and open scopes of a field
          OperandWords,  \* words that follow a type code: lengths, pointers, numbers
          ArgumentLists  \* lists of values that callers append

VARIABLES fields,  \* [1 .. 3 -> struct flb_log_event_encoder_dynamic_field]
          last     \* the operation that ended last and its result

encVars == <<fields, last>>

ROOT == 1  METADATA == 2  BODY == 3
Targets == {ROOT, METADATA, BODY}

SUCCESS == 0  ALLOCATION_ERROR == -2  INVALID_ARGUMENT == -4

\* struct flb_log_event_encoder_dynamic_field: the open scopes with the offset they
\* began at, what is packed, and the data that flush publishes.
EmptyField == [scopes |-> << >>, buffer |-> << >>, data |-> << >>]
-----------------------------------------------------------------------------
(* The value macros. *)

\* The type codes, by the number of operands that follow them.
TERMINATOR   == 0
NoOperand    == {7}
TwoOperands  == {2, 4, 5, 6, 20}
OperandCount(code) == IF code \in NoOperand THEN 0 ELSE IF code \in TwoOperands THEN 2 ELSE 1

\* Values of one code: null, the integers, double, boolean, objects and timestamps.
SINGLE_VALUE(code, operands) == <<code>> \o operands

STRING_VALUE(buffer, length) == <<1, length>> \o <<2, buffer, length>>
BINARY_VALUE(buffer, length) == <<3, length>> \o <<4, buffer, length>>

\* The macro's parameter is type_, its body says type: the caller's variable of that name.
EXT_VALUE(type_, type, buffer, length) == <<5, type, length>> \o <<6, buffer, length>>

\* flb_log_event_encoder_append_values and its root, metadata and body forms.
append_values(values) == FlattenSeq(values) \o <<TERMINATOR>>

\* flb_log_event_encoder_append_values_unsafe: up to the terminator, each code takes its
\* operands; what lies behind the arguments is not theirs.
ReadValues(words) ==
  LET Read[i \in 1 .. Len(words) + 3] ==
        IF i > Len(words) THEN <<"beyond">>
        ELSE IF words[i] = TERMINATOR THEN << >>
        ELSE IF i + OperandCount(words[i]) > Len(words) THEN <<"beyond">>
        ELSE <<SubSeq(words, i, i + OperandCount(words[i]))>> \o Read[i + 1 + OperandCount(words[i])]
  IN  Read[1]

\* The words that the value macros yield.
MacroValue(words) ==
  \E n \in OperandWords, m \in OperandWords, type \in OperandWords :
    \/ \E code \in NoOperand : words = SINGLE_VALUE(code, << >>)
    \/ \E code \in 1 .. 24 \ (NoOperand \cup TwoOperands) : words = SINGLE_VALUE(code, <<n>>)
    \/ \E code \in TwoOperands : words = SINGLE_VALUE(code, <<n, m>>)
    \/ words \in {STRING_VALUE(n, m), BINARY_VALUE(n, m), EXT_VALUE(0, type, n, m)}

ASSUME EncAssumption ==
  /\ OperandWords \subseteq Int
  /\ \A values \in ArgumentLists : values \in Seq(Seq(Int)) /\ \A i \in 1 .. Len(values) : MacroValue(values[i])
-----------------------------------------------------------------------------
(* The primitives. *)

\* flb_log_event_encoder_get_field.
get_field(target_field) == IF target_field \in Targets THEN SUCCESS ELSE INVALID_ARGUMENT

dynamic_field_begin(field, type) ==
  [field EXCEPT !.scopes = Append(@, [type |-> type, offset |-> Len(field.buffer)])]

dynamic_field_leave(field, type, commit) ==
  IF field.scopes = << >> \/ (field.scopes # << >> /\ Last(field.scopes).type # type) THEN field
  ELSE [field EXCEPT !.scopes = Front(@),
                     !.buffer = IF commit THEN @ ELSE SubSeq(@, 1, Last(field.scopes).offset)]

dynamic_field_append(field, v) == [field EXCEPT !.buffer = Append(@, v)]
dynamic_field_reset(field)     == EmptyField
dynamic_field_flush(field)     == [field EXCEPT !.scopes = << >>, !.data = field.buffer]

\* An operation on the field that a target selects; other targets change nothing.
OnField(target, changed(_)) ==
  /\ fields' = IF get_field(target) = SUCCESS
               THEN [fields EXCEPT ![target] = changed(fields[target])] ELSE fields
  /\ last' = [op |-> "edit", field |-> target, result |-> get_field(target), value |-> << >>]

Room(target) == target \in Targets => /\ Len(fields[target].buffer) < MaxBuffer
                                      /\ Len(fields[target].scopes) < MaxBuffer

begin_map(target)      == Room(target) /\ OnField(target, LAMBDA f : dynamic_field_begin(f, "map"))
begin_array(target)    == Room(target) /\ OnField(target, LAMBDA f : dynamic_field_begin(f, "array"))
commit_map(target)     == OnField(target, LAMBDA f : dynamic_field_leave(f, "map", TRUE))
commit_array(target)   == OnField(target, LAMBDA f : dynamic_field_leave(f, "array", TRUE))
rollback_map(target)   == OnField(target, LAMBDA f : dynamic_field_leave(f, "map", FALSE))
rollback_array(target) == OnField(target, LAMBDA f : dynamic_field_leave(f, "array", FALSE))

\* A scope is begun, committed or rolled back.
Scopes(target) == \/ begin_map(target) \/ commit_map(target) \/ rollback_map(target)
                  \/ begin_array(target) \/ commit_array(target) \/ rollback_array(target)

\* The scope macros of the three fields.
root_scopes     == Scopes(ROOT)
metadata_scopes == Scopes(METADATA)
body_scopes     == Scopes(BODY)

\* The append macros of the three fields.
append_root(v)     == Room(ROOT) /\ OnField(ROOT, LAMBDA f : dynamic_field_append(f, v))
append_metadata(v) == Room(METADATA) /\ OnField(METADATA, LAMBDA f : dynamic_field_append(f, v))
append_body(v)     == Room(BODY) /\ OnField(BODY, LAMBDA f : dynamic_field_append(f, v))

\* The value list forms; bound: on an empty record.
append_values_to(target, values) ==
  /\ \A f \in Targets : fields[f] = EmptyField
  /\ fields' = [fields EXCEPT ![target].buffer = ReadValues(append_values(values))]
  /\ last' = [op |-> "values", field |-> target, result |-> SUCCESS, value |-> values]
-----------------------------------------------------------------------------
(* Setting a field whole: resets, then append, then flush; a step that fails ends the    *)
(* operation, the steps before it stay done.  fails is the step that fails, 0 for none.   *)

SetOutcome(target, v, fails, resets) ==
  LET n == Len(resets)
      done(i) == fails = 0 \/ i < fails
      reset == [f \in Targets |-> IF \E i \in 1 .. n : resets[i] = f /\ done(i)
                                  THEN dynamic_field_reset(fields[f]) ELSE fields[f]]
      full == IF done(n + 1) THEN dynamic_field_append(reset[target], v) ELSE reset[target]
  IN  /\ fails <= n + 2
      /\ fields' = [reset EXCEPT ![target] = IF done(n + 2) THEN dynamic_field_flush(full) ELSE full]
      /\ last' = [op |-> "set", field |-> target, value |-> v,
                  result |-> IF fails = 0 THEN SUCCESS ELSE ALLOCATION_ERROR]

\* The mutated form: what was appended to the body before is kept beside the root.
RootKeepsBody(v, fails) == SetOutcome(ROOT, v, fails, <<METADATA, ROOT>>)

set_root_from_msgpack_object(v, fails)     == SetOutcome(ROOT, v, fails, <<METADATA, BODY, ROOT>>)
set_root_from_raw_msgpack(v, fails)        == SetOutcome(ROOT, v, fails, <<METADATA, BODY, ROOT>>)
set_body_from_msgpack_object(v, fails)     == SetOutcome(BODY, v, fails, <<BODY>>)
set_body_from_raw_msgpack(v, fails)        == SetOutcome(BODY, v, fails, <<BODY>>)
set_metadata_from_msgpack_object(v, fails) == SetOutcome(METADATA, v, fails, <<METADATA>>)
set_metadata_from_raw_msgpack(v, fails)    == SetOutcome(METADATA, v, fails, <<METADATA>>)

EncInit == /\ fields = [f \in Targets |-> EmptyField]
           /\ last = [op |-> "none", field |-> 0, result |-> SUCCESS, value |-> << >>]

EncNext ==
  \/ root_scopes \/ metadata_scopes \/ body_scopes \/ Scopes(0)
  \/ \E v \in EncValues : append_root(v) \/ append_metadata(v) \/ append_body(v)
  \/ \E v \in EncValues, fails \in 0 .. 5 :
       \/ set_root_from_msgpack_object(v, fails) \/ set_root_from_raw_msgpack(v, fails)
       \/ set_body_from_msgpack_object(v, fails) \/ set_body_from_raw_msgpack(v, fails)
       \/ set_metadata_from_msgpack_object(v, fails) \/ set_metadata_from_raw_msgpack(v, fails)
  \/ \E t \in Targets, values \in ArgumentLists : append_values_to(t, values)

EncSpec == EncInit /\ [][EncNext]_encVars
-----------------------------------------------------------------------------
\* Whatever was appended, left open or half set before, a successful set leaves exactly the
\* given value in its field, published and with no scope open, and nothing beside a root
\* (flb_log_event_encoder_root_macros.h:129-188, flb_log_event_encoder_body_macros.h:129-172).
\* A value list arrives in its field word for word, also where an operand is zero like the
\* terminator or equals a type code (flb_log_event_encoder.h:78-194, :255-271).
SetIsExact ==
  last.result = SUCCESS =>
    /\ last.op = "set" =>
         /\ fields[last.field] = [EmptyField EXCEPT !.buffer = <<last.value>>, !.data = <<last.value>>]
         /\ last.field = ROOT => \A f \in Targets \ {ROOT} : fields[f] = EmptyField
    /\ last.op = "values" => FlattenSeq(fields[last.field].buffer) = FlattenSeq(last.value)
=============================================================================
