----------------------------- MODULE FlbCodecs -----------------------------
(* Conversions in the headers, against reference definitions: the UTF-8 automaton   *)
(* of fluent-bit/flb_utf8.h fed byte by byte, the keys that carry a flush's result   *)
(* through a pipe (flb_task.h, flb_bits.h), byte swapping (flb_byteswap.h), and      *)
(* flb_rtrim (flb_str.h).                                                            *)
EXTENDS Integers, Sequences

CONSTANTS CodecBytes,   \* bytes that the automaton may be fed
          KeyIds,       \* ids of tasks and of outputs: 14 bits
          SwapValues,   \* values to swap, as their bytes: 16, 32 or 64 bits
          TrimStrings,  \* strings to trim
          TrimChars     \* characters to trim, or that lie before a string

ASSUME CodecAssumption == /\ CodecBytes \subseteq 0 .. 255
                          /\ KeyIds \subseteq 0 .. 2^14 - 1
                          /\ \A raw \in SwapValues \cup TrimStrings : raw \in Seq(0 .. 255)
                          /\ \A raw \in SwapValues : Len(raw) \in {2, 4, 8}
                          /\ TrimChars \subseteq 0 .. 255

VARIABLES bytes,  \* the bytes fed since the last code point
          state,  \* the automaton's state
          codep,  \* the code point so far
          conv    \* the conversion looked at last: its input and its result

codecVars == <<bytes, state, codep, conv>>
-----------------------------------------------------------------------------
(* UTF-8. *)

ACCEPT == 0  REJECT == 1

\* flb_utf8_len: the length that a first byte announces (trailingBytesForUTF8, plus one).
flb_utf8_len(b) == CASE b < 192 -> 1 [] b \in 192 .. 223 -> 2 [] b \in 224 .. 239 -> 3
                     [] b \in 240 .. 247 -> 4 [] b \in 248 .. 251 -> 5 [] OTHER -> 6

\* The mutated form: all first bytes of three are alike.
ClassNoSurrogates(b) ==
  CASE b < 128 -> 0 [] b \in 128 .. 143 -> 1 [] b \in 144 .. 159 -> 9 [] b \in 160 .. 191 -> 7
    [] b \in {192, 193} \/ b > 244 -> 8 [] b \in 194 .. 223 -> 2
    [] b = 224 -> 10 [] b \in 225 .. 239 -> 3
    [] b = 240 -> 11 [] b = 244 -> 5 [] OTHER -> 6

\* The first 256 entries of utf8d: the class of a byte.
ByteClass(b) ==
  CASE b < 128 -> 0 [] b \in 128 .. 143 -> 1 [] b \in 144 .. 159 -> 9 [] b \in 160 .. 191 -> 7
    [] b \in {192, 193} \/ b > 244 -> 8 [] b \in 194 .. 223 -> 2
    [] b = 224 -> 10 [] b = 237 -> 4 [] b \in 225 .. 239 \ {237} -> 3
    [] b = 240 -> 11 [] b = 244 -> 5 [] OTHER -> 6

\* The rest of utf8d: the state after a byte of a class; what is not listed is REJECT.
Transition(s, type) ==
  CASE s = 0 -> <<0, 1, 2, 3, 5, 8, 7, 1, 1, 1, 4, 6>>[type + 1]
    [] s = 2 /\ type \in {1, 7, 9} -> 0
    [] s = 3 /\ type \in {1, 7, 9} -> 2
    [] s = 4 /\ type = 7 -> 2
    [] s = 5 /\ type \in {1, 9} -> 2
    [] s = 6 /\ type \in {7, 9} -> 3
    [] s = 7 /\ type \in {1, 7, 9} -> 3
    [] s = 8 /\ type = 1 -> 3
    [] OTHER -> 1

\* byte & (2^n - 1); a first byte keeps 8 - type bits, none for the types above 8.
LowBits(b, n) == IF n <= 0 THEN 0 ELSE b % (2 ^ n)

\* flb_utf8_decode; a rejected automaton stays rejected, its code point is not used.
flb_utf8_decode(b) ==
  /\ state # REJECT
  /\ LET type == ByteClass(b)
         next == Transition(state, type)
     IN  /\ state' = next
         /\ codep' = IF next = REJECT THEN 0
                     ELSE IF state # ACCEPT THEN codep * 64 + LowBits(b, 6) ELSE LowBits(b, 8 - type)
         /\ bytes' = IF state = ACCEPT THEN <<b>> ELSE Append(bytes, b)
  /\ UNCHANGED conv

\* The reference: the lead byte, its continuation bytes, and the code point's range.
Tail_(s)       == \A i \in 2 .. Len(s) : s[i] \in 128 .. 191
CodePointOf(s) == CASE Len(s) = 1 -> s[1]
                    [] Len(s) = 2 -> (s[1] - 192) * 64 + (s[2] - 128)
                    [] Len(s) = 3 -> (s[1] - 224) * 4096 + (s[2] - 128) * 64 + (s[3] - 128)
                    [] Len(s) = 4 -> (s[1] - 240) * 262144 + (s[2] - 128) * 4096 + (s[3] - 128) * 64 + (s[4] - 128)
LeadOf(n)      == CASE n = 1 -> 0 .. 127 [] n = 2 -> 192 .. 223 [] n = 3 -> 224 .. 239 [] n = 4 -> 240 .. 247
ScalarOf(n, c) == \/ n = 1 /\ 0 <= c /\ c < 128
                  \/ n = 2 /\ 128 <= c /\ c < 2048
                  \/ n = 3 /\ 2048 <= c /\ c < 65536 /\ ~ (55296 <= c /\ c < 57344)
                  \/ n = 4 /\ 65536 <= c /\ c <= 1114111
WellFormed(s)  == /\ Len(s) \in 1 .. 4 /\ s[1] \in LeadOf(Len(s)) /\ Tail_(s)
                  /\ ScalarOf(Len(s), CodePointOf(s))
Copies(n, b)   == [i \in 1 .. n |-> b]
Extensible(s)  == \E n \in 1 .. 3 : \E fill \in {128, 143, 144, 159, 160, 191} : WellFormed(s \o Copies(n, fill))
-----------------------------------------------------------------------------
(* Keys: return value in 4 bits, task in 14, output in 14, behind the engine's event. *)

FLB_TASK_SET(ret, task_id, out_id) == ret * 2^28 + task_id * 2^14 + out_id
FLB_TASK_RET(val) == val \div 2^28
FLB_TASK_ID(val)  == (val % 2^28) \div 2^14
FLB_TASK_OUT(val) == val % 2^14

\* 64 bits as a pair of 32.
FLB_BITS_U64_SET(a, b) == <<a, b>>
FLB_BITS_U64_HIGH(val) == val[1]
FLB_BITS_U64_LOW(val)  == val[2]

FLB_ENGINE_TASK == 2

\* flb_output_return composes the key, the event loop takes it apart.
SendKey(ret, task_id, out_id) ==
  LET val == FLB_BITS_U64_SET(FLB_ENGINE_TASK, FLB_TASK_SET(ret, task_id, out_id))
      low == FLB_BITS_U64_LOW(val)
  IN  /\ conv' = [of |-> "key", in |-> <<FLB_ENGINE_TASK, ret, task_id, out_id>>,
                  out |-> <<FLB_BITS_U64_HIGH(val), FLB_TASK_RET(low), FLB_TASK_ID(low), FLB_TASK_OUT(low)>>]
      /\ UNCHANGED <<bytes, state, codep>>

\* The bytes of the union, one assignment each.
FLB_BSWAP_16(raw) == <<raw[2], raw[1]>>
FLB_BSWAP_32(raw) == <<raw[4], raw[3], raw[2], raw[1]>>
FLB_BSWAP_64(raw) == <<raw[8], raw[7], raw[6], raw[5], raw[4], raw[3], raw[2], raw[1]>>

Swap(raw) ==
  /\ conv' = [of |-> "swap", in |-> raw,
              out |-> CASE Len(raw) = 2 -> FLB_BSWAP_16(raw)
                        [] Len(raw) = 4 -> FLB_BSWAP_32(raw)
                        [] Len(raw) = 8 -> FLB_BSWAP_64(raw)]
  /\ UNCHANGED <<bytes, state, codep>>

NoString == <<-1>>

\* flb_rtrim: the scan stops at the last other character; before is what lies before the
\* string in memory, which is read when the string holds nothing else.
flb_rtrim(str, c, before) ==
  LET at(i) == IF i = 0 THEN before ELSE str[i]
      kept  == {i \in 0 .. Len(str) : at(i) # c}
  IN  IF \A i \in kept : i = 0 THEN NoString ELSE SubSeq(str, 1, CHOOSE i \in kept : \A j \in kept : j <= i)

Trim(str, c, before) ==
  /\ conv' = [of |-> "trim", in |-> <<str, c>>, out |-> flb_rtrim(str, c, before)]
  /\ UNCHANGED <<bytes, state, codep>>

CodecInit == bytes = << >> /\ state = ACCEPT /\ codep = 0 /\ conv = [of |-> "none", in |-> << >>, out |-> << >>]

CodecNext ==
  \/ \E b \in CodecBytes : conv.of = "none" /\ flb_utf8_decode(b)
  \/ \E ret \in 0 .. 2, task_id \in KeyIds, out_id \in KeyIds : bytes = << >> /\ SendKey(ret, task_id, out_id)
  \/ \E raw \in SwapValues : bytes = << >> /\ Swap(raw)
  \/ \E str \in TrimStrings, c \in TrimChars, before \in TrimChars : bytes = << >> /\ Trim(str, c, before)

CodecSpec == CodecInit /\ [][CodecNext]_codecVars
-----------------------------------------------------------------------------
\* The automaton accepts exactly the well-formed sequences, with their code point and the
\* length their first byte announces, and rejects at the first byte that no well-formed
\* sequence continues: no overlong form, surrogate or code point beyond U+10FFFF passes
\* (flb_utf8.h:29-88).  A flush's result survives its key (flb_task.h:47-51), a swap turns
\* the bytes of a value round (flb_byteswap.h:53-101), and a string is trimmed to its longest
\* prefix that does not end in the character, NULL when there is none (flb_str.h:64-74).
CodecsExact ==
  /\ bytes # << >> =>
       /\ state = ACCEPT <=> WellFormed(bytes)
       /\ state = ACCEPT => codep = CodePointOf(bytes) /\ Len(bytes) = flb_utf8_len(bytes[1])
       /\ state = REJECT <=> ~ WellFormed(bytes) /\ ~ Extensible(bytes)
  /\ conv.of = "key" => conv.out = conv.in
  /\ conv.of = "swap" => conv.out = [i \in 1 .. Len(conv.in) |-> conv.in[Len(conv.in) + 1 - i]]
  /\ conv.of = "trim" =>
       LET str  == conv.in[1]
           ends == {i \in 1 .. Len(str) : str[i] # conv.in[2]}
       IN  conv.out = IF ends = {} THEN NoString
                      ELSE SubSeq(str, 1, CHOOSE i \in ends : \A j \in ends : j <= i)
=============================================================================
