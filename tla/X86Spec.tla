------------------------------ MODULE X86Spec --------------------------------
(****************************************************************************)
(* The language of encoding specifications of the Intel manual, as           *)
(* exegesis/x86/encoding_specification.cc reads it.  A raw                   *)
(* specification is [vex, tokens]: vex is empty or holds the fields of one   *)
(* VEX or EVEX prefix, tokens are the remaining blank-separated words.       *)
(****************************************************************************)
EXTENDS Integers, Sequences, SequencesExt, FiniteSetsExt

Hex == {"0", "1", "2", "3", "4", "5", "6", "7", "8", "9", "A", "B", "C", "D", "E", "F"}
ByteToken == {h \o l : h \in Hex, l \in Hex}
PrefixToken == {"NP", "NFx", "66", "67", "F2", "F3", "REX", "REX.R", "REX.W"}
InOpcodeToken == {"+i", "+rb", "+rw", "+rd", "+ro"}

Extension == [t \in {"/0", "/1", "/2", "/3", "/4", "/5", "/6", "/7"} |->
                CHOOSE n \in 0..7 : t = "/" \o ToString(n)]
ImmediateBytes == [ib |-> 1, iw |-> 2, id |-> 4, io |-> 8]
CodeOffsetBytes == [cb |-> 1, cw |-> 2, cd |-> 4, cp |-> 6, co |-> 8, ct |-> 10]
VexSuffixToken == {"/is4", "/vsib"}
SuffixToken == DOMAIN Extension \cup DOMAIN ImmediateBytes \cup DOMAIN CodeOffsetBytes
                 \cup VexSuffixToken \cup {"/r", "m64", "m128", "m256"}

\* The tables from words of a VEX prefix to the fields they set.
VexOperandUsageTokens == [w \in {"", "NDS", "NDD", "DDS"} |-> IF w = "" THEN "UNDEFINED" ELSE w]
VectorSizeTokens == [w \in {"LZ", "L0", "L1", "128", "256", "512", "LIG", "LLIG", "LIG.128"} |->
                       CASE w \in {"LZ", "L0"} -> "L0" [] w \in {"LIG", "LLIG"} -> "LIG"
                         [] w = "LIG.128" -> "128" [] OTHER -> w]
VexWUsageTokens == [w \in {"", "W0", "W1", "WIG"} |-> IF w = "" THEN "WIG" ELSE w]

\* What the regular expression of the VEX prefix lets through: the vector size may be absent.
MatchesVexRegexp(v) == /\ v.type \in {"VEX", "EVEX"} /\ v.dir \in DOMAIN VexOperandUsageTokens
                       /\ v.len \in DOMAIN VectorSizeTokens \cup {""}
                       /\ v.pfx \in {"", "66", "F2", "F3"} /\ v.map \in {"0F", "0F38", "0F3A"}
                       /\ v.w \in DOMAIN VexWUsageTokens

\* The fields of a specification that nothing has set yet.
NoLegacy == [osz |-> "UNKNOWN", rexw |-> "UNKNOWN", addr |-> FALSE, rep |-> FALSE, repne |-> FALSE]
NoVex == [usage |-> "UNDEFINED", len |-> "", pfx |-> "", map |-> "", w |-> "", is4 |-> FALSE,
          vsib |-> FALSE, b |-> <<>>, opmask |-> "UNDEFINED", masking |-> "UNDEFINED"]

\* A range of tokens: those from the front of s that are all in S.
LeadingIn(s, S) == SubSeq(s, 1, Min({i - 1 : i \in {j \in DOMAIN s : s[j] \notin S}} \cup {Len(s)}))
AfterLeading(s, S) == SubSeq(s, Len(LeadingIn(s, S)) + 1, Len(s))

ParseLegacyPrefixes(tokens) ==
  LET seen == ToSet(tokens)
  IN  [osz   |-> IF "66" \in seen THEN "REQUIRED" ELSE IF "NP" \in seen THEN "NOT_PERMITTED" ELSE "UNKNOWN",
       rexw  |-> IF "REX.W" \in seen THEN "REQUIRED" ELSE "UNKNOWN",
       addr  |-> "67" \in seen, rep |-> "F3" \in seen, repne |-> "F2" \in seen]

\* The fields of the VEX prefix; FindOrDie looks a vector size up that is in the table.
ParseVexOrEvexPrefix(v) ==
  [NoVex EXCEPT !.usage = VexOperandUsageTokens[v.dir], !.len = VectorSizeTokens[v.len], !.pfx = v.pfx,
                !.map = v.map, !.w = VexWUsageTokens[v.w]]

\* The last token of s that is in S, or "".
LastIn(s, S) == LET found == {i \in DOMAIN s : s[i] \in S} IN IF found = {} THEN "" ELSE s[Max(found)]
ValueOrZero(table, token) == IF token = "" THEN 0 ELSE table[token]

OperandInOpcode(token) == CASE token = "" -> "NO" [] token = "+i" -> "FP_STACK" [] OTHER -> "GPR"
ModRmUsage(token, vsib) ==
  CASE token = "/r" -> "FULL" [] token = "" -> IF vsib THEN "FULL" ELSE "NO" [] OTHER -> "EXTENSION"
SizesOf(immediates) == [i \in DOMAIN immediates |-> ImmediateBytes[immediates[i]]]

\* The specification after the prefix: opcode bytes with an operand in them, then suffixes.
SpecificationFrom(type, legacy, vex, opcode, suffixes) ==
  [type    |-> type, leg |-> legacy,
   vex     |-> [vex EXCEPT !.is4 = "/is4" \in ToSet(suffixes), !.vsib = "/vsib" \in ToSet(suffixes)],
   opcode  |-> SelectSeq(opcode, LAMBDA t : t \in ByteToken),
   inop    |-> OperandInOpcode(LastIn(opcode, InOpcodeToken)),
   modrm   |-> ModRmUsage(LastIn(suffixes, DOMAIN Extension \cup {"/r"}), "/vsib" \in ToSet(suffixes)),
   ext     |-> ValueOrZero(Extension, LastIn(suffixes, DOMAIN Extension)),
   imm     |-> SizesOf(SelectSeq(suffixes, LAMBDA t : t \in DOMAIN ImmediateBytes)),
   code    |-> ValueOrZero(CodeOffsetBytes, LastIn(suffixes, DOMAIN CodeOffsetBytes))]
OpcodeToken == ByteToken \cup InOpcodeToken
ParseOpcodeAndSuffixes(type, legacy, vex, tokens) ==
  SpecificationFrom(type, legacy, vex, LeadingIn(tokens, OpcodeToken), AfterLeading(tokens, OpcodeToken))

\* The tokens that follow the prefix of a raw specification.
AfterPrefix(raw) == IF raw.vex # <<>> THEN raw.tokens ELSE AfterLeading(raw.tokens, PrefixToken)

\* How a call of ParseEncodingSpecification ends: with a specification, with an error status, or
\* with the process dying in FindOrDie.
ParseOutcome(raw) ==
  LET rest   == AfterPrefix(raw)
      bytes  == Len(SelectSeq(LeadingIn(rest, OpcodeToken), LAMBDA t : t \in ByteToken))
      suffix == AfterLeading(rest, OpcodeToken)
  IN  IF raw.vex # <<>> /\ MatchesVexRegexp(raw.vex[1]) /\ raw.vex[1].len = "" THEN "dies"
      ELSE IF /\ raw.vex # <<>> => /\ MatchesVexRegexp(raw.vex[1]) /\ bytes = 1
                                   /\ raw.vex[1].len = "512" => raw.vex[1].type = "EVEX"
              /\ bytes > 0
              /\ ToSet(suffix) \subseteq SuffixToken
              /\ raw.vex = <<>> => ToSet(suffix) \cap VexSuffixToken = {}
           THEN "ok" ELSE "error"

\* The parsed specification of a raw specification whose outcome is "ok".
ParseEncodingSpecification(raw) ==
  IF raw.vex # <<>>
  THEN ParseOpcodeAndSuffixes(raw.vex[1].type, NoLegacy, ParseVexOrEvexPrefix(raw.vex[1]), raw.tokens)
  ELSE ParseOpcodeAndSuffixes("legacy", ParseLegacyPrefixes(LeadingIn(raw.tokens, PrefixToken)), NoVex,
                              AfterPrefix(raw))

\* The encodings the specification offers to operands, as a bag.
GetAvailableEncodings(spec) ==
  LET vex == spec.type # "legacy"
      One(condition, encoding) == IF condition THEN SetToBag({encoding}) ELSE EmptyBag
      immediates == Len(spec.imm) + (IF spec.code > 0 THEN 1 ELSE 0)
  IN  One(spec.modrm = "FULL", "MODRM_REG")
        (+) One(spec.modrm # "NO" /\ ~(vex /\ spec.vex.vsib), "MODRM_RM")
        (+) One(spec.inop # "NO", "OPCODE")
        (+) One(vex /\ spec.vex.usage # "NOT_USED", "VEX_V")
        (+) One(vex /\ spec.vex.is4, "VEX_SUFFIX")
        (+) One(vex /\ spec.vex.vsib, "VSIB")
        (+) (IF immediates > 0 THEN [e \in {"IMMEDIATE"} |-> immediates] ELSE EmptyBag)
=============================================================================
