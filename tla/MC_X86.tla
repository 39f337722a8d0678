-------------------------------- MODULE MC_X86 --------------------------------
(* Values for the constants of X86Codec: a small instruction set, as the clean-up leaves it: an     *)
(* operand with a flexible addressing mode is split into two versions, and the use of the prefixes  *)
(* is known.                                                                                        *)
EXTENDS X86Codec

Op(enc, am) == [enc |-> enc, am |-> am]
Reg == Op("MODRM_REG", "DIRECT")
Rm  == Op("MODRM_RM", "DIRECT")
Mem == Op("MODRM_RM", "INDIRECT")
Imm == Op("IMMEDIATE", "NONE")
InOpcode == Op("OPCODE", "NONE")
VexV   == Op("VEX_V", "DIRECT")
Suffix == Op("VEX_SUFFIX", "DIRECT")
No   == "NOT_PERMITTED"
Yes  == "REQUIRED"
Free == "IGNORED"

\* A row: the operands, the specification of the manual, and what the clean-up adds to it once it is
\* parsed, which is the use of the prefixes 66 and REX.W or of VEX.vvvv.  An instruction is started
\* from its base or its examples, or is only parsed.
Legacy(start, ops, osz, rexw, tokens) ==
  [start |-> start, ops |-> ops, osz |-> osz, rexw |-> rexw, usage |-> "", raw |-> [vex |-> <<>>, tokens |-> tokens]]
Vex(start, ops, type, usage, pfx, map, w, tokens) ==
  [start |-> start, ops |-> ops, osz |-> "", rexw |-> "", usage |-> usage,
   raw |-> [vex |-> <<[type |-> type, dir |-> "", len |-> "128", pfx |-> pfx, map |-> map, w |-> w]>>, tokens |-> tokens]]

Specification(row) ==
  LET parsed == ParseEncodingSpecification(row.raw)
  IN  IF row.raw.vex = <<>> THEN [parsed EXCEPT !.leg.osz = row.osz, !.leg.rexw = row.rexw]
      ELSE [parsed EXCEPT !.vex.usage = row.usage, !.vex.opmask = "NOT_USED", !.vex.masking = "NO"]
Starts(row, spec) ==
  IF row.start = "none" THEN {}
  ELSE {BaseDecodedInstruction(spec)}
       \cup (IF row.start = "examples" THEN ToSet(GenerateEncodingExamples(row.ops, spec)) ELSE {})
FromRows(rows) ==
  [n \in DOMAIN rows |-> LET spec == Specification(rows[n])
                         IN  [ops |-> rows[n].ops, spec |-> spec, starts |-> Starts(rows[n], spec)]]

\* Register and memory versions, with and without REX.W and 66; the same first byte with and without a
\* ModR/M byte, as one and as three bytes of opcode; an operand in the opcode; a code offset; VEX
\* prefixes of both lengths, with and without a register operand, and with one behind the immediates.
CodecRows == <<
  Legacy("examples", <<Rm, Reg>>,  No, No, <<"11", "/r">>),
  Legacy("examples", <<Mem, Reg>>, No, No, <<"11", "/r">>),
  Legacy("examples", <<Rm, Reg>>,  No, Yes, <<"REX.W", "11", "/r">>),
  Legacy("examples", <<Rm, Reg>>,  Yes, No, <<"66", "11", "/r">>),
  Legacy("examples", <<Mem, Imm>>, No, No, <<"C7", "/0", "id">>),
  Legacy("examples", <<Mem>>, No, No, <<"0F", "01", "/7">>),
  Legacy("examples", <<>>,    No, No, <<"NP", "0F", "01", "D5">>),
  Legacy("base", <<InOpcode, Imm>>, No, No, <<"B8", "+rd", "id">>),
  Legacy("base", <<InOpcode, Imm>>, No, Yes, <<"REX.W", "B8", "+ro", "io">>),
  Legacy("examples", <<Imm>>, Free, Free, <<"E8", "cd">>),
  Vex("examples", <<Reg, VexV, Rm>>, "VEX", "NDS", "", "0F", "WIG", <<"58", "/r">>),
  Vex("examples", <<Reg, Mem>>, "VEX", "NOT_USED", "", "0F", "WIG", <<"28", "/r">>),
  Vex("examples", <<Reg, VexV, Mem, Suffix>>, "VEX", "NDS", "66", "0F3A", "W0", <<"4A", "/r", "/is4">>)>>

\* TEST and NOT share their opcode and differ in the extension and the immediate value; an opcode
\* that a legacy, a VEX and an EVEX instruction have.
ParserRows == <<
  Legacy("none", <<Rm, Imm>>, No, Free, <<"F6", "/0", "ib">>),
  Legacy("none", <<Rm>>,      No, Free, <<"F6", "/2">>),
  Legacy("none", <<Rm>>,      Free, Free, <<"0F", "01", "/2">>),
  Vex("none", <<Reg, Rm>>, "VEX", "NOT_USED", "", "0F", "WIG", <<"28", "/r">>),
  Vex("none", <<Reg, VexV, Rm, Suffix>>, "VEX", "NDS", "", "0F", "WIG", <<"4A", "/r", "/is4">>),
  Vex("none", <<Reg, Rm>>, "EVEX", "NOT_USED", "", "0F", "W0", <<"28", "/r">>),
  Legacy("none", <<Imm>>, Free, Free, <<"EB", "cb">>)>>

SmallX86 == FromRows(CodecRows \o ParserRows)

\* Inputs: up to two prefixes, an opcode or none, up to two of the bytes that may follow.
AtMost(n, S) == UNION {[1..k -> S] : k \in 0..n}
PrefixChunks == {<<100>>, <<103>>, <<102>>, <<242>>, <<72>>, <<197, 248>>, <<196, 225, 120>>, <<98, 241, 124, 8>>}
OpcodeChunks == {<<>>, <<246>>, <<15, 1>>, <<40>>, <<74>>, <<235>>}
ParserInputs == {FlattenSeq(p) \o o \o t : p \in AtMost(2, PrefixChunks), o \in OpcodeChunks, t \in AtMost(2, {192, 208, 213, 61})}

NextBytes == <<144>>
SmallOnes == {-1}
LargeOnes == {-2}

\* Register 16 in the modrm.reg of an EVEX instruction: of the two inverted bits, the upper one is zero.
EvexInstruction(notR, v) ==
  [NoInstruction EXCEPT !.kind = "EVEX", !.modrm = <<[DefaultModRm EXCEPT !.mod = Direct]>>,
     !.vex = [NoVexBits EXCEPT !.map = "0F", !.nr = notR, !.nx = 1, !.nb = 1, !.v = v]]
EvexRow == Vex("none", <<Reg, VexV, Rm>>, "EVEX", "NDS", "", "0F", "W0", <<"58", "/r">>)
EvexDatabase == <<[FromRows(<<EvexRow>>)[1] EXCEPT !.starts = {EvexInstruction(1, 31)}]>>
===============================================================================
