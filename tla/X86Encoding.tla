----------------------------- MODULE X86Encoding ------------------------------
(****************************************************************************)
(* Decoded x86 instructions and what exegesis/x86/instruction_encoding.cc    *)
(* does with them: the rules of the ModR/M and SIB bytes and of the prefixes, *)
(* the base instruction and the examples of a specification, the match of an  *)
(* instruction with a specification, and the assignment of operands.          *)
(*                                                                            *)
(* Bits are numbers; an optional part of the protocol buffer is a sequence of *)
(* at most one element.  kind tells which prefix the instruction has:         *)
(* "legacy" also stands for no prefix, from which the code cannot tell it.    *)
(****************************************************************************)
EXTENDS X86Spec

Bits(value, first, last) == (value \div 2^first) % 2^(last - first)
Bit(value, n) == Bits(value, n, n + 1)
Flag(condition) == IF condition THEN 1 ELSE 0

NoRex      == [w |-> 0, r |-> 0, x |-> 0, b |-> 0]
NoPrefixes == [rex |-> NoRex, hasrex |-> FALSE, lock |-> "", osz |-> FALSE]
NoVexBits  == [pfx |-> "", map |-> "", nb |-> 0, nr |-> 0, nx |-> 0, w |-> 0, v |-> 0, len |-> 0,
               suffix |-> 0, z |-> 0, bc |-> 0, aaa |-> 0]
NoInstruction == [kind |-> "legacy", leg |-> NoPrefixes, vex |-> NoVexBits, seg |-> "", addr |-> FALSE,
                  op |-> 0, modrm |-> <<>>, sib |-> <<>>, imm |-> <<>>, code |-> <<>>]
\* The messages of decoded_instruction.proto: a bool is a bit, and an unsigned number may be
\* larger than the bits that the encoding has for it.
RexPrefix == [w : 0..1, r : 0..1, x : 0..1, b : 0..1]
LegacyPrefixes == [rex : RexPrefix, hasrex : BOOLEAN, lock : {"", "LOCK", "REP", "REPNE"}, osz : BOOLEAN]
VexOrEvexPrefix ==
  [pfx : {"", "66", "F2", "F3"}, map : {"", "0F", "0F38", "0F3A"}, nb : 0..1, nr : Nat, nx : 0..1,
   w : 0..1, v : Nat, len : Nat, suffix : Nat, z : 0..1, bc : 0..1, aaa : Nat]
ModRm == [mod : 0..3, reg : Nat, rm : Nat, disp : Int]
Sib   == [scale : Nat, index : Nat, base : Nat]
AtMostOne(S) == {s \in Seq(S) : Len(s) <= 1}
Byte == 0..255
DecodedInstruction ==
  [kind : {"legacy", "VEX", "EVEX"}, leg : LegacyPrefixes, vex : VexOrEvexPrefix,
   seg : {"", "CS", "SS", "DS", "ES", "FS", "GS"}, addr : BOOLEAN, op : Nat,
   modrm : AtMostOne(ModRm), sib : AtMostOne(Sib), imm : Seq(Seq(Byte)), code : Seq(Byte)]

DefaultModRm == [mod |-> 0, reg |-> 0, rm |-> 0, disp |-> 0]
DefaultSib   == [scale |-> 0, index |-> 0, base |-> 0]
Direct == 3

ModRmOf(i) == IF i.modrm = <<>> THEN DefaultModRm ELSE i.modrm[1]
SibOf(i)   == IF i.sib = <<>> THEN DefaultSib ELSE i.sib[1]
\* Touching the other member of the prefix union drops the one that is set.
MutableLegacy(i) == IF i.kind = "legacy" THEN i ELSE [i EXCEPT !.kind = "legacy", !.vex = NoVexBits]
MutableVex(i)    == IF i.kind = "VEX" THEN i ELSE [i EXCEPT !.kind = "VEX", !.leg = NoPrefixes, !.vex = NoVexBits]

HexDigits == <<"0", "1", "2", "3", "4", "5", "6", "7", "8", "9", "A", "B", "C", "D", "E", "F">>
ByteOf == [t \in ByteToken |-> 16 * (CHOOSE n \in 0..15 : HexDigits[n + 1] = SubSeq(t, 1, 1))
                                 + (CHOOSE n \in 0..15 : HexDigits[n + 1] = SubSeq(t, 2, 2))]
MapOpcode == [m \in {"", "0F", "0F38", "0F3A"} |->
                CASE m = "" -> 0 [] m = "0F" -> 15 [] m = "0F38" -> 3896 [] m = "0F3A" -> 3898]
\* The opcode of a specification as one number, map select bytes included.
OpcodeOf(spec) == FoldLeft(LAMBDA op, t : 256 * op + ByteOf[t],
                           IF spec.type = "legacy" THEN 0 ELSE MapOpcode[spec.vex.map], spec.opcode)

-----------------------------------------------------------------------------
(* Validation.                                                               *)

NumModRmDisplacementBytes(modrm, sib) ==
  CASE modrm.mod = 0 -> IF modrm.rm = 5 \/ (modrm.rm = 4 /\ sib.base = 5) THEN 4 ELSE 0
    [] modrm.mod = 1 -> 1
    [] modrm.mod = 2 -> 4
    [] modrm.mod = 3 -> 0

ModRmRequiresSib(modrm) == modrm.mod # Direct /\ modrm.rm = 4

\* Mutant: a SIB byte without base is taken for one with a base.
ConvertsWithoutDisplacement(i) ==
  LET modrm == ModRmOf(i)  sib == SibOf(i)
  IN  CASE modrm.mod = Direct -> "DIRECT"
        [] modrm.mod = 0 -> IF modrm.rm = 5 THEN "RIP" ELSE IF modrm.rm # 4 THEN "INDIRECT"
                            ELSE IF sib.index # 4 THEN "BASE_INDEX" ELSE "BASE"
        [] modrm.mod \in {1, 2} -> IF modrm.rm = 4 /\ sib.index # 4 THEN "BASE_DISP_INDEX" ELSE "BASE_DISP"
\* The precise addressing mode of the modrm.rm operand of an instruction with a ModR/M byte.
ConvertToInstructionOperandAddressingMode(i) ==
  LET modrm == ModRmOf(i)  sib == SibOf(i)  hasSib == modrm.rm = 4  indexed == sib.index # 4
  IN  CASE modrm.mod = Direct -> "DIRECT"
        [] modrm.mod = 0 /\ ~hasSib -> IF modrm.rm = 5 THEN "RIP" ELSE "INDIRECT"
        [] modrm.mod = 0 /\ hasSib  -> IF sib.base = 5 THEN IF indexed THEN "INDEX_DISP" ELSE "DISP"
                                       ELSE IF indexed THEN "BASE_INDEX" ELSE "BASE"
        [] modrm.mod \in {1, 2} -> IF hasSib /\ indexed THEN "BASE_DISP_INDEX" ELSE "BASE_DISP"

\* Whether the vector length bits are what the specification prescribes.
ValidateVectorSizeBits(size, bits, type) ==
  CASE size \in {"LIG", "L0", "128"} -> bits = 0
    [] size \in {"L1", "256"}        -> bits = 1
    [] size = "512"                  -> type = "EVEX" /\ bits = 2
    [] OTHER                         -> FALSE

ValidateVexWBit(usage, w) == (usage = "W0" => w = 0) /\ (usage = "W1" => w = 1)

IsEvexBBroadcast(interpretation) == interpretation \in {"m32bcst", "m64bcst"}
\* The meaning of the EVEX.b bit in an instruction, <<>> if it has none.
GetUsedEvexBInterpretation(spec, i) ==
  LET memory == i.modrm # <<>> /\ i.modrm[1].mod # Direct
  IN  CASE spec.type # "EVEX" \/ spec.vex.b = <<>> -> <<>>
        [] spec.type = "EVEX" /\ Len(spec.vex.b) = 1 ->
             IF IsEvexBBroadcast(spec.vex.b[1]) /\ ~memory THEN <<>> ELSE spec.vex.b
        [] spec.type = "EVEX" /\ Len(spec.vex.b) = 2 ->
             SubSeq(SelectSeq(spec.vex.b, LAMBDA b : memory = IsEvexBBroadcast(b)), 1, 1)
ValidateEvexBBit(spec, i) == GetUsedEvexBInterpretation(spec, i) = <<>> => i.vex.bc = 0

ValidateEvexOpmask(spec, i) == /\ spec.vex.opmask = "NOT_USED" => i.vex.aaa = 0
                               /\ spec.vex.opmask = "REQUIRED" => i.vex.aaa # 0
                               /\ i.vex.z = 1 => spec.vex.masking = "ZEROING"

\* Zero is accepted as the default of the field even when no register is encoded there.
ValidateVexRegisterOperandBits(spec, v) ==
  LET max == IF spec.type = "VEX" THEN 15 ELSE 31
  IN  v = 0 \/ v \in (IF spec.vex.usage # "NOT_USED" THEN 0 ELSE max)..max

ValidateMandatoryPrefixBits(spec, i) == spec.vex.pfx = i.vex.pfx
ValidateMapSelectBits(spec, i) == spec.vex.map = i.vex.map /\ i.vex.map # ""

-----------------------------------------------------------------------------
(* The base instruction and the examples.                                    *)

BaseVexPrefix(spec) == [NoVexBits EXCEPT !.pfx = spec.vex.pfx, !.map = spec.vex.map, !.nb = 1, !.nr = 1, !.nx = 1,
                                         !.w = Flag(spec.vex.w = "W1"), !.len = Flag(spec.vex.len = "256")]
BaseLegacyPrefixes(spec) ==
  [rex  |-> [NoRex EXCEPT !.w = Flag(spec.leg.rexw = "REQUIRED")], hasrex |-> spec.leg.rexw = "REQUIRED",
   lock |-> IF spec.leg.repne THEN "REPNE" ELSE IF spec.leg.rep THEN "REP" ELSE "",
   osz  |-> spec.leg.osz = "REQUIRED"]
BaseModRm(spec) == CASE spec.modrm = "NO"   -> <<>>
                     [] spec.modrm = "FULL" -> <<DefaultModRm>>
                     [] OTHER               -> <<[DefaultModRm EXCEPT !.reg = spec.ext]>>
\* An EVEX specification gets a VEX prefix too.
BaseDecodedInstruction(spec) ==
  [NoInstruction EXCEPT
     !.op = OpcodeOf(spec), !.modrm = BaseModRm(spec),
     !.kind = IF spec.type = "legacy" THEN @ ELSE "VEX",
     !.leg  = IF spec.type = "legacy" THEN BaseLegacyPrefixes(spec) ELSE @,
     !.vex  = IF spec.type = "legacy" THEN @ ELSE BaseVexPrefix(spec)]

HasOperandWithEncoding(ops, enc) == \E n \in DOMAIN ops : ops[n].enc = enc
GetOperandWithEncoding(ops, enc) == ops[Min({n \in DOMAIN ops : ops[n].enc = enc})]

kRmOperand == 3
MakeExampleSib == [scale |-> 2, index |-> 1, base |-> 4]
k8BitDisplacement == 127
k32BitDisplacement == 305419896
WithModRm(i, mod, rm, disp) == [i EXCEPT !.modrm = <<[ModRmOf(i) EXCEPT !.mod = mod, !.rm = rm, !.disp = disp]>>]
WithSib(i, sib) == [i EXCEPT !.sib = <<sib>>]

GenerateModRmIndirectEncodingExamples(i) ==
  <<WithModRm(i, 0, kRmOperand, 0), WithModRm(i, 0, 5, k32BitDisplacement),
    WithSib(WithModRm(i, 0, 4, 0), MakeExampleSib),
    WithSib(WithModRm(i, 0, 4, k32BitDisplacement), [MakeExampleSib EXCEPT !.base = 5])>>
GenerateModRmIndirectEncodingWithDisplacementExamples(i, mod, disp) ==
  <<WithModRm(i, mod, kRmOperand, disp), WithSib(WithModRm(i, mod, 4, disp), MakeExampleSib)>>
\* Every way to write the modrm.rm operand that its addressing mode allows.  Any other mode is fatal.
GenerateModRMEncodingExamples(ops, i) ==
  LET mode     == GetOperandWithEncoding(ops, "MODRM_RM").am
      direct   == <<WithModRm(i, Direct, kRmOperand, 0)>>
      withDisp == GenerateModRmIndirectEncodingWithDisplacementExamples(i, 1, k8BitDisplacement)
                    \o GenerateModRmIndirectEncodingWithDisplacementExamples(i, 2, k32BitDisplacement)
  IN  CASE mode = "FLEXIBLE" -> direct \o withDisp \o GenerateModRmIndirectEncodingExamples(i)
        [] mode = "DIRECT"   -> direct
        [] mode = "INDIRECT" -> withDisp \o GenerateModRmIndirectEncodingExamples(i)
        [] mode \in {"BASE_DISP", "BASE_DISP_INDEX"} -> withDisp

\* The example with an extension bit set, unless its prefix has the longer form anyway.
AppendPrefixVariations(ops, spec, i) ==
  LET vex      == spec.type # "legacy"
      longForm == IF vex THEN i.vex.map # "0F" \/ i.vex.w = 1 ELSE i.leg.rex.w = 1
  IN  IF longForm THEN <<>>
      ELSE IF HasOperandWithEncoding(ops, "MODRM_RM") \/ spec.inop = "GPR"
           THEN <<IF vex THEN [i EXCEPT !.vex.nb = 0] ELSE [i EXCEPT !.leg.rex.b = 1, !.leg.hasrex = TRUE]>>
      ELSE IF HasOperandWithEncoding(ops, "MODRM_REG")
           THEN <<IF vex THEN [i EXCEPT !.vex.nr = 0] ELSE [i EXCEPT !.leg.rex.r = 1, !.leg.hasrex = TRUE]>>
      ELSE <<>>

\* The fields that the examples fill in on top of the base instruction.
WithExampleOperands(ops, i) ==
  [i EXCEPT !.modrm = IF HasOperandWithEncoding(ops, "MODRM_REG") THEN <<[ModRmOf(i) EXCEPT !.reg = 6]>> ELSE @]
WithExampleVexOperand(ops, i) ==
  IF HasOperandWithEncoding(ops, "VEX_V") THEN [MutableVex(i) EXCEPT !.vex.v = 7] ELSE i
WithExampleImmediates(spec, i) ==
  [i EXCEPT !.imm  = [n \in DOMAIN spec.imm |-> [b \in 1..spec.imm[n] |-> 170 + b]],
            !.code = [b \in 1..spec.code |-> 192]]
WithPrefixVariations(ops, spec, examples) ==
  examples \o FlattenSeq([n \in DOMAIN examples |-> AppendPrefixVariations(ops, spec, examples[n])])
GenerateExamplesFrom(ops, spec, base) ==
  WithPrefixVariations(ops, spec, IF HasOperandWithEncoding(ops, "MODRM_RM") THEN GenerateModRMEncodingExamples(ops, base)
                                  ELSE <<base>>)
GenerateEncodingExamples(ops, spec) ==
  GenerateExamplesFrom(ops, spec,
    WithExampleImmediates(spec, WithExampleVexOperand(ops, WithExampleOperands(ops, BaseDecodedInstruction(spec)))))

-----------------------------------------------------------------------------
(* Does an instruction match a specification?                                *)

PrefixMatchesSpecification(usage, present) == /\ usage = "REQUIRED" => present
                                              /\ usage = "NOT_PERMITTED" => ~present
\* REX.W trumps the operand size override, which is then not looked at.
LegacyPrefixesMatchSpecification(spec, i) ==
  /\ PrefixMatchesSpecification(spec.leg.rexw, i.leg.rex.w = 1)
  /\ i.leg.rex.w = 0 => PrefixMatchesSpecification(spec.leg.osz, i.leg.osz)
  /\ spec.leg.addr => i.addr
  /\ spec.leg.rep => i.leg.lock = "REP"
  /\ spec.leg.repne => i.leg.lock = "REPNE"

MandatoryPrefixAndMapSelectMatchSpecification(spec, i) == i.vex.pfx = spec.vex.pfx /\ i.vex.map = spec.vex.map
VexWBitMatchesSpecification(spec, w) == ValidateVexWBit(spec.vex.w, w)
VectorSizeMatches(size, bits) ==
  (size \in {"L0", "128"} => bits = 0) /\ (size \in {"L1", "256"} => bits = 1) /\ (size = "512" => bits = 2)
VexPrefixMatchesSpecification(spec, i) ==
  /\ MandatoryPrefixAndMapSelectMatchSpecification(spec, i)
  /\ VexWBitMatchesSpecification(spec, i.vex.w)
  /\ VectorSizeMatches(spec.vex.len, i.vex.len)
\* With static rounding the vector length bits hold the rounding mode.
EvexPrefixMatchesSpecification(spec, i) ==
  /\ MandatoryPrefixAndMapSelectMatchSpecification(spec, i)
  /\ VexWBitMatchesSpecification(spec, i.vex.w)
  /\ (i.vex.bc = 1 /\ "er" \in ToSet(spec.vex.b)) \/ VectorSizeMatches(spec.vex.len, i.vex.len)

PrefixesAndOpcodeMatchSpecification(spec, i) ==
  /\ \/ OpcodeOf(spec) = i.op
     \/ spec.inop # "NO" /\ OpcodeOf(spec) = i.op - (i.op % 8)
  /\ i.kind = spec.type
  /\ CASE spec.type = "EVEX" -> EvexPrefixMatchesSpecification(spec, i)
       [] spec.type = "VEX"  -> VexPrefixMatchesSpecification(spec, i)
       [] OTHER              -> LegacyPrefixesMatchSpecification(spec, i)

\* A mode that is not listed is fatal: the clean-up splits the operands of flexible addressing.
ModRmAddressingModeMatchesInstructionOperandAddressingMode(i, mode) ==
  LET modrm == ModRmOf(i)  sib == SibOf(i)  mod == modrm.mod  hasSib == modrm.rm = 4
  IN  CASE mode = "ANY" -> TRUE
        [] mode \in {"DIRECT", "BLOCK"} -> mod = Direct
        [] mode \in {"INDIRECT", "LEA"} -> mod # Direct
        [] mode = "BASE" -> mod = 0 /\ modrm.rm # 5 /\ (hasSib => sib.index = 4 /\ sib.base # 5)
        [] mode = "DISP" -> mod = 0 /\ hasSib /\ sib.index = 4 /\ sib.base = 5
        [] mode = "BASE_DISP" -> mod \in {1, 2} /\ (hasSib => sib.index = 4)
        [] mode = "BASE_INDEX" -> mod = 0 /\ hasSib /\ sib.index # 4 /\ sib.base # 5
        [] mode = "INDEX_DISP" -> mod = 0 /\ hasSib /\ sib.index # 4 /\ sib.base = 5
        [] mode = "BASE_DISP_INDEX" -> mod \in {1, 2} /\ hasSib /\ sib.index # 4
        [] mode = "VSIB" -> mod # Direct /\ hasSib
        [] mode = "RIP" -> mod = 0 /\ modrm.rm = 5

AddressingModeMatchesSpecification(ops, i) ==
  HasOperandWithEncoding(ops, "MODRM_RM") =>
    ModRmAddressingModeMatchesInstructionOperandAddressingMode(i, GetOperandWithEncoding(ops, "MODRM_RM").am)
ModRmUsageMatchesSpecification(spec, ops, i) ==
  CASE spec.modrm = "NO"        -> TRUE
    [] spec.modrm = "FULL"      -> AddressingModeMatchesSpecification(ops, i)
    [] spec.modrm = "EXTENSION" -> ModRmOf(i).reg = spec.ext /\ AddressingModeMatchesSpecification(ops, i)

-----------------------------------------------------------------------------
(* Registers and the assignment of operands.  A setter returns the changed   *)
(* instruction and whether it accepted the call; on refusal nothing changes. *)

kMaxX86LegacyRegisterIndex == 7
kMaxX86GeneralPurposeRegisterIndex == 15
kMaxX86RegisterIndex == 31
\* kRegisters.
SpecialNames == <<{"al", "ax", "eax", "rax", "es", "cr0", "dr0"}, {"cl", "cx", "ecx", "rcx", "cs", "dr1"},
                  {"dl", "dx", "edx", "rdx", "ss", "cr2", "dr2"}, {"bl", "bx", "ebx", "rbx", "ds", "cr3", "dr3"},
                  {"ah", "spl", "sp", "esp", "rsp", "fs", "cr4"}, {"ch", "bpl", "bp", "ebp", "rbp", "gs"},
                  {"dh", "sil", "si", "esi", "rsi", "dr6"}, {"bh", "dil", "di", "edi", "rdi", "dr7"}, {"cr8"}>>
\* The names of the register with an index; the loop that adds zmm registers stops before the last.
MakeRegisterList == [n \in 0..(kMaxX86RegisterIndex - 1) |->
  LET Numbered(bases) == {base \o ToString(n) : base \in bases}
  IN  Numbered({"zmm"}) \cup (IF n <= kMaxX86LegacyRegisterIndex THEN Numbered({"st", "mm"}) ELSE {})
        \cup (IF n <= kMaxX86GeneralPurposeRegisterIndex THEN Numbered({"r", "xmm", "ymm"}) ELSE {})
        \cup (IF n < Len(SpecialNames) THEN SpecialNames[n + 1] ELSE {})]
\* -1 is kInvalidRegisterIndex.
GetRegisterIndex(name) == LET found == {n \in DOMAIN MakeRegisterList : name \in MakeRegisterList[n]}
                          IN  IF found = {} THEN -1 ELSE Min(found)

Accepted(i) == [ok |-> TRUE, inst |-> i]
Refused(i)  == [ok |-> FALSE, inst |-> i]
Extended(register) == Flag(register > kMaxX86LegacyRegisterIndex)

\* The extension bit e of the field that nb/nr/nx (VEX) or b/r/x (REX) extends.
Inverted == [b |-> "nb", r |-> "nr", x |-> "nx"]
SetExtension(i, e, register) ==
  IF i.kind = "VEX" THEN [i EXCEPT !.vex[Inverted[e]] = 1 - Extended(register)]
  ELSE [MutableLegacy(i) EXCEPT !.leg.rex[e] = Extended(register), !.leg.hasrex = TRUE]
SetModRmRegOperand(i, register) ==
  SetExtension([i EXCEPT !.modrm = <<[ModRmOf(i) EXCEPT !.reg = register % 8]>>], "r", register)
\* Mutant: the lowest three bits only.
SetsRmWithoutExtension(i, register) == [i EXCEPT !.modrm = <<[ModRmOf(i) EXCEPT !.rm = register % 8]>>]
SetModRmRmValue(i, register) ==
  SetExtension([i EXCEPT !.modrm = <<[ModRmOf(i) EXCEPT !.rm = register % 8]>>], "b", register)
SetMode(i, mod) == [i EXCEPT !.modrm = <<[ModRmOf(i) EXCEPT !.mod = mod]>>]
SetDisplacement(i, disp) == [i EXCEPT !.modrm = <<[ModRmOf(i) EXCEPT !.disp = disp]>>]
ClearSib(i) == [i EXCEPT !.sib = <<>>]
SetModRmRmOperandToRegister(i, register) == SetModRmRmValue(ClearSib(SetMode(i, Direct)), register)
SetOpcodeOperand(i, register) == [i EXCEPT !.op = @ - (@ % 8) + register]
SetSibBaseValue(i, register) == SetExtension(WithSib(i, [SibOf(i) EXCEPT !.base = register % 8]), "b", register)
SetSibIndexValue(i, register) == SetExtension(WithSib(i, [SibOf(i) EXCEPT !.index = register % 8]), "x", register)
\* The complement of the lowest four bits of the index.
SetVexPrefixOperand(i, register) == [MutableVex(i) EXCEPT !.vex.v = 15 - (register % 16)]
SetVexSuffixOperand(i, register) == [MutableVex(i) EXCEPT !.vex.suffix = 16 * register]

SetOperandToRegister(ops, position, register, i) ==
  IF position \notin DOMAIN ops \/ register \notin 0..kMaxX86RegisterIndex THEN Refused(i)
  ELSE CASE ops[position].enc = "OPCODE" ->
              IF register > kMaxX86LegacyRegisterIndex THEN Refused(i) ELSE Accepted(SetOpcodeOperand(i, register))
         [] ops[position].enc = "MODRM_REG"  -> Accepted(SetModRmRegOperand(i, register))
         [] ops[position].enc = "MODRM_RM"   -> Accepted(SetModRmRmOperandToRegister(i, register))
         [] ops[position].enc = "VEX_V"      -> Accepted(SetVexPrefixOperand(i, register))
         [] ops[position].enc = "VEX_SUFFIX" -> Accepted(SetVexSuffixOperand(i, register))
         [] ops[position].enc \in {"IMPLICIT", "IMMEDIATE"} -> Refused(i)

\* The operands that it may be called for: any other encoding is fatal.
AssignableOperands(ops) ==
  {p \in DOMAIN ops : ops[p].enc \in {"OPCODE", "MODRM_REG", "MODRM_RM", "VEX_V", "VEX_SUFFIX",
                                     "IMPLICIT", "IMMEDIATE"}}

IndirectModes == {"INDIRECT", "BASE", "DISP", "BASE_DISP", "BASE_INDEX", "INDEX_DISP", "BASE_DISP_INDEX", "VSIB", "RIP"}
\* The operands, at most one, that may be a memory location of the caller's choice.
GetMemoryOperandPosition(ops) ==
  {n \in DOMAIN ops : ops[n].enc = "MODRM_RM" /\ ops[n].am \in IndirectModes \cup {"ANY", "FLEXIBLE"}}
IfMemory(ops, condition, i, changed) ==
  IF GetMemoryOperandPosition(ops) # {} /\ condition THEN Accepted(changed) ELSE Refused(i)
IsGeneralPurpose(register) == register \in 0..kMaxX86GeneralPurposeRegisterIndex

SetOperandToMemoryAbsolute(ops, address, i) ==
  IfMemory(ops, TRUE, i,
    SetSibIndexValue(SetSibBaseValue(SetModRmRmValue(SetDisplacement(SetMode(i, 0), address), 4), 5), 4))
SetOperandToMemoryBase(ops, base, i) ==
  IfMemory(ops, IsGeneralPurpose(base) /\ base % 8 \notin {4, 5}, i, SetModRmRmValue(ClearSib(SetMode(i, 0)), base))
SetOperandToMemoryBaseSib(ops, base, i) ==
  LET set == SetSibIndexValue(SetSibBaseValue(SetModRmRmValue(SetMode(i, 0), 4), base), 4)
  IN  IfMemory(ops, IsGeneralPurpose(base) /\ base \notin {5, 13}, i, WithSib(set, [SibOf(set) EXCEPT !.scale = 0]))
SetOperandToMemoryRelativeToRip(ops, disp, i) ==
  IfMemory(ops, TRUE, i, ClearSib(SetDisplacement(SetModRmRmValue(SetMode(i, 0), 5), disp)))
\* The displacement is stored as an unsigned number of its width: bits is 8 or 32.
SetOperandToMemoryBaseAndDisplacement(ops, base, disp, bits, i) ==
  LET mod == IF bits = 8 THEN 1 ELSE 2
      stored == IF bits = 8 THEN disp % 256 ELSE disp
  IN  IfMemory(ops, IsGeneralPurpose(base) /\ base \notin {4, 12}, i,
               SetModRmRmValue(ClearSib(SetDisplacement(SetMode(i, mod), stored)), base))
=============================================================================
