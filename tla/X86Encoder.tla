------------------------------ MODULE X86Encoder -------------------------------
(****************************************************************************)
(* EncodeInstruction of exegesis/x86/instruction_encoder.cc: the validation  *)
(* of a decoded instruction against its specification, and its bytes.        *)
(****************************************************************************)
EXTENDS X86Encoding

ValidateLegacyPrefixes(spec, i) ==
  /\ i.kind # "VEX"
  /\ PrefixMatchesSpecification(spec.leg.rexw, i.leg.rex.w = 1)
  /\ spec.leg.rep => i.leg.lock = "REP"
  /\ spec.leg.repne => i.leg.lock = "REPNE"
  /\ PrefixMatchesSpecification(spec.leg.osz, i.leg.osz)
  /\ spec.leg.addr => i.addr

\* The checks that VEX and EVEX share.
ValidateVexFields(spec, i) ==
  /\ i.kind = spec.type
  /\ ValidateVexRegisterOperandBits(spec, i.vex.v)
  /\ ValidateVectorSizeBits(spec.vex.len, i.vex.len, spec.type)
  /\ ValidateVexWBit(spec.vex.w, i.vex.w)
  /\ ValidateMandatoryPrefixBits(spec, i)
  /\ ValidateMapSelectBits(spec, i)
ValidateVexPrefix(spec, i) == ValidateVexFields(spec, i)
ValidateEvexPrefix(spec, i) == /\ ValidateVexFields(spec, i)
                               /\ ValidateEvexBBit(spec, i)
                               /\ ValidateEvexOpmask(spec, i)
ValidatePrefix(spec, i) == CASE spec.type = "VEX"  -> ValidateVexPrefix(spec, i)
                             [] spec.type = "EVEX" -> ValidateEvexPrefix(spec, i)
                             [] OTHER              -> ValidateLegacyPrefixes(spec, i)

\* A zero opcode is filled in by the encoder.
ValidateOpcode(spec, i) ==
  i.op = 0 \/ OpcodeOf(spec) = IF spec.inop = "NO" THEN i.op ELSE i.op - (i.op % 8)

ValidateModRM(spec, i) ==
  LET required == spec.modrm # "NO"
  IN  /\ required <=> i.modrm # <<>>
      /\ ~required => i.sib = <<>>
      /\ required => /\ spec.modrm = "EXTENSION" => i.modrm[1].reg = spec.ext
                     /\ ModRmRequiresSib(i.modrm[1]) <=> i.sib # <<>>

ValidateImmediateValues(spec, i) == /\ [n \in DOMAIN i.imm |-> Len(i.imm[n])] = spec.imm
                                    /\ Len(i.code) = spec.code

ValidateVexSuffix(spec, i) ==
  spec.type # "legacy" /\ ~spec.vex.is4 => i.kind # "VEX" \/ i.vex.suffix = 0

Validate(spec, i) == /\ ValidatePrefix(spec, i)
                     /\ ValidateOpcode(spec, i)
                     /\ ValidateModRM(spec, i)
                     /\ ValidateImmediateValues(spec, i)
                     /\ ValidateVexSuffix(spec, i)

-----------------------------------------------------------------------------
(* Bytes.                                                                    *)

LockOrRepByte  == [LOCK |-> 240, REP |-> 243, REPNE |-> 242]
SegmentByte    == [CS |-> 46, SS |-> 54, DS |-> 62, ES |-> 38, FS |-> 100, GS |-> 101]
OperandSizeOverrideByte == 102
AddressSizeOverrideByte == 103
MandatoryBits  == [p \in {"", "66", "F3", "F2"} |->
                     CASE p = "" -> 0 [] p = "66" -> 1 [] p = "F3" -> 2 [] p = "F2" -> 3]
MapSelectBits  == [m \in {"0F", "0F38", "0F3A"} |->
                     CASE m = "0F" -> 1 [] m = "0F38" -> 2 [] m = "0F3A" -> 3]
ByteIf(condition, byte) == IF condition THEN <<byte>> ELSE <<>>
EmitDWord(value) == <<value % 256, (value \div 256) % 256, (value \div 65536) % 256, (value \div 16777216) % 256>>

RexByte(rex) == 64 + rex.b + 4 * rex.r + 8 * rex.w + 2 * rex.x
EncodeRexPrefix(i) == ByteIf(i.leg.rex # NoRex, RexByte(i.leg.rex))
EncodeLockOrRepPrefix(i) == IF i.leg.lock = "" THEN <<>> ELSE <<LockOrRepByte[i.leg.lock]>>
EncodeOperandSizeOverridePrefix(i) == ByteIf(i.leg.osz, OperandSizeOverrideByte)
\* The REX prefix comes before the other two.
EncodeLegacyPrefixes(i) ==
  EncodeRexPrefix(i) \o EncodeLockOrRepPrefix(i) \o EncodeOperandSizeOverridePrefix(i)

EncodeVexPrefix(spec, i) ==
  LET v    == IF spec.vex.usage = "NOT_USED" THEN 15 ELSE i.vex.v
      tail == 8 * Bits(v, 0, 4) + 4 * i.vex.len + MandatoryBits[i.vex.pfx]
  IN  IF i.vex.nx = 1 /\ i.vex.nb = 1 /\ i.vex.w = 0 /\ i.vex.map = "0F"
      THEN <<197, 128 * i.vex.nr + tail>>
      ELSE <<196, 128 * i.vex.nr + 64 * i.vex.nx + 32 * i.vex.nb + MapSelectBits[i.vex.map], 128 * i.vex.w + tail>>

\* The upper bit of the register operand is taken from the instruction even when it is not used.
EncodeEvexPrefix(spec, i) ==
  LET v == IF spec.vex.usage = "NOT_USED" THEN 31 ELSE i.vex.v
  IN  <<98,
        128 * Bit(i.vex.nr, 0) + 64 * i.vex.nx + 32 * i.vex.nb + 16 * Bit(i.vex.nr, 1) + MapSelectBits[i.vex.map],
        128 * i.vex.w + 8 * Bits(v, 0, 4) + 4 + MandatoryBits[i.vex.pfx],
        128 * i.vex.z + 32 * Bits(i.vex.len, 0, 2) + 16 * i.vex.bc + 8 * Bit(i.vex.v, 4) + Bits(i.vex.aaa, 0, 3)>>

EncodePrefix(spec, i) ==
  (IF i.seg = "" THEN <<>> ELSE <<SegmentByte[i.seg]>>) \o ByteIf(i.addr, AddressSizeOverrideByte)
    \o (CASE spec.type = "legacy" -> EncodeLegacyPrefixes(i)
          [] spec.type # "legacy" /\ i.kind = "VEX"  -> EncodeVexPrefix(spec, i)
          [] spec.type # "legacy" /\ i.kind = "EVEX" -> EncodeEvexPrefix(spec, i))

\* The bytes of the opcode from the highest that is not zero; its lowest byte with VEX and EVEX.
EncodeOpcode(spec, i) ==
  LET raw == IF i.op > 0 THEN i.op ELSE OpcodeOf(spec)
      op  == IF spec.type = "legacy" THEN raw ELSE raw % 256
  IN  ByteIf(op > 16777215, (op \div 16777216) % 256) \o ByteIf(op > 65535, (op \div 65536) % 256)
        \o ByteIf(op > 255, (op \div 256) % 256) \o <<op % 256>>

Compose233BitValues(two, first, second) == 64 * (two % 4) + 8 * (first % 8) + (second % 8)
EncodeModRM(spec, i) ==
  LET modrm == ModRmOf(i)  sib == SibOf(i)  bytes == NumModRmDisplacementBytes(modrm, sib)
  IN  IF spec.modrm = "NO" THEN <<>>
      ELSE <<Compose233BitValues(modrm.mod, modrm.reg, modrm.rm)>>
             \o ByteIf(ModRmRequiresSib(modrm), Compose233BitValues(sib.scale, sib.index, sib.base))
             \o (CASE bytes = 0 -> <<>> [] bytes = 1 -> <<modrm.disp % 256>> [] bytes = 4 -> EmitDWord(modrm.disp))

EncodeImmediateValues(i) == FlattenSeq(i.imm) \o i.code
EncodeVexSuffix(spec, i) == ByteIf(spec.type # "legacy" /\ spec.vex.is4, IF i.kind = "VEX" THEN i.vex.suffix ELSE 0)

Encode(spec, i) == EncodePrefix(spec, i) \o EncodeOpcode(spec, i) \o EncodeModRM(spec, i)
                     \o EncodeImmediateValues(i) \o EncodeVexSuffix(spec, i)
=============================================================================
