------------------------------- MODULE X86Parser -------------------------------
(****************************************************************************)
(* The parser of the x86 binary encoding, exegesis/x86/instruction_parser.cc, *)
(* with the lookup of specifications in exegesis/x86/architecture.cc.  One    *)
(* action is one call of a Consume function; in the loop over the prefixes,   *)
(* one turn of it.                                                            *)
(****************************************************************************)
EXTENDS X86Encoder

CONSTANT Database  \* a sequence of [ops, spec, starts]: the operands, the specification and the instructions
                   \* that a client of the encoder starts from, for each instruction

\* What the proofs rest on.  The code takes the VEX suffix (is4) of an EVEX specification too,
\* but no instruction has one.
ASSUME DatabaseAssumption ==
  /\ Database \in Seq(Range(Database))
  /\ \A n \in DOMAIN Database :
       LET spec == Database[n].spec
       IN  /\ OpcodeOf(spec) \in Nat
           /\ spec.type \in {"legacy", "VEX", "EVEX"}
           /\ spec.vex.is4 => spec.type = "VEX"
           /\ spec.imm \in Seq(Range(ImmediateBytes))
           /\ spec.code \in {0} \cup Range(CodeOffsetBytes)
           /\ Database[n].starts \subseteq DecodedInstruction

VARIABLES
  rest,           \* the bytes that are not consumed yet
  instruction,    \* the instruction parsed so far
  specification,  \* the index of its specification in Database, 0 while it has none
  phase           \* the function that runs next, or how the call ended

parserVars == <<rest, instruction, specification, phase>>

\* Index: the instructions of an opcode, or those with the operand in the opcode's lowest bits.
Opcodes == [n \in DOMAIN Database |-> OpcodeOf(Database[n].spec)]
WithOpcode(op, opcodes) == {n \in DOMAIN opcodes : opcodes[n] = op}
WithOperandInOpcode(database, indices) == {n \in indices : database[n].spec.inop # "NO"}
FirstNonEmpty(S, T) == IF S # {} THEN S ELSE T
GetCandidates(database, opcodes, op) ==
  FirstNonEmpty(WithOpcode(op, opcodes),
                LET masked == WithOpcode(op - (op % 8), opcodes)
                IN  IF WithOperandInOpcode(database, masked) # {} THEN masked ELSE {})
\* The leading bytes of the legacy opcodes.
legacy_opcode_prefixes == {Opcodes[n] \div 256^k : n \in {m \in DOMAIN Database :
                             Database[m].spec.type = "legacy"}, k \in 1..3} \ {0}
IsLegacyOpcodePrefix(op) == op \in legacy_opcode_prefixes

InstructionMatchesSpecification(entry, i, checkModRm) ==
  /\ PrefixesAndOpcodeMatchSpecification(entry.spec, i)
  /\ checkModRm => ModRmUsageMatchesSpecification(entry.spec, entry.ops, i)
GetInstructionIndices(database, opcodes, i, checkModRm) ==
  {n \in GetCandidates(database, opcodes, i.op) : InstructionMatchesSpecification(database[n], i, checkModRm)}
First(indices) == IF indices = {} THEN 0 ELSE Min(indices)

\* When nothing matches the opcode, an operand may be encoded in its lowest bits.
FindEncodingSpecification(database, opcodes, i, checkModRm) ==
  First(FirstNonEmpty(
    GetInstructionIndices(database, opcodes, i, checkModRm),
    WithOperandInOpcode(database,
      GetInstructionIndices(database, opcodes, [i EXCEPT !.op = @ - (@ % 8)], checkModRm))))
GetEncodingSpecification(i, checkModRm) == FindEncodingSpecification(Database, Opcodes, i, checkModRm)

-----------------------------------------------------------------------------

ParserInit(bytes) == /\ rest = bytes
                     /\ instruction = NoInstruction
                     /\ specification = 0
                     /\ phase = "prefixes"

Fail == phase' = "error" /\ UNCHANGED <<rest, instruction, specification>>
\* The function returns: the first n bytes are consumed, the instruction is i, next runs.
Consume(n, i, next) == /\ rest' = SubSeq(rest, n + 1, Len(rest))
                       /\ instruction' = i
                       /\ phase' = next
                       /\ UNCHANGED specification
NextIs(S) == rest # <<>> /\ rest[1] \in S
SegmentBytes == {SegmentByte[s] : s \in DOMAIN SegmentByte}

ConsumeSegmentOverridePrefix ==
  /\ phase \in {"prefixes", "legacy"} /\ NextIs(SegmentBytes)
  /\ Consume(1, [instruction EXCEPT !.seg = CHOOSE s \in DOMAIN SegmentByte : SegmentByte[s] = rest[1]], phase)
\* Mutant: looks at the byte and leaves it.
PeekAddressSizeOverridePrefix ==
  /\ phase \in {"prefixes", "legacy"} /\ NextIs({AddressSizeOverrideByte})
  /\ Consume(0, [instruction EXCEPT !.addr = TRUE], phase)
ConsumeAddressSizeOverridePrefix ==
  /\ phase \in {"prefixes", "legacy"} /\ NextIs({AddressSizeOverrideByte})
  /\ Consume(1, [instruction EXCEPT !.addr = TRUE], phase)

\* Behind these, a VEX or EVEX prefix excludes all others.
ConsumePrefixes ==
  /\ phase = "prefixes" /\ ~NextIs(SegmentBytes \cup {AddressSizeOverrideByte})
  /\ Consume(0, instruction, IF NextIs({196, 197}) THEN "vex" ELSE IF NextIs({98}) THEN "evex" ELSE "legacy")

MapOf(bits) == IF bits \in 1..3 THEN <<"0F", "0F38", "0F3A">>[bits] ELSE IF bits = 0 THEN "" ELSE "unknown"
PrefixOf(bits) == <<"", "66", "F3", "F2">>[bits + 1]
VexTail(byte) == [NoVexBits EXCEPT !.v = Bits(byte, 3, 7), !.len = Bit(byte, 2), !.pfx = PrefixOf(Bits(byte, 0, 2))]
ConsumeVexPrefix ==
  /\ phase = "vex"
  /\ IF Len(rest) < (IF rest[1] = 196 THEN 3 ELSE 2) THEN Fail
     ELSE IF rest[1] = 196
     THEN Consume(3, [instruction EXCEPT !.kind = "VEX",
                        !.vex = [VexTail(rest[3]) EXCEPT !.w = Bit(rest[3], 7), !.map = MapOf(Bits(rest[2], 0, 5)),
                                   !.nr = Bit(rest[2], 7), !.nx = Bit(rest[2], 6), !.nb = Bit(rest[2], 5)]], "opcode")
     ELSE Consume(2, [instruction EXCEPT !.kind = "VEX",
                        !.vex = [VexTail(rest[2]) EXCEPT !.map = "0F", !.nr = Bit(rest[2], 7), !.nx = 1, !.nb = 1]],
                  "opcode")

\* The reserved bits are checked; the two R bits are read with the first one as the upper one.
ConsumeEvexPrefix ==
  /\ phase = "evex"
  /\ IF Len(rest) < 4 \/ Bits(rest[2], 2, 4) # 0 \/ Bit(rest[3], 2) = 0 THEN Fail
     ELSE Consume(4, [instruction EXCEPT !.kind = "EVEX",
            !.vex = [NoVexBits EXCEPT
                       !.nr = 2 * Bit(rest[2], 7) + Bit(rest[2], 4), !.nx = Bit(rest[2], 6), !.nb = Bit(rest[2], 5),
                       !.map = MapOf(Bits(rest[2], 0, 2)), !.w = Bit(rest[3], 7), !.pfx = PrefixOf(Bits(rest[3], 0, 2)),
                       !.z = Bit(rest[4], 7), !.len = Bits(rest[4], 5, 7), !.bc = Bit(rest[4], 4),
                       !.v = Bits(rest[3], 3, 7) + 16 * Bit(rest[4], 3), !.aaa = Bits(rest[4], 0, 3)]], "opcode")

LockOrRepOf == [b \in {240, 242, 243} |-> CHOOSE p \in DOMAIN LockOrRepByte : LockOrRepByte[p] = b]
AddLockOrRepPrefix ==
  /\ phase = "legacy" /\ NextIs(DOMAIN LockOrRepOf)
  /\ IF instruction.leg.lock # "" THEN Fail
     ELSE Consume(1, [instruction EXCEPT !.leg.lock = LockOrRepOf[rest[1]]], "legacy")
AddOperandSizeOverridePrefix ==
  /\ phase = "legacy" /\ NextIs({OperandSizeOverrideByte})
  /\ Consume(1, [instruction EXCEPT !.leg.osz = TRUE], "legacy")
IsRexPrefixByte(byte) == byte \in 64..79
ParseRexPrefix ==
  /\ phase = "legacy" /\ NextIs(64..79)
  /\ IF instruction.leg.hasrex THEN Fail
     ELSE Consume(1, [instruction EXCEPT !.leg.hasrex = TRUE,
                        !.leg.rex = [w |-> Bit(rest[1], 3), r |-> Bit(rest[1], 2), x |-> Bit(rest[1], 1),
                                     b |-> Bit(rest[1], 0)]], "legacy")
IsPrefixByte(byte) == \/ byte \in SegmentBytes \cup DOMAIN LockOrRepOf \cup {OperandSizeOverrideByte, AddressSizeOverrideByte}
                      \/ IsRexPrefixByte(byte)
EndOfPrefixes ==
  /\ phase = "legacy" /\ (rest # <<>> => ~IsPrefixByte(rest[1]))
  /\ IF rest = <<>> THEN Fail ELSE Consume(0, instruction, "opcode")

\* The opcode made of the first n bytes, and the numbers of bytes that the loop looks up.
LegacyOpcode(n) == FoldLeft(LAMBDA op, byte : 256 * op + byte, 0, SubSeq(rest, 1, n))
Found(n) == GetEncodingSpecification([instruction EXCEPT !.op = LegacyOpcode(n)], FALSE) # 0
Reached(n) == \A m \in 1..(n - 1) : IsLegacyOpcodePrefix(LegacyOpcode(m))
MaxOpcodeBytes == 4
\* The numbers of bytes, from the first one tried on, of which the loop finds an opcode.
OpcodesFound(first) == {n \in first..Min({Len(rest), MaxOpcodeBytes}) : Reached(n) /\ Found(n)}
\* Mutant: the loop over the bytes of the opcode stops at the first opcode that exists.
ShortestOpcodeLength ==
  IF instruction.kind # "legacy" \/ OpcodesFound(1) = {} THEN 1 ELSE Min(OpcodesFound(1))
\* The longest sequence of bytes that is an opcode of a legacy instruction; one byte if none is.
OpcodeLength == IF instruction.kind # "legacy" THEN 1 ELSE Max(OpcodesFound(2) \cup {1})
ConsumeOpcode ==
  /\ phase = "opcode"
  /\ IF rest = <<>> \/ (instruction.kind # "legacy" /\ instruction.vex.map \notin DOMAIN MapSelectBits) THEN Fail
     ELSE \E length \in {OpcodeLength} :
          \E i \in {[instruction EXCEPT !.op = IF instruction.kind = "legacy" THEN LegacyOpcode(length)
                                              ELSE 256 * MapOpcode[instruction.vex.map] + rest[1]]} :
          \E n \in {GetEncodingSpecification(i, FALSE)} :
            IF n = 0 THEN Fail
            ELSE /\ specification' = n
                 /\ instruction' = i
                 /\ rest' = SubSeq(rest, length + 1, Len(rest))
                 /\ phase' = "modrm"

SignedByte(byte) == IF byte < 128 THEN byte ELSE byte - 256
Displacement(bytes) ==
  CASE bytes = <<>>   -> 0
    [] Len(bytes) = 1 -> SignedByte(bytes[1])
    [] Len(bytes) = 4 -> bytes[1] + 256 * bytes[2] + 65536 * bytes[3] + 16777216 * SignedByte(bytes[4])
ParseModRm(byte) == [mod |-> Bits(byte, 6, 8), reg |-> Bits(byte, 3, 6), rm |-> Bits(byte, 0, 3), disp |-> 0]
ParseSib(byte)   == [scale |-> Bits(byte, 6, 8), index |-> Bits(byte, 3, 6), base |-> Bits(byte, 0, 3)]
\* Mutant: keeps the specification that was found by the opcode.
ConsumeModRmKeepingSpecification ==
  /\ phase = "modrm"
  /\ IF Database[specification].spec.modrm = "NO" THEN Consume(0, instruction, "imm")
     ELSE IF rest = <<>> \/ ParseModRm(rest[1]).mod # Direct THEN Fail
     ELSE Consume(1, [instruction EXCEPT !.modrm = <<ParseModRm(rest[1])>>], "imm")
\* The specification is looked up again once the ModR/M byte is known.
ConsumeModRmAndSIBIfNeeded ==
  /\ phase = "modrm"
  /\ IF Database[specification].spec.modrm = "NO" THEN Consume(0, instruction, "imm")
     ELSE IF rest = <<>> THEN Fail
     ELSE \E modrm \in {ParseModRm(rest[1])} :
          \E read \in {IF ModRmRequiresSib(modrm) THEN 2 ELSE 1} :
            IF Len(rest) < read THEN Fail
            ELSE \E sib \in {IF read = 2 THEN <<ParseSib(rest[2])>> ELSE <<>>} :
                 \E bytes \in {NumModRmDisplacementBytes(modrm, IF read = 2 THEN sib[1] ELSE DefaultSib)} :
                   IF Len(rest) < read + bytes THEN Fail
                   ELSE \E disp \in {Displacement(SubSeq(rest, read + 1, read + bytes))} :
                        \E i \in {[instruction EXCEPT !.sib = sib, !.modrm = <<[modrm EXCEPT !.disp = disp]>>]} :
                        \E n \in {GetEncodingSpecification(i, TRUE)} :
                          IF n = 0 THEN Fail
                          ELSE /\ specification' = n
                               /\ instruction' = i
                               /\ rest' = SubSeq(rest, read + bytes + 1, Len(rest))
                               /\ phase' = "imm"

ConsumeImmediateValuesIfNeeded ==
  LET sizes == Database[specification].spec.imm
      Upto(n) == FoldLeft(+, 0, SubSeq(sizes, 1, n))
  IN  /\ phase = "imm"
      /\ IF Len(rest) < Upto(Len(sizes)) THEN Fail
         ELSE Consume(Upto(Len(sizes)),
                      [instruction EXCEPT !.imm = [n \in DOMAIN sizes |-> SubSeq(rest, Upto(n - 1) + 1, Upto(n))]], "code")
\* Mutant: takes the bytes that are there.
ConsumeCodeOffsetUnchecked ==
  LET size == Min({Database[specification].spec.code, Len(rest)})
  IN  phase = "code" /\ Consume(size, [instruction EXCEPT !.code = SubSeq(rest, 1, size)], "suffix")
ConsumeCodeOffsetIfNeeded ==
  LET size == Database[specification].spec.code
  IN  /\ phase = "code"
      /\ IF Len(rest) < size THEN Fail ELSE Consume(size, [instruction EXCEPT !.code = SubSeq(rest, 1, size)], "suffix")
ConsumeVexSuffixIfNeeded ==
  LET spec == Database[specification].spec
  IN  /\ phase = "suffix"
      /\ IF spec.type = "legacy" \/ ~spec.vex.is4 THEN Consume(0, instruction, "done")
         ELSE IF rest = <<>> THEN Fail
         ELSE Consume(1, [MutableVex(instruction) EXCEPT !.vex.suffix = rest[1]], "done")

ParserNext ==
  \/ ConsumeSegmentOverridePrefix \/ ConsumeAddressSizeOverridePrefix \/ ConsumePrefixes
  \/ ConsumeVexPrefix \/ ConsumeEvexPrefix
  \/ AddLockOrRepPrefix \/ AddOperandSizeOverridePrefix \/ ParseRexPrefix \/ EndOfPrefixes
  \/ ConsumeOpcode \/ ConsumeModRmAndSIBIfNeeded
  \/ ConsumeImmediateValuesIfNeeded \/ ConsumeCodeOffsetIfNeeded \/ ConsumeVexSuffixIfNeeded

-----------------------------------------------------------------------------
(* Properties.                                                               *)

\* The specification that decided which immediate values were read is one that the whole
\* instruction matches: the first lookup, made before the ModR/M byte was read, is not used.
SpecificationMatches ==
  phase \in {"imm", "code", "suffix", "done"} =>
    InstructionMatchesSpecification(Database[specification], instruction, TRUE)

\* A step of the loops over the prefixes consumes a byte, and every other step goes on to a
\* function that runs later.
Order == <<"prefixes", "vex", "evex", "legacy", "opcode", "modrm", "imm", "code", "suffix", "done", "error">>
Position(p) == CHOOSE n \in DOMAIN Order : Order[n] = p
Advances == Len(rest') < Len(rest) \/ Position(phase') > Position(phase)
=============================================================================
