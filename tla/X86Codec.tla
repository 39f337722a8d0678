------------------------------- MODULE X86Codec --------------------------------
(****************************************************************************)
(* What a client does with an instruction: start from its base or from an    *)
(* example, assign operands, encode, and parse the bytes, which another      *)
(* instruction follows or which end too early.                               *)
(****************************************************************************)
EXTENDS X86Parser

CONSTANTS
  MaxCalls,        \* at most this many operands are assigned
  RegisterNames, SmallDisplacements, LargeDisplacements,  \* arguments of the setters
  Following,            \* the bytes behind the instruction
  Inputs                \* sequences of bytes that the client did not encode, to parse

ASSUME CodecAssumption ==
  /\ SmallDisplacements \subseteq Int /\ LargeDisplacements \subseteq Int
  /\ Following \in Seq(Byte) /\ Inputs \subseteq Seq(Byte)

VARIABLES
  entry,     \* the index in Database of the instruction the client works on
  instr,     \* the client's decoded instruction
  assigned,  \* by operand position: what the last accepted call assigned to it, <<>> before
  calls,
  bytes,     \* the encoding
  cut,       \* whether the end of the encoding is missing
  stage      \* "assign", "rejected", "encoded" or "parse"; "foreign" while other bytes are parsed

clientVars == <<entry, instr, assigned, calls, bytes, cut, stage>>
vars == <<parserVars, clientVars>>

SpecOf == Database[entry].spec
OpsOf  == Database[entry].ops
\* A client fills the immediate values of a base instruction in.
WithImmediates(spec, i) == [i EXCEPT !.imm = [n \in DOMAIN spec.imm |-> [b \in 1..spec.imm[n] |-> b]],
                                     !.code = [b \in 1..spec.code |-> 0]]
CodecInit ==
  /\ entry \in DOMAIN Database
  /\ assigned = [p \in DOMAIN OpsOf |-> <<>>] /\ calls = 0 /\ bytes = <<>> /\ cut = FALSE
  /\ \/ /\ stage = "assign"
        /\ \E i \in Database[entry].starts : instr = WithImmediates(SpecOf, i)
        /\ ParserInit(<<>>)
     \/ /\ stage = "foreign" /\ entry = 1 /\ instr = NoInstruction
        /\ \E input \in Inputs : ParserInit(input)

\* A call of a setter for operand p returned result; on success the operand is what.
Returned(result, p, what) == /\ instr' = result.inst
                             /\ assigned' = IF result.ok THEN [assigned EXCEPT ![p] = what] ELSE assigned
Assign(p, result, what) ==
  /\ stage = "assign" /\ calls < MaxCalls /\ calls' = calls + 1
  /\ Returned(result, p, what)
  /\ UNCHANGED <<parserVars, entry, bytes, cut, stage>>

\* The client knows a register by its name.
Registers == {GetRegisterIndex(name) : name \in RegisterNames}
AssignRegister == \E p \in AssignableOperands(OpsOf), r \in Registers :
  Assign(p, SetOperandToRegister(OpsOf, p, r, instr), <<"register", r>>)
AssignMemory == \E p \in GetMemoryOperandPosition(OpsOf), r \in Registers, d \in SmallDisplacements, a \in LargeDisplacements :
  \/ Assign(p, SetOperandToMemoryAbsolute(OpsOf, a, instr), <<"absolute", a>>)
  \/ Assign(p, SetOperandToMemoryBase(OpsOf, r, instr), <<"base", r>>)
  \/ Assign(p, SetOperandToMemoryBaseSib(OpsOf, r, instr), <<"base", r>>)
  \/ Assign(p, SetOperandToMemoryRelativeToRip(OpsOf, a, instr), <<"rip", a>>)
  \/ Assign(p, SetOperandToMemoryBaseAndDisplacement(OpsOf, r, d, 8, instr), <<"base", r, d>>)
  \/ Assign(p, SetOperandToMemoryBaseAndDisplacement(OpsOf, r, a, 32, instr), <<"base", r, a>>)

EncodeInstruction ==
  /\ stage = "assign"
  /\ LET valid == Validate(SpecOf, instr)
     IN  /\ stage' = IF valid THEN "encoded" ELSE "rejected"
         /\ bytes' = IF valid THEN Encode(SpecOf, instr) ELSE <<>>
  /\ UNCHANGED <<parserVars, entry, instr, assigned, calls, cut>>

\* All the bytes arrive and another instruction behind them, or only the first n of them.
ParseAll == /\ stage = "encoded" /\ stage' = "parse" /\ cut' = FALSE
            /\ rest' = bytes \o Following /\ UNCHANGED <<instruction, specification, phase>>
            /\ UNCHANGED <<entry, instr, assigned, calls, bytes>>
ParseCut == /\ stage = "encoded" /\ stage' = "parse" /\ cut' = TRUE
            /\ \E n \in 0..(Len(bytes) - 1) : rest' = SubSeq(bytes, 1, n)
            /\ UNCHANGED <<instruction, specification, phase>>
            /\ UNCHANGED <<entry, instr, assigned, calls, bytes>>
Parsing == stage \in {"parse", "foreign"}
Parse == Parsing /\ ParserNext /\ UNCHANGED clientVars
HasReturned == (stage = "rejected" \/ phase \in {"done", "error"}) /\ UNCHANGED vars

CodecNext == AssignRegister \/ AssignMemory \/ EncodeInstruction \/ ParseAll \/ ParseCut \/ Parse \/ HasReturned
CodecSpec == CodecInit /\ [][CodecNext]_vars

-----------------------------------------------------------------------------
(* Properties.                                                               *)

\* What of an instruction its bytes can say: the default opcode and register operand are filled in,
\* a displacement is a signed number of its width, and an empty REX prefix is none.
Canonical(spec, i) ==
  LET modrm == ModRmOf(i)  n == NumModRmDisplacementBytes(modrm, SibOf(i))
      disp  == CASE n = 0 -> 0 [] n = 1 -> SignedByte(modrm.disp % 256) [] n = 4 -> modrm.disp
      unused == spec.type # "legacy" /\ spec.vex.usage = "NOT_USED"
  IN  [i EXCEPT !.leg.hasrex = FALSE, !.op = IF @ = 0 THEN OpcodeOf(spec) ELSE @,
                !.modrm = IF @ = <<>> THEN @ ELSE <<[modrm EXCEPT !.disp = disp]>>,
                !.vex.v = IF unused /\ @ = 0 THEN IF spec.type = "VEX" THEN 15 ELSE 31 ELSE @]

\* The encoding of an instruction with operands of the right kind is parsed back to it, to the last byte of it and no further, by
\* InstructionParser::ConsumeBinaryEncoding after EncodeInstruction.
RoundTrip ==
  stage = "parse" /\ ~cut /\ phase \in {"done", "error"} /\ ModRmUsageMatchesSpecification(SpecOf, OpsOf, instr) =>
    /\ phase = "done"
    /\ rest = Following
    /\ Database[specification].spec = SpecOf
    /\ Canonical(SpecOf, instruction) = Canonical(SpecOf, instr)

\* An encoding of which the end is missing is not taken for an instruction: every Consume function
\* checks that the bytes it reads are there.
TruncatedIsRefused == cut => phase # "done"

\* The operand at position p of an instruction, as the manual defines the fields it is encoded in.
WithExtension(i, e, bits) ==
  bits + 8 * (IF i.kind = "legacy" THEN i.leg.rex[e] ELSE IF e = "r" THEN 1 - Bit(i.vex.nr, 0) ELSE 1 - i.vex[Inverted[e]])
MemoryOperand(i) ==
  LET modrm == ModRmOf(i)  sib == SibOf(i)
      base  == WithExtension(i, "b", IF modrm.rm = 4 THEN sib.base ELSE modrm.rm)
      noBase == modrm.mod = 0 /\ modrm.rm = 4 /\ sib.base = 5
  IN  IF modrm.rm = 4 /\ WithExtension(i, "x", sib.index) # 4 THEN <<"indexed">>
      ELSE IF noBase THEN <<"absolute", modrm.disp>>
      ELSE IF modrm.mod = 0 THEN IF modrm.rm = 5 THEN <<"rip", modrm.disp>> ELSE <<"base", base>>
      ELSE <<"base", base, modrm.disp>>
OperandAt(i, p) ==
  CASE OpsOf[p].enc = "OPCODE"     -> <<"register", WithExtension(i, "b", i.op % 8)>>
    [] OpsOf[p].enc = "MODRM_REG"  -> <<"register", WithExtension(i, "r", ModRmOf(i).reg)>>
    [] OpsOf[p].enc = "MODRM_RM"   -> IF ModRmOf(i).mod = Direct THEN <<"register", WithExtension(i, "b", ModRmOf(i).rm)>>
                                      ELSE MemoryOperand(i)
    [] OpsOf[p].enc = "VEX_V"      -> <<"register", 15 - (i.vex.v % 16)>>
    [] OpsOf[p].enc = "VEX_SUFFIX" -> <<"register", i.vex.suffix \div 16>>

\* Whatever the order of the calls, the bytes name the operands that the last accepted
\* SetOperandTo... calls assigned; no call leaves bits of an earlier operand behind.
AssignedOperandsAreEncoded ==
  stage = "parse" /\ ~cut /\ phase = "done" =>
    \A p \in DOMAIN OpsOf : assigned[p] # <<>> => OperandAt(instruction, p) = assigned[p]

\* The parser's test of the addressing mode accepts what ConvertToInstructionOperandAddressingMode
\* says of the same ModR/M and SIB bytes: the two functions spell the same table out.
AddressingModesAgree ==
  instr.modrm # <<>> => ModRmAddressingModeMatchesInstructionOperandAddressingMode(
                          instr, ConvertToInstructionOperandAddressingMode(instr))

\* Every call of ConsumeBinaryEncoding ends, over any bytes: no step of it repeats without
\* consuming a byte.
CallAdvances == [][Parsing => Advances]_parserVars
=============================================================================
