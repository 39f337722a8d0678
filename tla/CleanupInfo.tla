---------------------------- MODULE CleanupInfo -------------------------------
(****************************************************************************)
(* The transforms that derive facts about operands and prefixes from the     *)
(* parsed specification: cleanup_instruction_set_{operand_info,alternatives, *)
(* operand_size_override,evex}.cc.                                           *)
(****************************************************************************)
EXTENDS CleanupOperands, OperandTables

-----------------------------------------------------------------------------
(* Single instructions that need their operands described by hand.           *)

EndsInModRm(raw) == raw.tokens # <<>> /\ Last(raw.tokens) \in DOMAIN Extension \cup {"/r"}
AddVmxOperandInfo(set) ==
  Ok(ForEach(set, LAMBDA inst : IF inst.feature = "VMX" /\ inst.ops # <<>> /\ ~EndsInModRm(inst.raw)
                                THEN WithSuffix(inst, "/r") ELSE inst))

\* Only the first VMFUNC gets the operand.
FixVmFuncOperandInfo(set) ==
  LET vmfuncs == {i \in DOMAIN set.insts : set.insts[i].raw = Raw(<<"NP", "0F", "01", "D4">>)}
      eax == [Named("EAX", "X86_REGISTER_EAX", "READ") EXCEPT !.am = "FIXED_REGISTERS"]
  IN  Ok(IF vmfuncs = {} THEN set
         ELSE [set EXCEPT !.insts[Min(vmfuncs)].ops = Append(@, eax)])

AsAddress(operand, name, size) ==
  [operand EXCEPT !.name = name, !.am = "INDIRECT_WITH_BASE", !.size = size, !.rclass = "INVALID"]
AddressIn1st(set, Is(_), operands, name, size) ==
  FixWhere(set, Is, LAMBDA inst : Len(inst.ops) = operands /\ inst.ops[1].name = "r16/r32/r64",
           LAMBDA inst : [inst.ops EXCEPT ![1] = AsAddress(@, name, size)])
AddMovdir64BOperandInfo(set) ==
  AddressIn1st(set, LAMBDA inst : inst.raw = Raw(<<"66", "0F", "38", "F8", "/r">>), 2, "m64", 512)
AddUmonitorOperandInfo(set) ==
  AddressIn1st(set, LAMBDA inst : inst.raw = Raw(<<"F3", "0F", "AE", "/6">>) /\ inst.mnem = "UMONITOR",
               1, "mem", 8)

-----------------------------------------------------------------------------
(* Encoding, addressing mode and size of the operands.                       *)

\* What a table assigns to a name; the default when it does not know the name.
Lookup(table, name, default) == LET ks == {k \in DOMAIN table : name \in table[k]}
                                IN  IF ks = {} THEN default ELSE CHOOSE k \in ks : TRUE
IsImplicit(enc) == enc \in {"IMPLICIT", "X86_REGISTER_EAX"}
Take(bag, e)    == IF BagIn(e, bag) THEN bag (-) SetToBag({e}) ELSE bag

\* A version that takes an encoding the specification does not offer.
DeterminesWithoutCheck(acc, i) ==
  LET op  == acc.ops[i]
      enc == IF op.enc # "ANY" THEN op.enc ELSE Lookup(EncodingMap, op.name, "ANY")
  IN  [acc EXCEPT !.ops[i] = [op EXCEPT !.am = IF @ # "ANY" THEN @ ELSE Lookup(AddressingModeMap, op.name, "ANY"),
                                        !.enc = enc, !.size = Lookup(ValueSizeMap, op.name, @)],
                  !.open = IF enc = "ANY" THEN Append(@, i) ELSE @,
                  !.avail = IF IsImplicit(enc) THEN @ ELSE Take(@, enc)]

\* AssignOperandPropertiesWhereUniquelyDetermined for one operand.  open holds the operands whose
\* encoding is still unknown, avail the encodings not yet taken.
Determine(acc, i) ==
  LET op  == acc.ops[i]
      am  == IF op.am # "ANY" THEN op.am ELSE Lookup(AddressingModeMap, op.name, "ANY")
      enc == IF op.enc # "ANY" THEN op.enc ELSE Lookup(EncodingMap, op.name, "ANY")
      new == [op EXCEPT !.am = am, !.enc = enc, !.size = Lookup(ValueSizeMap, op.name, @)]
  IN  IF am = "ANY" THEN [acc EXCEPT !.ok = FALSE]
      ELSE [acc EXCEPT !.ops[i] = new,
                       !.open = IF enc = "ANY" THEN Append(@, i) ELSE @,
                       !.ok = @ /\ (enc = "ANY" \/ IsImplicit(enc) \/ BagIn(enc, acc.avail)),
                       !.avail = IF IsImplicit(enc) THEN @ ELSE Take(@, enc)]

\* The first of the encodings that is available; all copies of it are taken.
AssignEncodingIfAvailable(acc, i, encodings) ==
  LET free == SelectSeq(encodings, LAMBDA e : BagIn(e, acc.avail))
  IN  IF free = <<>> THEN acc
      ELSE [acc EXCEPT !.ops[i].enc = free[1],
                       !.avail = [e \in DOMAIN @ \ {free[1]} |-> @[e]]]

SchemeEncodings == [M |-> <<"MODRM_RM">>, R |-> <<"MODRM_REG", "VEX_SUFFIX">>, V |-> <<"VEX_V">>,
                    X |-> <<"MODRM_REG">>]
IgnoresEncodingScheme(scheme, acc) == acc
AssignEncodingByEncodingScheme(scheme, acc) ==
  IF Len(scheme) < Len(acc.ops) THEN acc
  ELSE FoldLeft(LAMBDA a, i : LET letter == SubSeq(scheme, i, i)
                              IN  IF letter \in DOMAIN SchemeEncodings
                                  THEN AssignEncodingIfAvailable(a, i, SchemeEncodings[letter]) ELSE a,
                acc, acc.open)

\* The operands that are left take encodings in the iteration order of a hash set, given by `order`.
AssignEncodingRandomlyFromAvailableEncodings(order, acc) ==
  FoldLeft(LAMBDA a, i : IF a.ops[i].enc # "ANY" THEN a
                         ELSE IF BagToSet(a.avail) = {} THEN [a EXCEPT !.ok = FALSE]
                         ELSE LET e == SelectSeq(order, LAMBDA x : BagIn(x, a.avail))[1]
                              IN  [a EXCEPT !.ops[i].enc = e, !.avail = Take(@, e)],
           acc, [i \in DOMAIN acc.ops |-> i])

AddOperandInfoToSyntax(order, inst) ==
  LET first == FoldLeft(Determine,
                        [ops |-> inst.ops, avail |-> GetAvailableEncodings(inst.spec[1]), open |-> <<>>,
                         ok |-> TRUE], [i \in DOMAIN inst.ops |-> i])
      free  == BagCardinality(first.avail)
  IN  IF inst.spec = <<>> THEN [ops |-> inst.ops, ok |-> FALSE]
      ELSE IF ~first.ok \/ first.open = <<>> THEN first
      ELSE IF Len(first.open) = 1 /\ free = 1
           THEN [first EXCEPT !.ops[first.open[1]].enc = CHOOSE e \in BagToSet(first.avail) : TRUE]
      ELSE IF Len(first.open) > free THEN [first EXCEPT !.ok = FALSE]
      ELSE AssignEncodingRandomlyFromAvailableEncodings(order, AssignEncodingByEncodingScheme(inst.scheme, first))

\* The instructions before the first one that fails are changed.
AddOperandInfo(order, set) ==
  LET info == [i \in DOMAIN set.insts |-> AddOperandInfoToSyntax(order, set.insts[i])]
      bad  == {i \in DOMAIN set.insts : ~info[i].ok}
  IN  Result(bad = {}, [set EXCEPT !.insts = [i \in DOMAIN @ |->
         IF \E j \in bad : j <= i THEN @[i] ELSE [@[i] EXCEPT !.ops = info[i].ops]]])

AddRegisterClassToOperands(set) ==
  LET Class(op) == Lookup(RegisterClassMap, op.name, "unknown")
  IN  Result(\A i \in DOMAIN set.insts : \A j \in DOMAIN set.insts[i].ops : Class(set.insts[i].ops[j]) # "unknown",
             ForEach(set, LAMBDA inst : [inst EXCEPT !.ops = [j \in DOMAIN @ |->
                                                                [@[j] EXCEPT !.rclass = Class(inst.ops[j])]]]))

\* "FAIL" where the code returns an error.
MissingUsage(op, position) ==
  CASE op.usage # "UNKNOWN" -> op.usage
    [] op.enc = "IMMEDIATE" -> "READ"
    [] op.enc = "VEX_V" -> IF position = 1 THEN "FAIL" ELSE "READ"
    [] op.enc = "IMPLICIT" /\ op.am = "DIRECT" -> IF position = 1 THEN "WRITE" ELSE "READ"
    [] op.enc = "IMPLICIT" /\ op.am = "NONE" -> "READ"
    [] OTHER -> "UNKNOWN"
AddMissingOperandUsage(set) ==
  Result(\A i \in DOMAIN set.insts : \A j \in DOMAIN set.insts[i].ops : MissingUsage(set.insts[i].ops[j], j) # "FAIL",
         ForEach(set, LAMBDA inst : [inst EXCEPT !.ops = [j \in DOMAIN @ |->
                                       [@[j] EXCEPT !.usage = MissingUsage(inst.ops[j], j)]]]))

VblendMnemonics == {"V" \o p \o "BLEND" \o v \o q \o s :
                      p \in {"", "P"}, v \in {"", "V"}, q \in {"", "P"}, s \in {"D", "S", "B"}}
AddMissingOperandUsageToVblendInstructions(set) ==
  Ok(ForEach(set, LAMBDA inst :
       IF inst.mnem \in VblendMnemonics /\ inst.ops[Len(inst.ops)].usage = "UNKNOWN"
       THEN [inst EXCEPT !.ops[Len(inst.ops)].usage = "READ"] ELSE inst))

IsVex(inst) == inst.spec # <<>> /\ inst.spec[1].type # "legacy"
\* What vex.vvvv is for, from the usage of the first operand that is encoded there.
AddMissingVexVOperandUsage(set) ==
  LET InVexV(inst) == SelectSeq(inst.ops, LAMBDA op : op.enc = "VEX_V")
      Usage(inst) == IF InVexV(inst)[1].usage \in {"WRITE", "READ_WRITE"} THEN "NDD"
                     ELSE IF inst.ops[1].usage = "READ_WRITE" THEN "DDS" ELSE "NDS"
  IN  Ok(ForEach(set, LAMBDA inst :
           IF IsVex(inst) /\ inst.spec[1].vex.usage = "UNDEFINED" /\ InVexV(inst) # <<>>
           THEN [inst EXCEPT !.spec[1].vex.usage = Usage(inst)] ELSE inst))

-----------------------------------------------------------------------------
(* The operand size override prefix.                                         *)

k16BitInstructionsWithImplicitOperands ==
  {"CMPSW", "CBW", "CWD", "INSW", "IRET", "LODSW", "MOVSW", "OUTSW", "POPF", "PUSHF", "SCASW", "STOSW"}
AddOperandSizeOverrideToInstructionsWithImplicitOperands(set) ==
  Ok(ForEach(set, LAMBDA inst : IF inst.mnem \in k16BitInstructionsWithImplicitOperands
                                THEN AddOperandSizeOverrideToInstructionProto(inst) ELSE inst))

\* The operand that tells the 16-bit version of a specification from the others.
TellingOperand == [raw \in Raws({<<"0F", "01", "/4">>, <<"0F", "B2", "/r">>, <<"0F", "B4", "/r">>,
                                 <<"0F", "B5", "/r">>, <<"50", "+rw">>, <<"58", "+rw">>, <<"62", "/r">>,
                                 <<"8F", "/0">>, <<"C4", "/r">>, <<"C5", "/r">>,
                                 <<"F2", "0F", "38", "F1", "/r">>, <<"FF", "/6">>})
                     |-> IF raw = Raw(<<"F2", "0F", "38", "F1", "/r">>) THEN 2 ELSE 1]
Is16Bit(operand) == operand.name \in {"r16", "r/m16"}
AddOperandSizeOverrideToSpecialCaseInstructions(set) ==
  LET Listed(inst) == inst.raw \in DOMAIN TellingOperand
      Has(inst)    == TellingOperand[inst.raw] \in DOMAIN inst.ops
  IN  Result(\A i \in DOMAIN set.insts : Listed(set.insts[i]) => Has(set.insts[i]),
             ForEach(set, LAMBDA inst : IF Listed(inst) /\ Has(inst) /\ Is16Bit(inst.ops[TellingOperand[inst.raw]])
                                        THEN AddOperandSizeOverrideToInstructionProto(inst) ELSE inst))

\* These may come with the prefix or without it: the version with the prefix is added.
AddOperandSizeOverrideVersionForSpecialCaseInstructions(set) ==
  LET Listed(inst) == inst.raw \in Raws({<<"8C", "/r">>, <<"0F", "00", "/0">>, <<"0F", "00", "/1">>})
  IN  Result(\A i \in DOMAIN set.insts : Listed(set.insts[i]) => set.insts[i].ops # <<>>,
             WithAdded(set, MadeFrom(set, LAMBDA inst : Listed(inst) /\ inst.ops # <<>> /\ Is16Bit(inst.ops[1]),
                                     LAMBDA inst : <<AddOperandSizeOverrideToInstructionProto(inst)>>)))

\* A version that takes a different size of immediate value for a different instruction.
SeparatesImmediates(set) ==
  LET Wide(i) == \E k \in DOMAIN set.insts[i].ops : set.insts[i].ops[k].size = 32
      Legacy(i) == IsLegacy(set.insts[i]) /\ set.insts[i].spec[1].code = 0
      Narrow(i) == ~Wide(i) /\ \E k \in DOMAIN set.insts[i].ops : set.insts[i].ops[k].size = 16
      wide == {set.insts[i].spec[1] : i \in {j \in DOMAIN set.insts : Legacy(j) /\ Wide(j)}}
  IN  Ok([set EXCEPT !.insts = [i \in DOMAIN @ |->
            IF Legacy(i) /\ Narrow(i) /\ @[i].spec[1] \in wide
            THEN AddOperandSizeOverrideToInstructionProto(@[i]) ELSE @[i]]])
\* Versions of one instruction: all but the immediate values of their specifications is equal.
HasDataOperandOfSize(size, inst) == \E i \in DOMAIN inst.ops : inst.ops[i].size = size
AddOperandSizeOverridePrefix(set) ==
  LET In(i) == IsLegacy(set.insts[i]) /\ set.insts[i].spec[1].code = 0
      Bucket(inst) == [inst.spec[1] EXCEPT !.imm = <<>>]
      Wide(inst)   == HasDataOperandOfSize(32, inst)
      Narrow(inst) == ~Wide(inst) /\ HasDataOperandOfSize(16, inst)
      WideBuckets  == {Bucket(set.insts[i]) : i \in {j \in DOMAIN set.insts : In(j) /\ Wide(set.insts[j])}}
  IN  Result(\A i \in DOMAIN set.insts : set.insts[i].raw # Raw(<<>>) /\ set.insts[i].spec # <<>>,
             [set EXCEPT !.insts = [i \in DOMAIN @ |->
                IF In(i) /\ Narrow(@[i]) /\ Bucket(@[i]) \in WideBuckets
                THEN AddOperandSizeOverrideToInstructionProto(@[i]) ELSE @[i]]])

AddOperandSizeOverridePrefixUsage(set) == Ok(AddPrefixUsageToLegacyInstructions("osz", set))

-----------------------------------------------------------------------------
(* EVEX.                                                                     *)

IsEvex(inst) == inst.spec # <<>> /\ inst.spec[1].type = "EVEX"
Tags(inst)   == FlattenSeq([i \in DOMAIN inst.ops |-> inst.ops[i].tags])
HasPart(string, part) == \E i \in 1..(Len(string) - Len(part) + 1) :
                           SubSeq(string, i, i + Len(part) - 1) = part
Broadcasts(op) == {b \in Bcst : HasPart(op.name, b)}
AddEvexBInterpretation(set) ==
  LET First(inst) == LET q == SelectSeq(inst.ops, LAMBDA op : Broadcasts(op) # {})
                     IN  IF q = <<>> THEN <<>> ELSE <<CHOOSE b \in Broadcasts(q[1]) : TRUE>>
      Control(inst) == SelectSeq(Tags(inst), LAMBDA t : t \in {"er", "sae"})
  IN  Ok(ForEach(set, LAMBDA inst : IF IsEvex(inst)
                                    THEN [inst EXCEPT !.spec[1].vex.b = @ \o First(inst) \o Control(inst)]
                                    ELSE inst))

kOpmaskRequiredMnemonics ==
  {g \o p : g \in {"VGATHER", "VSCATTER"}, p \in {"DPS", "DPD", "QPS", "QPD"}}
    \cup {g \o p : g \in {"VPGATHER", "VPSCATTER"}, p \in {"DD", "DQ", "QD", "QQ"}}
AddEvexOpmaskUsage(set) ==
  LET Has(inst, tag) == tag \in ToSet(Tags(inst))
      Opmask(inst)  == IF ~IsEvex(inst) \/ ~Has(inst, "k1") THEN "NOT_USED"
                       ELSE IF inst.mnem \in kOpmaskRequiredMnemonics THEN "REQUIRED" ELSE "OPTIONAL"
      Masking(inst) == IF Opmask(inst) = "NOT_USED" THEN "NO" ELSE IF Has(inst, "z") THEN "ZEROING" ELSE "MERGING"
  IN  Result(\A i \in DOMAIN set.insts : IsEvex(set.insts[i]) /\ Has(set.insts[i], "z") => Has(set.insts[i], "k1"),
             ForEach(set, LAMBDA inst : IF IsVex(inst)
                                        THEN [inst EXCEPT !.spec[1].vex.opmask = Opmask(inst),
                                                          !.spec[1].vex.masking = Masking(inst)]
                                        ELSE inst))

\* The tags of rounding and exception control move to an operand of their own behind the one that
\* has them.  CHECK: at most one operand has such tags.
IsPseudoTag(t) == t \in {"er", "sae"}
IsPseudoOperand(op) == op.name = "" /\ op.am = "NONE" /\ op.enc = "STATIC_PROPERTY"
AddEvexPseudoOperands(set) ==
  LET Tagged(op) == ~IsPseudoOperand(op) /\ \E t \in ToSet(op.tags) : IsPseudoTag(t)
      Pseudo(op) == [AnyOperand EXCEPT !.am = "NONE", !.enc = "STATIC_PROPERTY", !.usage = "READ",
                                       !.tags = SelectSeq(op.tags, IsPseudoTag)]
      Split(op)  == IF Tagged(op)
                    THEN <<[op EXCEPT !.tags = SelectSeq(@, LAMBDA t : ~IsPseudoTag(t))], Pseudo(op)>>
                    ELSE <<op>>
      Carriers(inst) == {i \in DOMAIN inst.ops : Tagged(inst.ops[i]) \/ IsPseudoOperand(inst.ops[i])}
  IN  Result(\A i \in DOMAIN set.insts : Cardinality(Carriers(set.insts[i])) <= 1,
             ForEach(set, LAMBDA inst : [inst EXCEPT !.ops = FlattenSeq([i \in DOMAIN @ |-> Split(@[i])])]))

-----------------------------------------------------------------------------
(* Splitting of operands that may be in a register or in memory.             *)

WithAlternative(inst, i, alternative) ==
  [inst EXCEPT !.ops[i] = [@ EXCEPT !.name = alternative.name, !.am = alternative.am, !.size = alternative.size]]
\* A new instruction is copied from the one that is being split, with the operands to the left
\* replaced already and those to the right still to be split.
SplitInstruction(inst) ==
  LET splits == SelectSeq([i \in DOMAIN inst.ops |-> i], LAMBDA i : inst.ops[i].name \in SplitNames)
  IN  FoldLeft(LAMBDA acc, i : [inst |-> WithAlternative(acc.inst, i, OperandAlternatives[inst.ops[i].name][1]),
                                new  |-> Append(acc.new, WithAlternative(acc.inst, i,
                                                           OperandAlternatives[inst.ops[i].name][2]))],
               [inst |-> inst, new |-> <<>>], splits)
AddAlternatives(set) ==
  LET Known(op) == op.name \in UnmodifiedNames \cup SplitNames
      Splittable(op) == op.name \notin SplitNames \/ (op.enc = "MODRM_RM" /\ op.am = "FLEXIBLE")
      split == [i \in DOMAIN set.insts |-> SplitInstruction(set.insts[i])]
  IN  Result(\A i \in DOMAIN set.insts : \A j \in DOMAIN set.insts[i].ops :
               Known(set.insts[i].ops[j]) /\ Splittable(set.insts[i].ops[j]),
             [set EXCEPT !.insts = [i \in DOMAIN @ |-> split[i].inst]
                                   \o FlattenSeq([i \in DOMAIN @ |-> split[i].new])])
=============================================================================
