--------------------------- MODULE CleanupEncoding ---------------------------
(****************************************************************************)
(* The transforms of the x86 instruction set that work on raw encoding       *)
(* specifications and on whole instructions: cleanup_instruction_set_        *)
(* {removals,encoding,missing_instructions,properties,rex,utils}.cc.         *)
(* An instruction set is [insts, groups]; a transform returns the changed    *)
(* set and whether its status was OK.                                        *)
(****************************************************************************)
EXTENDS X86Spec, TLC

Ok(set)          == [ok |-> TRUE, set |-> set]
Result(ok, set)  == [ok |-> ok, set |-> set]
Raw(tokens)      == [vex |-> <<>>, tokens |-> tokens]
Raws(S)          == {Raw(tokens) : tokens \in S}

\* The whole set with every instruction replaced, with some removed, with new ones at its end.
ForEach(set, Op(_))   == [set EXCEPT !.insts = [i \in DOMAIN @ |-> Op(@[i])]]
Without(set, P(_))    == [set EXCEPT !.insts = SelectSeq(@, LAMBDA inst : ~P(inst))]
WithAdded(set, new)   == [set EXCEPT !.insts = @ \o new]
\* New instructions made from those that satisfy P, in order, Make giving a sequence for each.
MadeFrom(set, P(_), Make(_)) ==
  FlattenSeq([i \in DOMAIN set.insts |-> IF P(set.insts[i]) THEN Make(set.insts[i]) ELSE <<>>])

-----------------------------------------------------------------------------
(* Removals.                                                                 *)

StartsWith(string, prefix) == /\ Len(string) >= Len(prefix)
                              /\ SubSeq(string, 1, Len(prefix)) = prefix

\* The first of several equal instructions stays.
RemoveDuplicateInstructions(set) ==
  LET seen == {i \in DOMAIN set.insts : \E j \in 1..(i - 1) : set.insts[j] = set.insts[i]}
      kept == SelectSeq([i \in DOMAIN set.insts |-> i], LAMBDA i : i \notin seen)
  IN  Ok([set EXCEPT !.insts = [i \in DOMAIN kept |-> set.insts[kept[i]]]])

\* Strings are compared character by character, a prefix before what it is a prefix of.
Characters == " &()+-./0123456789:<>ABCDEFGHIJKLMNOPQRSTUVWXYZ[]abcdefghijklmnopqrstuvwxyz"
Code(c) == CHOOSE n \in 1..Len(Characters) : SubSeq(Characters, n, n) = c
StringLess(a, b) ==
  LET at == {i \in 1..Min({Len(a), Len(b)}) : SubSeq(a, i, i) # SubSeq(b, i, i)}
  IN  IF at = {} THEN Len(a) < Len(b)
      ELSE Code(SubSeq(a, Min(at), Min(at))) < Code(SubSeq(b, Min(at), Min(at)))

\* The groups that are left are sorted by name; CHECK: one name is one group.
RemoveEmptyInstructionGroups(set) ==
  LET GroupOf(inst) == set.groups[inst.group]
      used  == {GroupOf(set.insts[i]) : i \in DOMAIN set.insts}
      order == SetToSortSeq(used, StringLess)
      index == [g \in used |-> CHOOSE i \in DOMAIN order : order[i] = g]
  IN  Result(\A i, j \in DOMAIN set.insts :
               GroupOf(set.insts[i]) = GroupOf(set.insts[j]) => set.insts[i].group = set.insts[j].group,
             [insts  |-> [i \in DOMAIN set.insts |->
                            [set.insts[i] EXCEPT !.group = index[GroupOf(set.insts[i])]]],
              groups |-> order])

RemoveLegacyVersionsOfInstructions(set) ==
  LET specs == Raws({<<"C9">>, <<"E3", "cb">>})
      Found(raw, legacy) == \E i \in DOMAIN set.insts : /\ set.insts[i].raw = raw
                                                        /\ set.insts[i].legacy = legacy
  IN  Result(\A raw \in specs : Found(raw, TRUE) => Found(raw, FALSE),
             Without(set, LAMBDA inst : inst.raw \in specs /\ inst.legacy))

RemoveInstructionsWaitingForFpuSync(set) ==
  Ok(Without(set, LAMBDA inst : Len(inst.raw.tokens) > 1 /\ inst.raw.tokens[1] = "9B"))

RemoveNonEncodableInstructions(set) == Ok(Without(set, LAMBDA inst : ~inst.avail))

RemoveRepAndRepneInstructions(set) == Ok(Without(set, LAMBDA inst : StartsWith(inst.mnem, "REP")))

kRemovedEncodingSpecifications ==
  Raws({<<"C8", "iw", "00">>, <<"C8", "iw", "01">>, <<"DD", "E1">>, <<"DD", "E9">>, <<"DE", "C1">>,
        <<"DE", "E1">>, <<"DE", "F1">>, <<"DE", "F9">>, <<"F2">>, <<"F3">>,
        <<"REX.R", "0F", "20", "/0">>, <<"REX.R", "0F", "22", "/0">>,
        <<"F2", "REX", "0F", "38", "F0", "/r">>})
RemoveSpecialCaseInstructions(set) ==
  Ok(Without(set, LAMBDA inst : inst.raw \in kRemovedEncodingSpecifications \/ inst.mnem = "XLAT"))

\* An instruction with a plain REX prefix goes if one without it has the same vendor syntax; if none
\* has, it stays and the transform fails.
RemoveDuplicateInstructionsWithRexPrefix(set) ==
  LET WithRex(inst) == inst.raw.tokens # <<>> /\ inst.raw.tokens[1] = "REX"
      HasTwin(inst) == \E i \in DOMAIN set.insts :
                         /\ set.insts[i].raw = [inst.raw EXCEPT !.tokens = Tail(@)]
                         /\ set.insts[i].mnem = inst.mnem /\ set.insts[i].ops = inst.ops
  IN  Result(\A i \in DOMAIN set.insts : WithRex(set.insts[i]) => HasTwin(set.insts[i]),
             Without(set, LAMBDA inst : WithRex(inst) /\ HasTwin(inst)))

InstructionIsMovFromSRegWithOperand(name, inst) ==
  /\ inst.raw \in Raws({<<"8C", "/r">>, <<"REX.W", "8C", "/r">>})
  /\ Len(inst.ops) = 2 /\ inst.ops[1].name = name
RemoveDuplicateMovFromSReg(set) ==
  LET Has(name) == \E i \in DOMAIN set.insts : InstructionIsMovFromSRegWithOperand(name, set.insts[i])
  IN  Result(Has("r16/r32/m16") => Has("r64/m16"),
             Without(set, LAMBDA inst : InstructionIsMovFromSRegWithOperand("r16/r32/m16", inst)))

RemoveX87InstructionsWithGeneralVersions(set) ==
  Ok(Without(set, LAMBDA inst : inst.raw \in Raws({<<"D8", "D1">>, <<"D8", "D9">>, <<"DE", "C9">>,
                                                   <<"DE", "E9">>, <<"D9", "C9">>})))

-----------------------------------------------------------------------------
(* Missing instructions and properties.                                      *)

AnyOperand == [name |-> "", am |-> "ANY", enc |-> "ANY", usage |-> "UNKNOWN", size |-> 0,
               rclass |-> "", tags |-> <<>>]
NewInstruction == [mnem |-> "", ops |-> <<>>, raw |-> Raw(<<>>), spec |-> <<>>, feature |-> "",
                   avail |-> FALSE, legacy |-> FALSE, scheme |-> "", pm |-> 0, group |-> 1, desc |-> ""]
FfreepInstruction ==
  [NewInstruction EXCEPT !.mnem = "FFREEP", !.avail = TRUE, !.legacy = TRUE, !.scheme = "M",
                         !.raw = Raw(<<"DF", "/0">>),
                         !.ops = <<[AnyOperand EXCEPT !.name = "ST(i)", !.am = "DIRECT", !.usage = "WRITE"]>>]
AddMissingFfreepInstruction(set) ==
  Ok(IF \E i \in DOMAIN set.insts : set.insts[i].mnem = "FFREEP" THEN set
     ELSE [insts  |-> Append(set.insts, [FfreepInstruction EXCEPT !.group = Len(set.groups) + 1]),
           groups |-> Append(set.groups, "FFREEP")])

kMissingFlags == "CLFLUSH" :> "CLFSH" @@ "CLFLUSHOPT" :> "CLFLUSHOPT" @@ "MOVBE" :> "MOVBE"
AddMissingCpuFlags(set) ==
  Ok(ForEach(set, LAMBDA inst : IF inst.mnem \in DOMAIN kMissingFlags
                                THEN [inst EXCEPT !.feature = kMissingFlags[inst.mnem]] ELSE inst))

ProtectedMnemonics ==
  {"CLAC", "CLI", "CLTS", "HLT", "INVD", "INVPCID", "LGDT", "LIDT", "LLDT", "LMSW", "LTR", "MWAIT",
   "RDFSBASE", "RDGSBASE", "WRFSBASE", "WRGSBASE", "RDMSR", "RDPMC", "STAC", "STD", "STI", "SWAPGR",
   "SWAPGS", "WBINVD", "WRMSR", "XRSTORS", "XRSTORS64", "IN", "INS", "INSB", "INSW", "INSD", "OUT",
   "OUTS", "OUTSB", "OUTSD", "OUTSW", "RSM"}
ProtectedEncodings == Raws({<<"0F", "21", "/r">>, <<"0F", "23", "/r">>, <<"0F", "20", "/r">>,
                            <<"0F", "22", "/r">>})
AddProtectionModes(set) ==
  Ok(ForEach(set, LAMBDA inst : [inst EXCEPT !.pm = IF \/ inst.mnem \in ProtectedMnemonics
                                                      \/ inst.raw \in ProtectedEncodings
                                                    THEN 0 ELSE -1]))

FixAvailableIn64Bits(set) ==
  Ok(ForEach(set, LAMBDA inst : [inst EXCEPT !.avail = @ \/ inst.raw \in Raws({<<"9F">>, <<"9E">>})]))

-----------------------------------------------------------------------------
(* Raw encoding specifications.                                              *)

WithToken(inst, token)  == [inst EXCEPT !.raw.tokens = <<token>> \o @]
WithSuffix(inst, token) == [inst EXCEPT !.raw.tokens = Append(@, token)]
AddRexWPrefixToInstructionProto(inst) ==
  IF "REX.W" \in ToSet(inst.raw.tokens) THEN inst ELSE WithToken(inst, "REX.W")
\* A version that forgets the parsed specification.
AddsToRawOnly(inst) == IF "66" \in ToSet(inst.raw.tokens) THEN inst ELSE WithToken(inst, "66")
\* Sets the usage in the parsed specification too, if there is one.
AddOperandSizeOverrideToInstructionProto(inst) ==
  LET marked == [inst EXCEPT !.spec = IF @ = <<>> THEN @ ELSE <<[@[1] EXCEPT !.leg.osz = "REQUIRED"]>>]
  IN  IF "66" \in ToSet(inst.raw.tokens) THEN marked ELSE WithToken(marked, "66")

AddMissingMemoryOffsetEncoding(set) ==
  LET Offset(inst) == inst.raw \in Raws({p \o <<o>> : p \in {<<>>, <<"REX.W">>}, o \in {"A0", "A1", "A2", "A3"}})
  IN  Ok(WithAdded(ForEach(set, LAMBDA inst : IF Offset(inst) THEN WithSuffix(inst, "io") ELSE inst),
                   MadeFrom(set, Offset, LAMBDA inst : <<WithToken(WithSuffix(inst, "id"), "67")>>)))

OneOf(mnemonic, names, inst) == /\ inst.mnem = mnemonic /\ Len(inst.ops) = 1
                                /\ inst.ops[1].name \in names
\* The width of a POP of FS or GS is known from its description only.
FixEncodingSpecificationOfPopFsAndGs(set) ==
  LET Pop(inst)   == OneOf("POP", {"FS", "GS"}, inst)
      Pop64(inst) == Pop(inst) /\ inst.desc = "64 bits"
  IN  Ok(WithAdded(ForEach(set, LAMBDA inst : IF Pop(inst) /\ inst.desc = "16 bits"
                                              THEN AddOperandSizeOverrideToInstructionProto(inst) ELSE inst),
                   MadeFrom(set, Pop64, LAMBDA inst : <<AddRexWPrefixToInstructionProto(inst)>>)))

FixEncodingSpecificationOfPushFsAndGs(set) ==
  Ok(WithAdded(set, MadeFrom(set, LAMBDA inst : OneOf("PUSH", {"FS", "GS"}, inst),
                             LAMBDA inst : <<AddOperandSizeOverrideToInstructionProto(inst),
                                             AddRexWPrefixToInstructionProto(inst)>>)))

SetccOpcodes == {"9" \o digit : digit \in Hex}
FixAndCleanUpEncodingSpecificationsOfSetInstructions(set) ==
  Ok(ForEach(Without(set, LAMBDA inst : inst.raw \in Raws({<<"REX", "0F", o>> : o \in SetccOpcodes})),
             LAMBDA inst : IF inst.raw \in Raws({<<"0F", o>> : o \in SetccOpcodes})
                           THEN WithSuffix(inst, "/0") ELSE inst))

FixEncodingSpecificationOfXBegin(set) ==
  LET fixed == "rel16" :> Raw(<<"66", "C7", "F8", "cw">>) @@ "rel32" :> Raw(<<"C7", "F8", "cd">>)
      XBegin(inst)  == inst.raw = Raw(<<"C7", "F8">>)
      Fixable(inst) == Len(inst.ops) = 1 /\ inst.ops[1].name \in DOMAIN fixed
  IN  Result(\A i \in DOMAIN set.insts : XBegin(set.insts[i]) => Fixable(set.insts[i]),
             ForEach(set, LAMBDA inst : IF XBegin(inst) /\ Fixable(inst)
                                        THEN [inst EXCEPT !.raw = fixed[inst.ops[1].name]] ELSE inst))

\* Spellings of tokens that the parser does not know.
Respelled == "0f" :> "0F" @@ "0f38" :> "0F38" @@ "0f3a" :> "0F3A" @@ "imm8" :> "ib" @@ "/ib" :> "ib"
Respell(token) == IF token \in DOMAIN Respelled THEN Respelled[token] ELSE token
FixEncodingSpecifications(set) ==
  LET FixVex(v) == [v EXCEPT !.map = Respell(@), !.w = IF v.type = "VEX" /\ @ = "0" THEN "W0" ELSE @]
  IN  Ok(ForEach(set, LAMBDA inst : [inst EXCEPT !.raw =
            [vex    |-> [i \in DOMAIN inst.raw.vex |-> FixVex(inst.raw.vex[i])],
             tokens |-> [i \in DOMAIN inst.raw.tokens |-> Respell(inst.raw.tokens[i])]]]))

\* "(mod)" stands for the restrictions of ModR/M.mod that end some specifications.
DropModRmModDetailsFromEncodingSpecifications(set) ==
  Ok(ForEach(set, LAMBDA inst :
       IF inst.raw.tokens # <<>> /\ inst.raw.tokens[Len(inst.raw.tokens)] = "(mod)"
       THEN [inst EXCEPT !.raw.tokens = Front(@)] ELSE inst))

MissingSuffix ==
  "/r"    :> {"CVTDQ2PD", "VMOVD", "WRSSD", "WRSSQ", "WRUSSD", "WRUSSQ"} @@
  "ib"    :> {"KSHIFT" \o d \o w : d \in {"L", "R"}, w \in {"B", "W", "D", "Q"}}
             \cup {"VFIXUPIMMPS", "VFPCLASSSS", "VRANGESD", "VRANGESS", "VREDUCESD"} @@
  "/vsib" :> {"VGATHERDPD", "VGATHERQPD", "VGATHERDPS", "VGATHERQPS", "VPGATHERDD", "VPGATHERDQ",
              "VPGATHERQD", "VPGATHERQQ"}
AddMissingModRmAndImmediateSpecification(set) ==
  LET MaybeFix(inst, suffix) ==
        IF inst.mnem \in MissingSuffix[suffix]
           /\ (inst.raw.tokens = <<>> \/ inst.raw.tokens[Len(inst.raw.tokens)] # suffix)
        THEN WithSuffix(inst, suffix) ELSE inst
      Empty(inst) == inst.raw = Raw(<<>>) /\ \E s \in DOMAIN MissingSuffix : inst.mnem \in MissingSuffix[s]
  IN  Result(\A i \in DOMAIN set.insts : ~Empty(set.insts[i]),
             ForEach(set, LAMBDA inst : MaybeFix(MaybeFix(MaybeFix(inst, "/r"), "ib"), "/vsib")))

FixRexPrefixSpecification(set) ==
  LET Wrong(o) == Raw(<<"REX", "0F", o, "/r">>)
  IN  Ok(ForEach(set, LAMBDA inst : IF \E o \in {"B2", "B4", "B5", "BE"} : inst.raw = Wrong(o)
                                    THEN [inst EXCEPT !.raw.tokens[1] = "REX.W"] ELSE inst))

\* An instruction whose specification cannot be parsed keeps what it had.
ParseEncodingSpecifications(set) ==
  Result(\A i \in DOMAIN set.insts : ParseOutcome(set.insts[i].raw) = "ok",
         ForEach(set, LAMBDA inst : IF ParseOutcome(inst.raw) = "ok"
                                    THEN [inst EXCEPT !.spec = <<ParseEncodingSpecification(inst.raw)>>]
                                    ELSE inst))

\* x87 opcodes with a stack register in them, and the group opcode with an extension that replaces it.
kReplacements ==
  [first : {"D8", "DC"}, ext : {0, 1, 4, 5, 6, 7}] \cup [first : {"D8"}, ext : {2, 3}]
    \cup [first : {"DE"}, ext : {0, 1, 4, 5, 6, 7}] \cup [first : {"DF"}, ext : {5, 6}]
    \cup [first : {"DD"}, ext : {0, 2, 3, 4, 5}] \cup [first : {"D9"}, ext : {0, 1}]
    \cup [first : {"DA"}, ext : {0, 1, 2, 3}] \cup [first : {"DB"}, ext : {0, 1, 2, 3, 5, 6}]
BaseByte == <<"C0", "C8", "D0", "D8", "E0", "E8", "F0", "F8">>
ConvertEncodingSpecificationOfX87FpuWithDirectAddressing(set) ==
  LET Replacement(inst) == {r \in kReplacements : inst.raw = Raw(<<r.first, BaseByte[r.ext + 1], "+i">>)}
  IN  Ok(ForEach(set, LAMBDA inst :
           IF Replacement(inst) = {} THEN inst
           ELSE LET r == CHOOSE r \in Replacement(inst) : TRUE
                IN  [inst EXCEPT !.raw = Raw(<<r.first, "/" \o ToString(r.ext)>>)]))

AddRexWPrefixedVersionOfStr(set) ==
  LET strs == SelectSeq(set.insts, LAMBDA inst : inst.raw = Raw(<<"0F", "00", "/1">>))
  IN  Ok(IF strs = <<>> THEN set ELSE WithAdded(set, <<AddRexWPrefixToInstructionProto(strs[1])>>))

NormalizeEncodingSpecificationLigFlag(set) ==
  Ok(ForEach(set, LAMBDA inst : [inst EXCEPT !.raw.vex = [i \in DOMAIN @ |->
       [@[i] EXCEPT !.len = IF @ = "LLIG" THEN "LIG" ELSE @]]]))

-----------------------------------------------------------------------------
(* Prefix usage.  An instruction without a parsed specification gets an       *)
(* empty one here; the default pipeline stops before it gets that far.        *)

IsLegacy(inst) == inst.spec # <<>> /\ inst.spec[1].type = "legacy"
\* Instructions with the same opcode and opcode extension are versions of one another.
OpcodeKey(spec) == <<spec.opcode, IF spec.modrm = "EXTENSION" THEN spec.ext ELSE 0>>

\* prefix is "osz" or "rexw".
AddPrefixUsageToLegacyInstructions(prefix, set) ==
  LET known == {OpcodeKey(set.insts[i].spec[1]) : i \in
                  {j \in DOMAIN set.insts : /\ IsLegacy(set.insts[j])
                                            /\ set.insts[j].spec[1].leg[prefix] # "UNKNOWN"}}
      Usage(spec) == IF OpcodeKey(spec) \in known THEN "NOT_PERMITTED" ELSE "IGNORED"
  IN  ForEach(set, LAMBDA inst :
        IF IsLegacy(inst) /\ inst.spec[1].leg[prefix] = "UNKNOWN"
        THEN [inst EXCEPT !.spec[1].leg[prefix] = Usage(inst.spec[1])] ELSE inst)

AddRexWPrefixUsage(set) == Ok(AddPrefixUsageToLegacyInstructions("rexw", set))
=============================================================================
