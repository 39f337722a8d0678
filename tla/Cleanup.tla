------------------------------- MODULE Cleanup --------------------------------
(****************************************************************************)
(* The default pipeline that turns the instruction set of the manual into    *)
(* the instruction database (base/cleanup_instruction_set.cc).  Transforms   *)
(* register themselves with a rank when their object file is initialized;    *)
(* the pipeline runs them by rank and, within one rank, in the order of      *)
(* registration: within a file the order of the file, between files the      *)
(* order in which the program was linked.                                    *)
(****************************************************************************)
EXTENDS CleanupChecks

CONSTANTS Inputs,      \* the instruction sets the manual may list
          LinkOrders,  \* the orders of the object files
          HashOrders   \* the iteration orders of a hash set of operand encodings

\* REGISTER_INSTRUCTION_SET_TRANSFORM, file by file.
Registrations ==
  [removals |->
     << <<"RemoveDuplicateInstructions", 4000>>, <<"RemoveEmptyInstructionGroups", 8000>>,
        <<"RemoveLegacyVersionsOfInstructions", 0>>, <<"RemoveInstructionsWaitingForFpuSync", 0>>,
        <<"RemoveNonEncodableInstructions", 110>>, <<"RemoveRepAndRepneInstructions", 0>>,
        <<"RemoveSpecialCaseInstructions", 0>>, <<"RemoveDuplicateInstructionsWithRexPrefix", 1005>>,
        <<"RemoveDuplicateMovFromSReg", 0>>, <<"RemoveX87InstructionsWithGeneralVersions", 0>> >>,
   missing |-> << <<"AddMissingFfreepInstruction", 0>> >>,
   properties |-> << <<"AddMissingCpuFlags", 1000>>, <<"AddProtectionModes", 1000>>,
                     <<"FixAvailableIn64Bits", 100>> >>,
   encoding |->
     << <<"AddMissingMemoryOffsetEncoding", 1000>>, <<"FixEncodingSpecificationOfPopFsAndGs", 1000>>,
        <<"FixEncodingSpecificationOfPushFsAndGs", 1000>>,
        <<"FixAndCleanUpEncodingSpecificationsOfSetInstructions", 1000>>,
        <<"FixEncodingSpecificationOfXBegin", 1000>>, <<"FixEncodingSpecifications", 1000>>,
        <<"DropModRmModDetailsFromEncodingSpecifications", 1000>>,
        <<"AddMissingModRmAndImmediateSpecification", 1000>>, <<"FixRexPrefixSpecification", 1000>>,
        <<"ParseEncodingSpecifications", 1010>>,
        <<"ConvertEncodingSpecificationOfX87FpuWithDirectAddressing", 1005>>,
        <<"AddRexWPrefixedVersionOfStr", 1000>>, <<"NormalizeEncodingSpecificationLigFlag", 1000>> >>,
   rex |-> << <<"AddRexWPrefixUsage", 1020>> >>,
   fix_operands |->
     << <<"FixOperandsOfCmpsAndMovs", 2000>>, <<"FixOperandsOfInsAndOuts", 2000>>,
        <<"FixOperandsOfLddqu", 2000>>, <<"FixOperandsOfLodsScasAndStos", 2000>>,
        <<"FixOperandsOfSgdtAndSidt", 2000>>, <<"FixOperandsOfVMovq", 2000>>, <<"FixRegOperands", 2000>>,
        <<"RenameOperands", 2000>>, <<"RemoveImplicitST0Operand", 2000>>, <<"RemoveImplicitOperands", 2000>> >>,
   operand_size_override |->
     << <<"AddOperandSizeOverrideToInstructionsWithImplicitOperands", 3000>>,
        <<"AddOperandSizeOverrideToSpecialCaseInstructions", 3000>>, <<"AddOperandSizeOverridePrefix", 5000>>,
        <<"AddOperandSizeOverridePrefixUsage", 5010>>,
        <<"AddOperandSizeOverrideVersionForSpecialCaseInstructions", 3000>> >>,
   operand_info |->
     << <<"AddVmxOperandInfo", 999>>, <<"FixVmFuncOperandInfo", 998>>, <<"AddMovdir64BOperandInfo", 999>>,
        <<"AddUmonitorOperandInfo", 999>>, <<"AddRegisterClassToOperands", 7000>>, <<"AddOperandInfo", 4000>>,
        <<"AddMissingOperandUsage", 8000>>, <<"AddMissingOperandUsageToVblendInstructions", 8000>>,
        <<"AddMissingVexVOperandUsage", 3900>> >>,
   evex |-> << <<"AddEvexBInterpretation", 5500>>, <<"AddEvexOpmaskUsage", 5500>>,
               <<"AddEvexPseudoOperands", 5500>> >>,
   alternatives |-> << <<"AddAlternatives", 6000>> >>,
   base |-> << <<"SortByVendorSyntax", 7000>> >>,
   checks |-> << <<"CheckOperandInfo", 10000>>, <<"CheckSpecialCaseInstructions", 10000>>,
                 <<"CheckHasVendorSyntax", 10000>> >>]

ASSUME LinkOrdersAssumption ==
  \A order \in LinkOrders : ToSet(order) = DOMAIN Registrations /\ Len(order) = Cardinality(ToSet(order))

\* GetDefaultTransformPipeline: a multimap by rank keeps the order of insertion of equal ranks.
Pipeline(linkOrder) ==
  LET all   == FlattenSeq([i \in DOMAIN linkOrder |-> Registrations[linkOrder[i]]])
      order == SortSeq([i \in DOMAIN all |-> i], LAMBDA i, j : \/ all[i][2] < all[j][2]
                                                               \/ all[i][2] = all[j][2] /\ i < j)
  IN  [i \in DOMAIN order |-> all[order[i]][1]]

\* The effect of one transform.
Transform(name, hashOrder, s) ==
  CASE name = "RemoveDuplicateInstructions" -> RemoveDuplicateInstructions(s)
    [] name = "RemoveEmptyInstructionGroups" -> RemoveEmptyInstructionGroups(s)
    [] name = "RemoveLegacyVersionsOfInstructions" -> RemoveLegacyVersionsOfInstructions(s)
    [] name = "RemoveInstructionsWaitingForFpuSync" -> RemoveInstructionsWaitingForFpuSync(s)
    [] name = "RemoveNonEncodableInstructions" -> RemoveNonEncodableInstructions(s)
    [] name = "RemoveRepAndRepneInstructions" -> RemoveRepAndRepneInstructions(s)
    [] name = "RemoveSpecialCaseInstructions" -> RemoveSpecialCaseInstructions(s)
    [] name = "RemoveDuplicateInstructionsWithRexPrefix" -> RemoveDuplicateInstructionsWithRexPrefix(s)
    [] name = "RemoveDuplicateMovFromSReg" -> RemoveDuplicateMovFromSReg(s)
    [] name = "RemoveX87InstructionsWithGeneralVersions" -> RemoveX87InstructionsWithGeneralVersions(s)
    [] name = "AddMissingFfreepInstruction" -> AddMissingFfreepInstruction(s)
    [] name = "AddMissingCpuFlags" -> AddMissingCpuFlags(s)
    [] name = "AddProtectionModes" -> AddProtectionModes(s)
    [] name = "FixAvailableIn64Bits" -> FixAvailableIn64Bits(s)
    [] name = "AddMissingMemoryOffsetEncoding" -> AddMissingMemoryOffsetEncoding(s)
    [] name = "FixEncodingSpecificationOfPopFsAndGs" -> FixEncodingSpecificationOfPopFsAndGs(s)
    [] name = "FixEncodingSpecificationOfPushFsAndGs" -> FixEncodingSpecificationOfPushFsAndGs(s)
    [] name = "FixAndCleanUpEncodingSpecificationsOfSetInstructions" ->
         FixAndCleanUpEncodingSpecificationsOfSetInstructions(s)
    [] name = "FixEncodingSpecificationOfXBegin" -> FixEncodingSpecificationOfXBegin(s)
    [] name = "FixEncodingSpecifications" -> FixEncodingSpecifications(s)
    [] name = "DropModRmModDetailsFromEncodingSpecifications" -> DropModRmModDetailsFromEncodingSpecifications(s)
    [] name = "AddMissingModRmAndImmediateSpecification" -> AddMissingModRmAndImmediateSpecification(s)
    [] name = "FixRexPrefixSpecification" -> FixRexPrefixSpecification(s)
    [] name = "ParseEncodingSpecifications" -> ParseEncodingSpecifications(s)
    [] name = "ConvertEncodingSpecificationOfX87FpuWithDirectAddressing" ->
         ConvertEncodingSpecificationOfX87FpuWithDirectAddressing(s)
    [] name = "AddRexWPrefixedVersionOfStr" -> AddRexWPrefixedVersionOfStr(s)
    [] name = "NormalizeEncodingSpecificationLigFlag" -> NormalizeEncodingSpecificationLigFlag(s)
    [] name = "AddRexWPrefixUsage" -> AddRexWPrefixUsage(s)
    [] name = "FixOperandsOfCmpsAndMovs" -> FixOperandsOfCmpsAndMovs(s)
    [] name = "FixOperandsOfInsAndOuts" -> FixOperandsOfInsAndOuts(s)
    [] name = "FixOperandsOfLddqu" -> FixOperandsOfLddqu(s)
    [] name = "FixOperandsOfLodsScasAndStos" -> FixOperandsOfLodsScasAndStos(s)
    [] name = "FixOperandsOfSgdtAndSidt" -> FixOperandsOfSgdtAndSidt(s)
    [] name = "FixOperandsOfVMovq" -> FixOperandsOfVMovq(s)
    [] name = "FixRegOperands" -> FixRegOperands(s)
    [] name = "RenameOperands" -> RenameOperands(s)
    [] name = "RemoveImplicitST0Operand" -> RemoveImplicitST0Operand(s)
    [] name = "RemoveImplicitOperands" -> RemoveImplicitOperands(s)
    [] name = "AddOperandSizeOverrideToInstructionsWithImplicitOperands" ->
         AddOperandSizeOverrideToInstructionsWithImplicitOperands(s)
    [] name = "AddOperandSizeOverrideToSpecialCaseInstructions" ->
         AddOperandSizeOverrideToSpecialCaseInstructions(s)
    [] name = "AddOperandSizeOverridePrefix" -> AddOperandSizeOverridePrefix(s)
    [] name = "AddOperandSizeOverridePrefixUsage" -> AddOperandSizeOverridePrefixUsage(s)
    [] name = "AddOperandSizeOverrideVersionForSpecialCaseInstructions" ->
         AddOperandSizeOverrideVersionForSpecialCaseInstructions(s)
    [] name = "AddVmxOperandInfo" -> AddVmxOperandInfo(s)
    [] name = "FixVmFuncOperandInfo" -> FixVmFuncOperandInfo(s)
    [] name = "AddMovdir64BOperandInfo" -> AddMovdir64BOperandInfo(s)
    [] name = "AddUmonitorOperandInfo" -> AddUmonitorOperandInfo(s)
    [] name = "AddRegisterClassToOperands" -> AddRegisterClassToOperands(s)
    [] name = "AddOperandInfo" -> AddOperandInfo(hashOrder, s)
    [] name = "AddMissingOperandUsage" -> AddMissingOperandUsage(s)
    [] name = "AddMissingOperandUsageToVblendInstructions" -> AddMissingOperandUsageToVblendInstructions(s)
    [] name = "AddMissingVexVOperandUsage" -> AddMissingVexVOperandUsage(s)
    [] name = "AddEvexBInterpretation" -> AddEvexBInterpretation(s)
    [] name = "AddEvexOpmaskUsage" -> AddEvexOpmaskUsage(s)
    [] name = "AddEvexPseudoOperands" -> AddEvexPseudoOperands(s)
    [] name = "AddAlternatives" -> AddAlternatives(s)
    [] name = "SortByVendorSyntax" -> SortByVendorSyntax(s)
    [] name = "CheckOperandInfo" -> CheckOperandInfo(s)
    [] name = "CheckSpecialCaseInstructions" -> CheckSpecialCaseInstructions(s)
    [] name = "CheckHasVendorSyntax" -> CheckHasVendorSyntax(s)

VARIABLES input,     \* the instruction set as the manual lists it
          linkOrder, hashOrder,
          set,       \* the instruction set so far
          left,      \* the transforms that have not run yet
          status     \* "running", "done" or "failed"
cleanupVars == <<input, linkOrder, hashOrder, set, left, status>>

CleanupInit ==
  /\ input \in Inputs /\ linkOrder \in LinkOrders /\ hashOrder \in HashOrders
  /\ set = input /\ left = Pipeline(linkOrder) /\ status = "running"

\* RunTransformPipeline runs the next transform and returns at the first error.
RunTransform ==
  /\ status = "running" /\ left # <<>>
  /\ \E r \in {Transform(Head(left), hashOrder, set)} :
       /\ set' = r.set
       /\ left' = Tail(left)
       /\ status' = IF ~r.ok THEN "failed" ELSE IF Tail(left) = <<>> THEN "done" ELSE "running"
  /\ UNCHANGED <<input, linkOrder, hashOrder>>

-----------------------------------------------------------------------------
Final == [i \in {j \in DOMAIN set.insts : status = "done"} |-> set.insts[i]]

\* Neither the order in which the object files were linked nor the iteration order of the hash set of
\* encodings shows in the database that the pipeline of transforms makes.
Outcome(order, hash) ==
  FoldLeft(LAMBDA r, name : IF r.ok THEN Transform(name, hash, r.set) ELSE r, Ok(input), Pipeline(order))
SameForEveryBuild ==
  status # "running" => LET reference == Outcome(CHOOSE o \in LinkOrders : TRUE, CHOOSE h \in HashOrders : TRUE)
                        IN  reference.ok = (status = "done") /\ (reference.ok => reference.set = set)

\* In the finished database every operand that is encoded in the instruction's bytes has a place of its
\* own among those that the parsed encoding specification offers.
ExplicitEncodings(inst) == LET es == [i \in DOMAIN inst.ops |-> inst.ops[i].enc]
                           IN  SelectSeq(es, LAMBDA e : ~IsImplicit(e) /\ e # "STATIC_PROPERTY")
EveryOperandHasAPlace ==
  \A i \in DOMAIN Final :
    LET taken     == ExplicitEncodings(Final[i])
        available == GetAvailableEncodings(Final[i].spec[1])
    IN  \A e \in ToSet(taken) : BagIn(e, available) /\ CopiesIn(e, available) >= Len(SelectSeq(taken, LAMBDA x : x = e))

\* The parsed specification of a finished legacy instruction requires exactly the operand size and REX.W
\* prefixes that its raw specification lists, whatever transforms changed the two.
SpecAgreesWithRaw ==
  \A i \in DOMAIN Final : IsLegacy(Final[i]) =>
    /\ ("66" \in ToSet(Final[i].raw.tokens)) = (Final[i].spec[1].leg.osz = "REQUIRED")
    /\ ("REX.W" \in ToSet(Final[i].raw.tokens)) = (Final[i].spec[1].leg.rexw = "REQUIRED")

\* Two finished versions of one instruction whose register operands differ in width can be told apart by
\* their prefixes.
Width == [r8 |-> 8, r16 |-> 16, r32 |-> 32, r64 |-> 64, AX |-> 16, EAX |-> 32, RAX |-> 64]
DifferInWidth(a, b) == \E i \in DOMAIN a.ops \cap DOMAIN b.ops :
  /\ {a.ops[i].name, b.ops[i].name} \subseteq DOMAIN Width /\ Width[a.ops[i].name] # Width[b.ops[i].name]
  /\ a.ops[i].enc = b.ops[i].enc
WidthsAreDistinct ==
  \A i, j \in DOMAIN Final :
    /\ IsLegacy(Final[i]) /\ IsLegacy(Final[j]) /\ DifferInWidth(Final[i], Final[j])
    /\ Final[i].mnem = Final[j].mnem /\ OpcodeKey(Final[i].spec[1]) = OpcodeKey(Final[j].spec[1])
    => Final[i].spec[1].leg # Final[j].spec[1].leg
=============================================================================
