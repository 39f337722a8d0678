------------------------------- MODULE SdmTables -------------------------------
(***************************************************************************)
(* From the pages of one group to its instructions: the sub-sections, the  *)
(* instruction table and the operand encoding table                        *)
(* (ProcessSubSections of src/exegesis/x86/pdf/intel_sdm_extractor.cc).    *)
(*                                                                         *)
(* The operators below turn a work record into the next one:               *)
(*   ctx    the ParseContext                                               *)
(*   table  the InstructionTable: columns, instructions, cross references  *)
(*   ok     FALSE once a CHECK has failed or LOG(FATAL) was reached        *)
(* A pointer to an instruction is <<section, index>>, both from 1.         *)
(***************************************************************************)
EXTENDS SdmPages

kSgxInstructionMnemonics == {"ENCLS", "ENCLU", "ENCLV"}
NoInstruction == <<0, 0>>

NoSgxInstructions == [main |-> NoInstruction, leaves |-> {}, sections |-> {}]
NewParseContext == [type |-> "REGULAR", section |-> 0, index |-> 0, main |-> "none",
                    registers |-> << >>, sgx |-> [m \in kSgxInstructionMnemonics |-> NoSgxInstructions]]

\* Forgets what belongs to one group.
Reset(ctx) == [NewParseContext EXCEPT !.sgx = ctx.sgx]

NewTable == [columns |-> << >>, instructions |-> << >>, crossrefs |-> << >>]
EmptyInstruction ==
  [mnemonic |-> << >>, operands |-> << >>, raw |-> << >>, scheme |-> << >>, description |-> << >>,
   feature |-> << >>, legacy |-> FALSE, in64 |-> FALSE, leaves |-> << >>]
NewOperand(name) ==
  [name |-> name, encoding |-> "ANY", usage |-> "USAGE_UNKNOWN", value |-> << >>, description |-> << >>]

Check(w, holds) == [w EXCEPT !.ok = @ /\ holds]
LastInstruction(w) == Len(w.table.instructions)

-----------------------------------------------------------------------------
\* The ParseContext.

AddMainSgxInstruction(w, mnemonic) ==
  LET pointer == <<w.ctx.section, w.ctx.index>>
  IN IF mnemonic \notin kSgxInstructionMnemonics THEN Check(w, FALSE)
     ELSE [Check(w, w.ctx.sgx[mnemonic].main \in {NoInstruction, pointer})
            EXCEPT !.ctx.sgx[mnemonic].main = IF @ = NoInstruction THEN pointer ELSE @]

AddLeafSgxInstruction(w, mnemonic) ==
  IF mnemonic \notin kSgxInstructionMnemonics \/ w.ctx.main \notin {"none", mnemonic} THEN Check(w, FALSE)
  ELSE [w EXCEPT !.ctx.main = mnemonic,
                 !.ctx.sgx[mnemonic].leaves = @ \cup {<<w.ctx.section, w.ctx.index>>},
                 !.ctx.sgx[mnemonic].sections = @ \cup {w.ctx.section}]

RegisterEncodings == {<<"EAX">>, <<"EBX">>, <<"RAX">>, <<"RBX">>, <<"RCX">>, <<"RDX">>}

AddRegisterOperand(w, k, name, value, description) ==
  LET operand == [NewOperand(name) EXCEPT !.encoding = "X86_REGISTER", !.value = value, !.description = description]
  IN [Check(w, w.ctx.main # "none" /\ name \in RegisterEncodings)
       EXCEPT !.table.instructions[k].operands = Append(@, operand)]

\* The row for EAX must have been read from the instruction table.
AddRegisterOperandDescription(w, k, name, description) ==
  LET operands == w.table.instructions[k].operands
      checked == Check(w, w.ctx.main # "none" /\ operands # << >> /\ operands[1].name = <<"EAX">>)
  IN IF ~checked.ok THEN checked
     ELSE IF name = <<"EAX">> THEN [w EXCEPT !.table.instructions[k].operands[1].description = description]
     ELSE AddRegisterOperand(w, k, name, << >>, description)

-----------------------------------------------------------------------------
\* Sub-sections.

SubSectionTitles ==
  {"C/C++ Compiler Intrinsic Equivalent", "Description", "Effective Operand Size", "Exceptions (All",
   "64-Bit Mode Exceptions", "Compatibility Mode Exceptions", "Floating-Point Exceptions",
   "Numeric Exceptions", "Other Exceptions", "Protected Mode Exceptions", "Real-Address Mode Exceptions",
   "Virtual-8086 Mode Exceptions", "Flags Affected", "FPU Flags Affected", "Integer Flags Affected",
   "IA-32 Architecture Compatibility", "IA-32 Architecture Legacy Compatibility", "Implementation Notes",
   "Instruction Operand Encoding", "Notes:", "Operation", "IA-32e Mode Operation", "Non-64-Bit Mode Operation"}

GetSubSectionTitle(row) ==
  IF row.blocks = << >> \/ Len(row.blocks) > 2 \/ ~row.title THEN << >>
  ELSE IF row.blocks[1][1] \in {"Table", "Figure", "Example"} THEN << >> ELSE row.blocks[1]

SubSectionType(row) ==
  LET title == GetSubSectionTitle(row)
  IN IF Len(title) = 1 /\ title[1] \in SubSectionTitles THEN title[1] ELSE "UNKNOWN"

\* The first row, the title of the group, opens the instruction table.
ExtractSubSectionRows(pages) ==
  LET rows == FlattenSeq([p \in DOMAIN pages |-> GetPageBodyRows(pages[p])])
      TypeOf(k) == IF k = 1 THEN "INSTRUCTION_TABLE" ELSE SubSectionType(rows[k])
      starts == SetToSortSeq({k \in DOMAIN rows : TypeOf(k) # "UNKNOWN"}, <)
      Last_(s) == IF s = Len(starts) THEN Len(rows) ELSE starts[s + 1] - 1
  IN [s \in DOMAIN starts |->
       [type |-> TypeOf(starts[s]),
        rows |-> [k \in 1 .. Last_(s) - starts[s] |-> rows[starts[s] + k].blocks]]]

-----------------------------------------------------------------------------
\* Cells of the instruction table.

ColumnOf(text) ==
  CASE text = <<"Opcode">> -> "OPCODE"
    [] text = <<"Opcode/", "Instruction">> -> "OPCODE_INSTRUCTION"
    [] text = <<"Instruction">> -> "INSTRUCTION"
    [] text = <<"64/32 bit Mode Support">> -> "MODE_SUPPORT_64_32BIT"
    [] text = <<"64-Bit Mode">> -> "MODE_SUPPORT_64BIT"
    [] text = <<"Compat/Leg Mode">> -> "MODE_COMPAT_LEG"
    [] text = <<"CPUID Feature Flag">> -> "FEATURE_FLAG"
    [] text = <<"Description">> -> "DESCRIPTION"
    [] text = <<"Op/", "En">> -> "OP_EN"
    [] OTHER -> "UNKNOWN"

IsValidMode(text) == text \in {<<"V">>, <<"Valid">>, <<"V", "*">>}

\* Stands for the features that the manual runs together.
AvxFeatures == {"AVX512F", "AVX512VL", "AVX512BW", "GFNI"}
ValidFeatures == AvxFeatures \cup {"SGX1", "AVX", "AES", "CLMUL", "BMI1"}

\* One feature, "NA" for none, or several that are all needed.
FixFeature(text) ==
  IF text = <<"NA">> THEN << >>
  ELSE IF Len(text) > 1 /\ ToSet(text) \subseteq AvxFeatures
  THEN [k \in 1 .. 2 * Len(text) - 1 |-> IF k % 2 = 1 THEN text[(k + 1) \div 2] ELSE "&&"]
  ELSE IF text = <<"PCLMULQDQ">> THEN <<"CLMUL">> ELSE text

FeatureName(text) ==
  [k \in DOMAIN FixFeature(text) |->
     IF FixFeature(text)[k] \in ValidFeatures \cup {"&&", "||"} THEN FixFeature(text)[k] ELSE "<UNKNOWN>"]

FixEncodingSpecification(text) == SelectSeq(text, LAMBDA word : word \notin {"*", ",", "\n"})

\* The instruction with this syntax: a mnemonic and its operands.
WithVendorSyntax(instruction, text) ==
  LET words == SelectSeq(text, LAMBDA word : word \notin {"*", ",", "\n"})
  IN [instruction EXCEPT !.mnemonic = SubSeq(words, 1, 1),
                         !.operands = [k \in 1 .. Len(words) - 1 |-> NewOperand(<<words[k + 1]>>)]]

\* <<"EAX", "=", value, main, "[", leaf, "]">>
ParseLeafSgxOpcodeInstructionCell(w, text) ==
  LET n == LastInstruction(w)
      named == [w EXCEPT !.table.instructions[n].mnemonic = <<text[6]>>]
  IN IF Len(text) # 7 \/ SubSeq(text, 1, 2) # <<"EAX", "=">> THEN Check(w, FALSE)
     ELSE AddRegisterOperand(AddLeafSgxInstruction(named, text[4]), n, <<"EAX">>, <<text[3]>>, << >>)

\* The mnemonic is the word that follows the first line feed.
ParseOpCodeInstructionCell(w, text) ==
  LET n == LastInstruction(w)
      opcode == BeforeWord(text, "\n")
      syntax == SubSeq(text, Len(opcode) + 2, Len(text))
      parsed == [w EXCEPT !.table.instructions[n] =
                   [WithVendorSyntax(@, syntax) EXCEPT !.raw = FixEncodingSpecification(opcode)]]
  IN IF syntax = << >>
     THEN Check([w EXCEPT !.table.instructions[n].raw = <<"<UNKNOWN>">>], w.ctx.type # "SGX")
     ELSE IF w.ctx.type = "SGX" THEN AddMainSgxInstruction(parsed, syntax[1]) ELSE parsed

ParseCell(w, column, text) ==
  LET n == LastInstruction(w)
      left == BeforeWord(text, "/")
      Set(instruction) == [w EXCEPT !.table.instructions[n] = instruction]
      old == w.table.instructions[n]
  IN CASE column = "OPCODE" -> Set([old EXCEPT !.raw = FixEncodingSpecification(text)])
       [] column = "INSTRUCTION" -> Set(WithVendorSyntax(old, text))
       [] column = "OPCODE_INSTRUCTION" /\ w.ctx.type = "LEAF_SGX" -> ParseLeafSgxOpcodeInstructionCell(w, text)
       [] column = "OPCODE_INSTRUCTION" /\ w.ctx.type # "LEAF_SGX" -> ParseOpCodeInstructionCell(w, text)
       [] column = "DESCRIPTION" -> Set([old EXCEPT !.description = text])
       [] column = "MODE_COMPAT_LEG" -> Set([old EXCEPT !.legacy = IsValidMode(text)])
       [] column = "MODE_SUPPORT_64BIT" -> Set([old EXCEPT !.in64 = IsValidMode(text)])
       [] column = "MODE_SUPPORT_64_32BIT" ->
            Set([old EXCEPT !.in64 = IsValidMode(left),
                            !.legacy = IF left = text THEN @
                                       ELSE IsValidMode(SubSeq(text, Len(left) + 2, Len(text)))])
       [] column = "OP_EN" -> Set([old EXCEPT !.scheme = WithoutAsterisks(text)])
       [] column = "FEATURE_FLAG" -> Set([old EXCEPT !.feature = FeatureName(text)])
       [] OTHER -> w

FixVmxInstructionAvailability(w) ==
  LET old == w.table.instructions[LastInstruction(w)]
      only64 == Contains(old.description, "in 64-bit mode")
      never64 == ~only64 /\ Contains(old.description, "outside 64-bit mode")
  IN [Check(w, old.feature = << >>) EXCEPT !.table.instructions[LastInstruction(w)] =
       [old EXCEPT !.feature = <<"VMX">>, !.in64 = ~never64, !.legacy = ~only64]]

-----------------------------------------------------------------------------
\* The instruction table.

\* Rows up to the notes, without the headers that later pages repeat.
TableRows(rows, columns) ==
  LET notes == SelectInSeq(rows, LAMBDA row : row[1][1] = "NOTE")
      inTable == IF notes = 0 THEN rows ELSE SubSeq(rows, 1, notes - 1)
  IN SelectSeq(inTable, LAMBDA row : ColumnOf(row[1]) # columns[1])

\* An instruction on a line of its own goes back to the line before it.
JoinLonelyLines(rows) ==
  LET IsLonely(k) == Len(rows[k]) = 1
      joined == [k \in DOMAIN rows |->
                   IF k < Len(rows) /\ IsLonely(k + 1)
                   THEN [rows[k] EXCEPT ![1] = @ \o <<"\n">> \o rows[k + 1][1]] ELSE rows[k]]
  IN SelectSeq(joined, LAMBDA row : Len(row) # 1)

ParseRow(w, row) ==
  LET n == LastInstruction(w) + 1
      started == [Check(w, Len(row) = Len(w.table.columns))
                   EXCEPT !.ctx.index = n, !.table.instructions = Append(@, EmptyInstruction)]
      Parse(v, cell) == IF v.ok THEN ParseCell(v, cell.column, cell.text) ELSE v
      cells == [c \in DOMAIN row |-> [column |-> w.table.columns[c], text |-> row[c]]]
      parsed == FoldLeft(Parse, started, cells)
  IN IF ~started.ok THEN started
     ELSE IF parsed.ok /\ w.ctx.type = "VMX" THEN FixVmxInstructionAvailability(parsed) ELSE parsed

ParseInstructionTable(w, section) ==
  LET columns == [c \in DOMAIN section.rows[1] |-> ColumnOf(section.rows[1][c])]
      rows == TableRows(Tail(section.rows), columns)
      whole == IF columns[1] = "OPCODE_INSTRUCTION" THEN JoinLonelyLines(rows) ELSE rows
      end == SelectInSeq(whole, LAMBDA row : Len(row) < Len(columns))
      started == [w EXCEPT !.table.columns = columns]
      Parse(v, row) == IF v.ok THEN ParseRow(v, row) ELSE v
  IN IF Len(columns) < 3 THEN started
     ELSE FoldLeft(Parse, started, IF end = 0 THEN whole ELSE SubSeq(whole, 1, end - 1))
=============================================================================
