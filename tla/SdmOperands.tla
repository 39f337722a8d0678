------------------------------ MODULE SdmOperands ------------------------------
(***************************************************************************)
(* The operand encoding tables of a group, and how its instructions get    *)
(* the encodings of their operands from them (ParseOperandEncodingTable    *)
(* and PairOperandEncodings of x86/pdf/intel_sdm_extractor.cc).            *)
(***************************************************************************)
EXTENDS SdmTables

\* A cell is the encoding and, where it has them, the letters of its usage.
Specs ==
  [NA |-> "OE_NA", OPCODE |-> "OE_OPCODE", SIB |-> "OE_SIB", VSIB |-> "OE_VSIB"]
  @@ ("imm8" :> "OE_IMMEDIATE") @@ ("imm8[7:4]" :> "OE_VEX_SUFFIX") @@ ("3" :> "OE_CONSTANT")
  @@ ("ModRM:reg" :> "OE_MOD_REG") @@ ("ModRM:r/m" :> "OE_MOD_RM")
  @@ ("VEX.vvvv" :> "OE_VEX") @@ ("EVEX.vvvv" :> "OE_EVEX_V")
  @@ ("Implicit XMM0" :> "OE_IMPLICIT") @@ ("AX/EAX/RAX" :> "OE_REGISTERS") @@ ("RDX/EDX" :> "OE_REGISTERS2")

AlwaysRead == {"OE_IMMEDIATE", "OE_CONSTANT", "OE_SIB", "OE_VSIB"}
WithUsage == {"OE_MOD_RM", "OE_MOD_REG", "OE_OPCODE", "OE_VEX", "OE_EVEX_V",
              "OE_IMPLICIT", "OE_REGISTERS", "OE_REGISTERS2"}

UsageOf(letters) ==
  CASE letters = {"r"} -> "USAGE_READ"
    [] letters = {"w"} -> "USAGE_WRITE"
    [] letters = {"r", "w"} -> "USAGE_READ_WRITE"
    [] OTHER -> "USAGE_UNKNOWN"

ParseOperandEncodingTableCell(text) ==
  LET spec == IF text # << >> /\ text[1] \in DOMAIN Specs THEN Specs[text[1]] ELSE "OE_NA"
  IN [spec |-> spec,
      usage |-> IF spec \in AlwaysRead THEN "USAGE_READ"
                ELSE IF spec \in WithUsage THEN UsageOf(ToSet(Tail(text))) ELSE "USAGE_UNKNOWN"]

-----------------------------------------------------------------------------
OperandHeaders ==
  {<<"Op/", "En">>, <<"Operand 1">>, <<"Operand 2">>, <<"Operand 3">>, <<"Operand 4">>,
   <<"Tuple", "Type">>, <<"Tuple">>}
LeafSgxHeaders == {<<"Op/", "En">>} \cup RegisterEncodings

\* The type of the table, if this row is its header.  For a leaf function the
\* registers that it names are added to the context, also when a later block
\* turns out not to be a header.
GetOperandEncodingTableHeaderType(ctx, row) ==
  LET valid == IF ctx.type = "LEAF_SGX" THEN LeafSgxHeaders ELSE OperandHeaders
      bad == SelectInSeq(row, LAMBDA text : text \notin valid)
      named == IF bad = 0 THEN row ELSE SubSeq(row, 1, bad - 1)
      registers == SelectSeq(named, LAMBDA text : text # <<"Op/", "En">>)
  IN [type |-> IF bad # 0 THEN "OET_INVALID"
               ELSE IF ctx.type = "LEAF_SGX" THEN "OET_LEAF_SGX"
               ELSE IF \E c \in DOMAIN row : row[c] \in {<<"Tuple", "Type">>, <<"Tuple">>}
               THEN "OET_WITH_TUPLE_TYPE" ELSE "OET_LEGACY",
      ctx |-> IF ctx.type = "LEAF_SGX" THEN [ctx EXCEPT !.registers = @ \o registers] ELSE ctx]

\* The first operand is right of the cross references, without the off by one
\* that a table with tuple types would bring.
FirstOperandIsSecond(type) == 2
FirstOperand(type) == IF type = "OET_LEGACY" THEN 2 ELSE 3

\* A capital letter, then capital letters, digits and dashes.
Capitals == {"A", "B", "C", "D", "E", "F", "G", "H", "I", "J", "K", "L", "M", "N", "O", "P", "Q",
             "R", "S", "T", "U", "V", "W", "X", "Y", "Z"}
DigitsAndDash == {"0", "1", "2", "3", "4", "5", "6", "7", "8", "9", "-"}
IsCrossReference(word) ==
  /\ word # "" /\ SubSeq(word, 1, 1) \in Capitals
  /\ \A k \in 2 .. Len(word) : SubSeq(word, k, k) \in Capitals \cup DigitsAndDash

\* The parts between the commas of a cell that are cross references; any other
\* part, one of several words above all, is bypassed.
CrossReferencesOf(text) ==
  LET AtEnd(k) == k \in {0, Len(text) + 1} \/ text[k] = ","
      named == {k \in DOMAIN text : AtEnd(k - 1) /\ AtEnd(k + 1) /\ IsCrossReference(text[k])}
  IN [k \in 1 .. Cardinality(named) |-> text[SetToSortSeq(named, <)[k]]]

\* A row stands for each of the cross references that its first cell lists.
ParseOperandEncodingTableRow(w, type, row) ==
  LET names == CrossReferencesOf(row[1])
      encodings == [c \in 1 .. Len(row) - FirstOperand(type) + 1 |->
                      ParseOperandEncodingTableCell(row[FirstOperand(type) + c - 1])]
  IN [w EXCEPT !.table.crossrefs = @ \o [k \in DOMAIN names |-> [name |-> names[k], encodings |-> encodings]]]

\* The column of EAX may be split into two.
ParseSgxOperandEncodingTableRow(w, row) ==
  LET count == Len(w.ctx.registers)
      second == IF count = Len(row) - 1 THEN 3 ELSE 4
      eax == IF second = 3 THEN row[2] ELSE row[2] \o <<";">> \o row[3]
      Describe(v, k, name, text) == IF v.ok THEN AddRegisterOperandDescription(v, k, name, text) ELSE v
      DescribeAll(v, k) ==
        FoldLeft(LAMBDA u, c : Describe(u, k, w.ctx.registers[c - second + 2], row[c]),
                 Describe(v, k, <<"EAX">>, eax), [c \in 1 .. Len(row) - second + 1 |-> c + second - 1])
  IN IF count \notin {Len(row) - 1, Len(row) - 2} THEN Check(w, FALSE)
     ELSE FoldLeft(DescribeAll, w, [k \in DOMAIN w.table.instructions |-> k])

ParseOperandEncodingTable(w, section) ==
  LET header == GetOperandEncodingTableHeaderType(w.ctx, section.rows[1])
      width == Len(section.rows[1])
      started == [Check(w, header.type # "OET_INVALID") EXCEPT !.ctx = header.ctx]
      ParseNext(acc, row) ==
        LET again == GetOperandEncodingTableHeaderType(acc.w.ctx, row)
            v == [acc.w EXCEPT !.ctx = again.ctx]
        IN IF acc.stop \/ ~acc.w.ok THEN acc
           ELSE IF again.type = header.type THEN [w |-> v, stop |-> FALSE]
           ELSE IF header.type = "OET_LEAF_SGX" /\ Len(row) >= width
           THEN [w |-> ParseSgxOperandEncodingTableRow(v, row), stop |-> TRUE]
           ELSE IF Len(row) # width THEN [w |-> v, stop |-> TRUE]
           ELSE [w |-> ParseOperandEncodingTableRow(v, header.type, row), stop |-> FALSE]
  IN FoldLeft(ParseNext, [w |-> started, stop |-> FALSE], Tail(section.rows)).w

-----------------------------------------------------------------------------
EncodingOfSpec(spec) ==
  CASE spec = "OE_NA" -> "ANY"
    [] spec = "OE_IMMEDIATE" -> "IMMEDIATE_VALUE"
    [] spec = "OE_OPCODE" -> "OPCODE"
    [] spec \in {"OE_SIB", "OE_MOD_RM"} -> "MODRM_RM"
    [] spec = "OE_MOD_REG" -> "MODRM_REG"
    [] spec \in {"OE_IMPLICIT", "OE_REGISTERS", "OE_REGISTERS2", "OE_CONSTANT"} -> "IMPLICIT"
    [] spec \in {"OE_VEX", "OE_EVEX_V"} -> "VEX_V"
    [] spec = "OE_VSIB" -> "VSIB"
    [] spec = "OE_VEX_SUFFIX" -> "VEX_SUFFIX"

\* The operand encoded as the k-th one of the cross reference.
PairOperand(operand, encodings, k) ==
  [operand EXCEPT !.encoding = EncodingOfSpec(encodings[k].spec),
                  !.usage = IF encodings[k].usage = "USAGE_UNKNOWN" THEN @ ELSE encodings[k].usage]

\* Looks every instruction up by its scheme.  A cross reference that the tables
\* define twice encodes nothing; one row must encode as many operands as the
\* instructions have that name it.
PairOperandEncodings(w) ==
  LET crossrefs == w.table.crossrefs
      Named(scheme) == {c \in DOMAIN crossrefs : <<crossrefs[c].name>> = scheme}
      Pair(instruction) ==
        LET rows == Named(instruction.scheme)
        IN IF Cardinality(rows) # 1
           THEN [instruction EXCEPT !.operands =
                  [k \in DOMAIN @ |-> IF rows = {} THEN @[k] ELSE [@[k] EXCEPT !.encoding = "ANY"]]]
           ELSE [instruction EXCEPT !.operands =
                  [k \in DOMAIN @ |-> PairOperand(@[k], crossrefs[Min(rows)].encodings, k)]]
      WideEnough(instruction) ==
        \A c \in Named(instruction.scheme) :
          Cardinality(Named(instruction.scheme)) = 1 => Len(instruction.operands) <= Len(crossrefs[c].encodings)
      ReadWrite(instruction) ==
        [instruction EXCEPT !.operands = [k \in DOMAIN @ |-> [@[k] EXCEPT !.usage = "USAGE_READ_WRITE"]]]
  IN IF crossrefs = << >> /\ w.ctx.type = "LEAF_SGX" THEN w
     ELSE IF crossrefs = << >> /\ w.ctx.type = "VMX"
     THEN [w EXCEPT !.table.instructions = [k \in DOMAIN @ |-> ReadWrite(@[k])]]
     ELSE IF \A k \in DOMAIN w.table.instructions : WideEnough(w.table.instructions[k])
     THEN [w EXCEPT !.table.instructions = [k \in DOMAIN @ |-> Pair(@[k])]]
     ELSE Check(w, FALSE)

\* The sub-sections that are not empty, in order.
PairUnlessDead(w) == IF w.ok THEN PairOperandEncodings(w) ELSE w
ProcessSubSections(w, sections) ==
  LET Process(v, section) ==
        IF ~v.ok \/ section.rows = << >> THEN v
        ELSE CASE section.type = "INSTRUCTION_TABLE" -> ParseInstructionTable(v, section)
               [] section.type = "Instruction Operand Encoding" -> ParseOperandEncodingTable(v, section)
               [] OTHER -> v
  IN PairUnlessDead(FoldLeft(Process, w, sections))
=============================================================================
