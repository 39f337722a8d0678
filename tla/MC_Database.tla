----------------------------- MODULE MC_Database -----------------------------
(* From the manual to the instruction database, each behaviour one half of the way: a small manual is  *)
(* read, or a set of instructions that a manual may list is cleaned up.                                *)
EXTENDS Cleanup, SdmExtractor

VARIABLE part

\* Nothing to read, nothing to clean up.
SdmIdle ==
  /\ manual = [groups |-> << >>, pages |-> << >>] /\ page = 1 /\ idToPages = << >> /\ ctx = NewParseContext
  /\ sections = << >> /\ relocated = 0 /\ phase = "idle"
  /\ instructionSet = [instructions |-> << >>, groups |-> << >>]
CleanupIdle == /\ input = [insts |-> << >>, groups |-> << >>] /\ linkOrder = << >> /\ hashOrder = << >>
               /\ set = input /\ left = << >> /\ status = "running"

Init == \/ part = "manual" /\ SdmInit /\ CleanupIdle
        \/ part = "pipeline" /\ CleanupInit /\ SdmIdle
Next == /\ UNCHANGED part
        /\ \/ part = "manual" /\ SdmNext /\ UNCHANGED cleanupVars
           \/ part = "pipeline" /\ RunTransform /\ UNCHANGED sdmVars
Spec == Init /\ [][Next]_<<part, cleanupVars, sdmVars>>

-----------------------------------------------------------------------------
(* What the tables of the manual say of a few instructions, picked for the transforms that change them. *)

ByModRm(name, usage)  == Named(name, "MODRM_RM", usage)
InReg(name, usage)    == Named(name, "MODRM_REG", usage)
InVexV(name)          == Named(name, "VEX_V", "READ")
Unknown(name)         == Named(name, "ANY", "READ_WRITE")

Instr(mnem, ops, tokens, scheme) ==
  [NewInstruction EXCEPT !.mnem = mnem, !.ops = ops, !.raw = Raw(tokens), !.scheme = scheme, !.avail = TRUE]
VexInstr(mnem, ops, vex, tokens, scheme) == [Instr(mnem, ops, tokens, scheme) EXCEPT !.raw.vex = <<vex>>]
Vex(type, dir, len, pfx, map, w) == [type |-> type, dir |-> dir, len |-> len, pfx |-> pfx, map |-> map, w |-> w]

Add(size, tokens) == Instr("ADD", <<ByModRm("r/m" \o size, "READ_WRITE"), InReg("r" \o size, "READ")>>, tokens, "MR")
ADDs == <<Add("8", <<"00", "/r">>), Add("8", <<"REX", "00", "/r">>), Add("16", <<"01", "/r">>),
          Add("32", <<"01", "/r">>), Add("64", <<"REX.W", "01", "/r">>)>>
\* Versions that differ in their immediate value too.
AddImm(size, imm, tokens) ==
  Instr("ADD", <<ByModRm("r/m" \o size, "READ_WRITE"), Named(imm, "IMMEDIATE", "READ")>>, tokens, "MI")
ADDIs == <<AddImm("16", "imm16", <<"81", "/0", "iw">>), AddImm("32", "imm32", <<"81", "/0", "id">>)>>
VADDs == <<VexInstr("VADDPS", <<InReg("xmm1", "WRITE"), InVexV("xmm2"), ByModRm("xmm3/m128", "READ")>>,
                    Vex("VEX", "NDS", "128", "", "0F", "WIG"), <<"58", "/r">>, "RVM"),
           VexInstr("VADDPS", <<[InReg("zmm1", "WRITE") EXCEPT !.tags = <<"k1", "z">>], InVexV("zmm2"),
                                [ByModRm("zmm3/m512/m32bcst", "READ") EXCEPT !.tags = <<"er">>]>>,
                    Vex("EVEX", "NDS", "512", "", "0F", "W0"), <<"58", "/r">>, "RVM")>>
\* The operands of VMX instructions have no encodings; those of the VEX one have lost theirs.
VMXs  == <<[Instr("VMREAD", <<Unknown("r/m64"), Unknown("r64")>>, <<"NP", "0F", "78", "/r">>, "") EXCEPT !.feature = "VMX"],
           [Instr("INVEPT", <<Unknown("r64"), Unknown("m128")>>, <<"66", "0F", "38", "80">>, "") EXCEPT !.feature = "VMX"],
           [Instr("VMPTRLD", <<Unknown("m64")>>, <<"NP", "0F", "C7", "/6">>, "") EXCEPT !.feature = "VMX"]>>
LOST  == <<VexInstr("VANDNPS", <<Named("xmm1", "ANY", "WRITE"), Named("xmm2", "ANY", "READ"), Named("xmm3/m128", "ANY", "READ")>>,
                    Vex("VEX", "", "128", "", "0f", "WIG"), <<"55", "/r">>, "RVM"),
           Instr("MOVQ", <<Named("mm", "ANY", "WRITE"), Named("mm/m64", "ANY", "READ")>>, <<"0F", "6F", "/r">>, "RM")>>
\* The /r of the specification is missing.
TYPO  == <<Instr("MOVQ", <<InReg("mm", "WRITE"), ByModRm("mm/m64", "READ")>>, <<"0F", "6F">>, "RM")>>
SEGs  == <<[Instr("POP", <<Named("FS", "IMPLICIT", "WRITE")>>, <<"0F", "A1">>, "NP") EXCEPT !.desc = "16 bits"],
           [Instr("POP", <<Named("FS", "IMPLICIT", "WRITE")>>, <<"0F", "A1">>, "NP") EXCEPT !.desc = "64 bits"],
           Instr("PUSH", <<Named("GS", "IMPLICIT", "READ")>>, <<"0F", "A8">>, "NP")>>
STRs  == <<Instr("STR", <<ByModRm("r/m16", "WRITE")>>, <<"0F", "00", "/1">>, "M"),
           Instr("SLDT", <<ByModRm("r/m16", "WRITE")>>, <<"0F", "00", "/0">>, "M"),
           Instr("SLDT", <<ByModRm("r64/m16", "WRITE")>>, <<"REX.W", "0F", "00", "/0">>, "M")>>
MOFFS == <<Instr("MOV", <<Named("AX", "IMPLICIT", "WRITE"), Named("moffs16", "IMMEDIATE", "READ")>>, <<"A1">>, "FD"),
           Instr("MOV", <<Named("EAX", "IMPLICIT", "WRITE"), Named("moffs32", "IMMEDIATE", "READ")>>, <<"A1">>, "FD"),
           Instr("MOV", <<Named("RAX", "IMPLICIT", "WRITE"), Named("moffs64", "IMMEDIATE", "READ")>>, <<"REX.W", "A1">>, "FD")>>
X87s  == <<Instr("FADD", <<Named("ST(0)", "IMPLICIT", "UNKNOWN"), Named("ST(i)", "ANY", "UNKNOWN")>>, <<"D8", "C0", "+i">>, ""),
           Instr("FMUL", <<ByModRm("m32fp", "UNKNOWN")>>, <<"D8", "/1">>, ""),
           Instr("FSTCW", <<ByModRm("m2byte", "UNKNOWN")>>, <<"9B", "D9", "/7">>, "")>>
MOVSs == <<Instr("MOVS", <<Named("m16", "IMPLICIT", "UNKNOWN"), Named("m16", "IMPLICIT", "UNKNOWN")>>, <<"A5">>, "NP"),
            Instr("STOS", <<Named("m32", "IMPLICIT", "WRITE")>>, <<"AB">>, "NP"),
            Instr("MOVSW", <<>>, <<"A5">>, "NP"),
            Instr("REP MOVS", <<Named("m16", "IMPLICIT", "UNKNOWN"), Named("m16", "IMPLICIT", "UNKNOWN")>>, <<"F3", "A5">>, "NP")>>
POPs  == <<Instr("POP", <<Named("r16", "OPCODE", "WRITE")>>, <<"58", "+rw">>, "O"),
           Instr("POP", <<Named("r64", "OPCODE", "WRITE")>>, <<"58", "+rd">>, "O"),
           Instr("POP", <<ByModRm("r/m16", "WRITE")>>, <<"8F", "/0">>, "M"),
           Instr("POP", <<ByModRm("r/m64", "WRITE")>>, <<"8F", "/0">>, "M")>>
SETs  == <<Instr("SETB", <<ByModRm("r/m8", "WRITE")>>, <<"0F", "92">>, "M"),
           Instr("SETB", <<ByModRm("r/m8", "WRITE")>>, <<"REX", "0F", "92">>, "M"),
           Instr("PEXTRB", <<ByModRm("reg/m8", "WRITE"), InReg("xmm2", "READ"), Named("imm8", "IMMEDIATE", "READ")>>,
                 <<"66", "0F", "3A", "14", "/r", "ib">>, "MRI")>>
XBEGIN == <<Instr("XBEGIN", <<Named("rel16", "IMMEDIATE", "READ")>>, <<"C7", "F8">>, "D"),
            Instr("XBEGIN", <<Named("rel32", "IMMEDIATE", "READ")>>, <<"C7", "F8">>, "D")>>
LAR   == <<Instr("LAR", <<InReg("r16", "WRITE"), ByModRm("r16/m16", "READ")>>, <<"0F", "02", "/r">>, "RM"),
           Instr("LAR", <<InReg("reg", "WRITE"), ByModRm("r32/m16", "READ")>>, <<"0F", "02", "/r">>, "RM")>>

OneGroup(insts) == [insts |-> insts, groups |-> <<"GROUP">>]
MC_Inputs == {OneGroup(p[1] \o p[2]) : p \in
                {<<ADDs, ADDIs>>, <<VADDs, LOST>>, <<VMXs, XBEGIN>>, <<SEGs, STRs>>, <<MOFFS, X87s>>,
                 <<MOVSs, SETs>>, <<POPs, <<>> >>, <<ADDs, TYPO>>}}
LarInputs    == {OneGroup(LAR)}

Files == <<"removals", "missing", "properties", "encoding", "rex", "fix_operands", "operand_size_override",
           "operand_info", "evex", "alternatives", "base", "checks">>
MC_LinkOrders == {Files, Reverse(Files)}
Encodings == <<"MODRM_REG", "MODRM_RM", "OPCODE", "VEX_V", "VEX_SUFFIX", "VSIB", "IMMEDIATE">>
MC_HashOrders == {Encodings, Reverse(Encodings)}

-----------------------------------------------------------------------------
(* Small manuals: a few groups of each chapter, in the layouts that the code distinguishes. *)

Row(blocks)  == [body |-> TRUE, high |-> FALSE, title |-> FALSE, blocks |-> blocks]
Heading(text) == [body |-> TRUE, high |-> FALSE, title |-> TRUE, blocks |-> <<text>>]
Title(text)  == [body |-> TRUE, high |-> TRUE, title |-> TRUE, blocks |-> <<text>>]
Margin(blocks) == [body |-> FALSE, high |-> TRUE, title |-> TRUE, blocks |-> blocks]

\* A page: chapter, body, and the name of the group on the outer side of the footer.
Page(chapter, footer, rows) == [chapter |-> chapter, footer |-> footer, rows |-> rows]
PrintPages(pages) ==
  [p \in DOMAIN pages |->
    [number |-> p,
     rows |-> <<Margin(<<pages[p].chapter>>)>> \o pages[p].rows
              \o <<Margin(IF p % 2 = 0 THEN << <<"Vol. 2">>, pages[p].footer>> ELSE <<pages[p].footer, <<"Vol. 2">> >>)>>]]

Ref == <<"INSTRUCTION SET REFERENCE", "A-L">>
Vmx == <<"VMX INSTRUCTION REFERENCE">>
Sgx == <<"SGX INSTRUCTION REFERENCE">>

OpEn == <<"Op/", "En">>
FiveColumns == Row(<< <<"Opcode/", "Instruction">>, OpEn, <<"64/32 bit Mode Support">>, <<"CPUID Feature Flag">>, <<"Description">> >>)
SixColumns  == Row(<< <<"Opcode">>, <<"Instruction">>, OpEn, <<"64-Bit Mode">>, <<"Compat/Leg Mode">>, <<"Description">> >>)
Both == <<"V", "/", "V">>
Five(cell, scheme, feature) == Row(<<cell, <<scheme>>, Both, feature, <<"text">> >>)
Six(opcode, syntax, scheme) == Row(<<opcode, syntax, <<scheme, "*">>, <<"Valid">>, <<"Valid">>, <<"text">> >>)
Operands == Heading(<<"Instruction Operand Encoding">>)
Operand(n) == <<"Operand " \o n>>
Reg(letters) == <<"ModRM:reg">> \o letters
Rm(letters)  == <<"ModRM:r/m">> \o letters
NA == <<"NA">>

Group(name, type, entries, pages) == [name |-> name, type |-> type, entries |-> entries, pages |-> pages]
Entry_(mnemonic, names, spec, main) ==
  [mnemonic |-> <<mnemonic>>, names |-> [k \in DOMAIN names |-> <<names[k]>>], spec |-> spec, main |-> main]

\* The table goes on on the second page, with its header repeated, and ends with notes.
BTName == <<"BT", "-", "Bit", "Test">>
BT == Group(BTName, "REGULAR",
  <<Entry_("BT", <<"r/m16", "r16">>, <<Rm(<<"r">>), Reg(<<"r">>)>>, << >>),
    Entry_("BT", <<"r/m16", "imm8">>, <<Rm(<<"r">>), <<"imm8">> >>, << >>)>>,
  <<Page(Ref, BTName, <<Title(BTName), SixColumns, Six(<<"0F", "A3">>, <<"BT", "r/m16", "r16">>, "MR")>>),
    Page(Ref, BTName \o <<"*">>,
         <<SixColumns, Six(<<"0F", "BA", "/4">>, <<"BT", "r/m16", "imm8">>, "MI"), Row(<< <<"NOTE", "1">> >>),
           Operands, Row(<<OpEn, Operand("1"), Operand("2")>>), Row(<< <<"MR">>, Rm(<<"r">>), Reg(<<"r">>)>>),
           Row(<< <<"MI">>, Rm(<<"r">>), <<"imm8">> >>), Heading(<<"Flags Affected">>), Row(<< <<"CF">> >>)>>)>>)

\* An instruction on a line of its own, features that run together, tuple types, and a row for two schemes.
VADDName == <<"VADDPS", "-", "Add">>
VADD == Group(VADDName, "REGULAR",
  <<Entry_("VADDPS", <<"xmm1", "xmm2", "m128">>, <<Reg(<<"w">>), <<"EVEX.vvvv", "r">>, Rm(<<"r">>)>>, << >>),
    Entry_("VADDPS", <<"ymm1", "ymm2", "m256">>, <<Reg(<<"w">>), <<"EVEX.vvvv", "r">>, Rm(<<"r">>)>>, << >>)>>,
  <<Page(Ref, VADDName,
         <<Title(VADDName), FiveColumns, Five(<<"EVEX.128", "58">>, "A", <<"AVX512VL", "AVX512F">>),
           Row(<< <<"VADDPS", "xmm1", "xmm2", "m128">> >>),
           Five(<<"EVEX.256", "58", "\n", "VADDPS", "ymm1", "ymm2", "m256">>, "B", <<"AVX">>),
           Operands, Row(<<OpEn, <<"Tuple", "Type">>, Operand("1"), Operand("2"), Operand("3")>>),
           Row(<< <<"A", ",", "B">>, <<"Full">>, Reg(<<"w">>), <<"EVEX.vvvv", "r">>, Rm(<<"r">>)>>)>>)>>)

\* The table defines O twice; the row after them is not one of M.
PUSHName == <<"PUSH", "-", "Push">>
PUSH == Group(PUSHName, "REGULAR",
  <<Entry_("PUSH", <<"r64">>, <<NA>>, << >>), Entry_("PUSH", <<"r/m64">>, <<Rm(<<"r">>)>>, << >>)>>,
  <<Page(Ref, PUSHName,
         <<Title(PUSHName), SixColumns, Six(<<"50", "+rd">>, <<"PUSH", "r64">>, "O"),
           Six(<<"FF", "/6">>, <<"PUSH", "r/m64">>, "M"), Operands, Row(<<OpEn, Operand("1")>>),
           Row(<< <<"O">>, <<"OPCODE", "r">> >>), Row(<< <<"O">>, <<"imm8">> >>),
           Row(<< <<"M", "in 64-bit mode">>, <<"imm8">> >>), Row(<< <<"M">>, Rm(<<"r">>)>>)>>)>>)

VMLAUNCH == Group(<<"VMLAUNCH", "/", "VMRESUME">>, "VMX",
  <<Entry_("VMLAUNCH", << >>, << >>, << >>), Entry_("VMRESUME", << >>, << >>, << >>)>>,
  <<Page(Vmx, <<"footer">>,
         <<Title(<<"VMLAUNCH", "/", "VMRESUME", "-", "Launch">>),
           Row(<< <<"Opcode/", "Instruction">>, OpEn, <<"Description">> >>),
           Row(<< <<"0F", "C2", "\n", "VMLAUNCH">>, NA, <<"Launch", "in 64-bit mode">> >>),
           Row(<< <<"0F", "C3", "\n", "VMRESUME">>, NA, <<"Resume", "outside 64-bit mode">> >>)>>),
    Page(Vmx, <<"footer">>, <<Heading(<<"Operation">>), Row(<< <<"text">> >>)>>)>>)
VMPTRLD == Group(<<"VMPTRLD">>, "VMX", <<Entry_("VMPTRLD", <<"m64">>, << >>, << >>)>>,
  <<Page(Vmx, <<"footer">>,
         <<Title(<<"VMPTRLD", "-", "Load">>), Row(<< <<"Opcode">>, <<"Instruction">>, <<"Description">> >>),
           Row(<< <<"0F", "C7">>, <<"VMPTRLD", "m64">>, <<"Loads">> >>)>>)>>)
Section(chapter, name) == Page(chapter, <<"footer">>, <<[Title(<<"#.#">>) EXCEPT !.blocks = << <<"#.#">>, <<name>> >>]>>)

SgxMain(name) == Group(<<name>>, "SGX", <<Entry_(name, << >>, << >>, << >>)>>,
  <<Page(Sgx, <<"footer">>, <<Title(<<name, "-", "Execute">>), FiveColumns,
                              Five(<<"NP", "0F", "01", "\n", name>>, "NP", NA)>>)>>)
\* "split" has two columns for EAX.
Leaf(name, value, main, split) == Group(<<name>>, "LEAF_SGX",
  <<Entry_(name, <<"EAX", "RBX", "RCX">>, << >>, <<main>>)>>,
  <<Page(Sgx, <<"footer">>,
         <<Title(<<name, "-", "Leaf">>), FiveColumns,
           Five(<<"EAX", "=", value, main, "[", name, "]">>, "IR", <<"SGX1">>),
           Operands, Row(<<OpEn, <<"EAX">>, <<"RBX">>, <<"RCX">> >>),
           Row(<< <<"IR">> >> \o (IF split THEN << <<name>>, <<"Return">> >> ELSE << <<name>> >>)
               \o << <<"Address">>, <<"Address">> >>)>>)>>)

Manual(groups, sectionPages) ==
  [groups |-> groups, pages |-> PrintPages(FlattenSeq([g \in DOMAIN groups |-> groups[g].pages]) \o sectionPages)]

MCManuals ==
  {Manual(<<BT, VADD, PUSH, VMPTRLD, VMLAUNCH>>, <<Section(Vmx, "VM INSTRUCTION")>>),
   Manual(<<BT, SgxMain("ENCLS"), SgxMain("ENCLU"), Leaf("ECREATE", "00", "ENCLS", FALSE),
            Leaf("EADD", "01", "ENCLS", TRUE), Leaf("EENTER", "02", "ENCLU", FALSE)>>, <<Section(Sgx, "INTEL SGX")>>),
   \* The main instruction of the leaf functions is not in this volume.
   Manual(<<PUSH, Leaf("EENTER", "02", "ENCLU", FALSE), Leaf("EGETKEY", "01", "ENCLU", TRUE)>>, << >>),
   Manual(<< >>, <<Section(Ref, "GENERAL")>>)}

\* Two instructions of the extension document, of one page each.
ExtensionPage(name) ==
  Page(Ref, <<"Ref. #", "319433">>,
       <<Title(<<name, "-", "text">>), FiveColumns, Five(<<"EVEX", "\n", name, "zmm1">>, "A", <<"AVX512F">>),
         Operands, Row(<<OpEn, Operand("1")>>), Row(<< <<"A">>, Reg(<<"w">>)>>)>>)
ExtensionGroup(name) ==
  Group(<<name>>, "REGULAR", <<Entry_(name, <<"zmm1">>, <<Reg(<<"w">>)>>, << >>)>>, <<ExtensionPage(name)>>)
ExtensionManuals == {[groups |-> <<ExtensionGroup("VP4DPWSSD"), ExtensionGroup("VGF2P8MULB")>>,
                      pages |-> [p \in 1 .. 2 |->
                        [number |-> 2 * p - 1,
                         rows |-> PrintPages(<<ExtensionPage(IF p = 1 THEN "VP4DPWSSD" ELSE "VGF2P8MULB")>>)[1].rows]]]}
===============================================================================
