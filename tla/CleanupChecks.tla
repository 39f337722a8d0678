---------------------------- MODULE CleanupChecks -----------------------------
(****************************************************************************)
(* cleanup_instruction_set_checks.cc and base/cleanup_instruction_set.cc:    *)
(* the checks that end the pipeline and the sorting of the instructions.     *)
(****************************************************************************)
EXTENDS CleanupInfo

\* GetX87FpuInstructionMnemonics of instruction_set_utils.cc.
X87FpuInstructionMnemonics ==
  {"F" \o m : m \in
    {"BLD", "BSTP", "CMOVB", "CMOVBE", "CMOVE", "CMOVNB", "CMOVNBE", "CMOVNE", "CMOVNU", "CMOVU", "ILD",
     "IST", "ISTP", "LD", "ST", "STP", "XCH", "ISTTP", "ABS", "ADD", "ADDP", "CHS", "DIV", "DIVP", "DIVR",
     "DIVRP", "IADD", "IDIV", "IDIVR", "IMUL", "ISUB", "ISUBR", "MUL", "MULP", "PREM", "PREM1", "RNDINT",
     "SCALE", "SQRT", "SUB", "SUBP", "SUBR", "SUBRP", "XTRACT", "COM", "COMI", "COMIP", "COMP", "COMPP",
     "ICOM", "ICOMP", "TST", "UCOM", "UCOMI", "UCOMIP", "UCOMP", "UCOMPP", "XAM", "2XM1", "COS", "PATAN",
     "PTAN", "SIN", "SINCOS", "YL2X", "YL2XP1", "LD1", "LDL2E", "LDL2T", "LDLG2", "LDLN2", "LDPI", "LDZ",
     "CLEX", "DECSTP", "FREE", "INCSTP", "INIT", "LDCW", "LDENV", "NCLEX", "NINIT", "NOP", "NSAVE",
     "NSTCW", "NSTENV", "NSTSW", "RSTOR", "SAVE", "STCW", "STENV", "STSW", "XRSTOR", "XSAVE"}}
  \cup {"WAIT"}
IsXsaveOrXrstor(inst) == StartsWith(inst.mnem, "XSAVE") \/ StartsWith(inst.mnem, "XRSTOR")
UsesRegister(am) == am \in {"DIRECT", "FIXED_REGISTERS_DIRECT", "BLOCK"}
SizeIsUndefined(inst, op) == \/ op.am = "LEA" \/ (op.am = "NONE" /\ IsImplicit(op.enc)) \/ op.am = "VSIB"
                             \/ IsXsaveOrXrstor(inst)

OperandIsComplete(inst, op) ==
  IF op.name = ""
  THEN op.tags # <<>> /\ op.enc = "STATIC_PROPERTY" /\ op.am = "NONE" /\ op.usage = "READ"
  ELSE /\ op.enc # "ANY" /\ op.am # "ANY"
       /\ UsesRegister(op.am) => op.rclass \notin {"", "INVALID"}
       /\ ~SizeIsUndefined(inst, op) => op.size # 0
       /\ inst.mnem \notin X87FpuInstructionMnemonics => op.usage # "UNKNOWN"
CheckOperandInfo(set) ==
  Result(\A i \in DOMAIN set.insts : \A j \in DOMAIN set.insts[i].ops :
           OperandIsComplete(set.insts[i], set.insts[i].ops[j]), set)

-----------------------------------------------------------------------------
(* Opcodes that are a special case of a shorter one.                         *)

HexValue == [h \in Hex |-> CHOOSE n \in 0..15 : SubSeq("0123456789ABCDEF", n + 1, n + 1) = h]
ByteValue(token) == 16 * HexValue[SubSeq(token, 1, 1)] + HexValue[SubSeq(token, 2, 2)]
GetModRmModBits(byte) == byte \div 64
GetModRmRegBits(byte) == (byte \div 8) % 8

UsesDirectAddressingInModRm(inst) ==
  \E i \in DOMAIN inst.ops : inst.ops[i].enc = "MODRM_RM" /\ inst.ops[i].am = "DIRECT"
PrefixUsageIsMutuallyExclusive(a, b) == {a, b} = {"NOT_PERMITTED", "REQUIRED"}
HasMandatoryPrefix(leg) == leg.addr \/ leg.rep \/ leg.repne
AllowsNoLegacyPrefixes(inst) == ~IsLegacy(inst) \/ "NP" \in ToSet(inst.raw.tokens)

IsSpecialCaseOfInstruction(general, special) ==
  LET g == general.spec[1]
      s == special.spec[1]
      modrm == ByteValue(Last(s.opcode))
      Clash(a, b) == AllowsNoLegacyPrefixes(a) /\ HasMandatoryPrefix(b.spec[1].leg)
  IN  /\ (g.type = "legacy") = (s.type = "legacy")
      /\ Len(s.opcode) > 1 /\ g.opcode = Front(s.opcode)
      /\ \/ g.modrm = "NO"
         \/ /\ UsesDirectAddressingInModRm(general) = (GetModRmModBits(modrm) = 3)
            /\ g.modrm = "EXTENSION" => g.ext = GetModRmRegBits(modrm)
            /\ g.type = "legacy" =>
                 /\ ~PrefixUsageIsMutuallyExclusive(g.leg.osz, s.leg.osz)
                 /\ ~Clash(general, special) /\ ~Clash(special, general)
CheckSpecialCaseInstructions(set) ==
  Result(/\ \A i \in DOMAIN set.insts : set.insts[i].spec # <<>>
         /\ \A i, j \in DOMAIN set.insts : ~IsSpecialCaseOfInstruction(set.insts[i], set.insts[j]), set)

\* Every instruction of this model has one vendor syntax.
CheckHasVendorSyntax(set) == Ok(set)

-----------------------------------------------------------------------------
(* SortByVendorSyntax.  Lists of strings are compared element by element, a   *)
(* prefix before what it is a prefix of.                                      *)

Differ(a, b) == {i \in 1..Min({Len(a), Len(b)}) : a[i] # b[i]}
ListLess(a, b) == IF Differ(a, b) = {} THEN Len(a) < Len(b)
                  ELSE StringLess(a[Min(Differ(a, b))], b[Min(Differ(a, b))])
\* The mnemonic, the names of the operands, their tags and the raw specification.
SortKeys(inst) == << <<inst.mnem>>, [i \in DOMAIN inst.ops |-> inst.ops[i].name] >>
                  \o [i \in DOMAIN inst.ops |-> inst.ops[i].tags]
                  \o << (IF inst.raw.vex = <<>> THEN <<>>
                         ELSE LET v == inst.raw.vex[1] IN <<v.type, v.dir, v.len, v.pfx, v.map, v.w>>)
                        \o inst.raw.tokens >>
LessThan(a, b) == LET at == Differ(SortKeys(a), SortKeys(b))
                  IN  at # {} /\ ListLess(SortKeys(a)[Min(at)], SortKeys(b)[Min(at)])
SortByVendorSyntax(set) ==
  LET order == SortSeq([i \in DOMAIN set.insts |-> i],
                       LAMBDA i, j : \/ LessThan(set.insts[i], set.insts[j])
                                     \/ i < j /\ ~LessThan(set.insts[j], set.insts[i]))
  IN  Ok([set EXCEPT !.insts = [i \in DOMAIN @ |-> set.insts[order[i]]]])
=============================================================================
