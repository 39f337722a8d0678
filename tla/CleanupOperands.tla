--------------------------- MODULE CleanupOperands ---------------------------
(****************************************************************************)
(* cleanup_instruction_set_fix_operands.cc: corrections of the operands that *)
(* the manual lists with an instruction, all of rank 2000.                   *)
(****************************************************************************)
EXTENDS CleanupEncoding

Named(name, enc, usage) == [AnyOperand EXCEPT !.name = name, !.enc = enc, !.usage = usage]
Rename(operand, name)   == [operand EXCEPT !.name = name]
\* The operands with the ones that are named in the function renamed.
RenameAll(ops, names)   == [i \in DOMAIN ops |-> IF ops[i].name \in DOMAIN names
                                                 THEN Rename(ops[i], names[ops[i].name]) ELSE ops[i]]

PointerSize == [m8 |-> "BYTE", m16 |-> "WORD", m32 |-> "DWORD", m64 |-> "QWORD"]
AccumulatorOf == [m8 |-> "AL", m16 |-> "AX", m32 |-> "EAX", m64 |-> "RAX"]
PointerTo(operand, register) == PointerSize[operand] \o " PTR [" \o register \o "]"

\* The transform that replaces the operands of the instructions in Applies and fails when one of them
\* has operands it does not expect.
FixWhere(set, Applies(_), Expected(_), Fix(_)) ==
  Result(\A i \in DOMAIN set.insts : Applies(set.insts[i]) => Expected(set.insts[i]),
         ForEach(set, LAMBDA inst : IF Applies(inst) /\ Expected(inst)
                                    THEN [inst EXCEPT !.ops = Fix(inst)] ELSE inst))

\* The sets of source and destination operands are built from empty ranges: a CMPS or MOVS that has
\* its pointer operands already is unexpected.
FixOperandsOfCmpsAndMovs(set) ==
  FixWhere(set, LAMBDA inst : inst.mnem \in {"CMPS", "MOVS"},
           LAMBDA inst : Len(inst.ops) = 2 /\ inst.ops[1].name \in DOMAIN PointerSize,
           LAMBDA inst : LET size == inst.ops[1].name
                             movs == inst.mnem = "MOVS"
                         IN  <<[Rename(inst.ops[1], PointerTo(size, IF movs THEN "RDI" ELSE "RSI"))
                                  EXCEPT !.usage = IF movs THEN "WRITE" ELSE "READ"],
                               [Rename(inst.ops[2], PointerTo(size, IF movs THEN "RSI" ELSE "RDI"))
                                  EXCEPT !.usage = "READ"]>>)

FixOperandsOfInsAndOuts(set) ==
  FixWhere(set, LAMBDA inst : inst.mnem \in {"INS", "OUTS"},
           LAMBDA inst : Len(inst.ops) = 2 /\ \E i \in 1..2 : inst.ops[i].name \in DOMAIN PointerSize,
           LAMBDA inst : LET size == IF inst.ops[1].name \in DOMAIN PointerSize THEN inst.ops[1].name
                                     ELSE inst.ops[2].name
                             At(i, name, usage) == [Rename(inst.ops[i], name) EXCEPT !.usage = usage]
                         IN  IF inst.mnem = "INS"
                             THEN <<At(1, PointerTo(size, "RDI"), "WRITE"), At(2, "DX", "READ")>>
                             ELSE <<At(1, "DX", "READ"), At(2, PointerTo(size, "RSI"), "READ")>>)

FixOperandsOfLddqu(set) ==
  FixWhere(set, LAMBDA inst : inst.raw = Raw(<<"F2", "0F", "F0", "/r">>), LAMBDA inst : TRUE,
           LAMBDA inst : RenameAll(inst.ops, [mem |-> "m128"]))

FixOperandsOfLodsScasAndStos(set) ==
  FixWhere(set, LAMBDA inst : inst.mnem \in {"LODS", "SCAS", "STOS"},
           LAMBDA inst : Len(inst.ops) = 1 /\ inst.ops[1].name \in DOMAIN AccumulatorOf,
           LAMBDA inst : LET size == inst.ops[1].name
                             Implicit(name) == Named(name, "IMPLICIT", "READ")
                             acc == <<Implicit(AccumulatorOf[size])>>
                         IN  CASE inst.mnem = "STOS" -> <<Implicit(PointerTo(size, "RDI"))>> \o acc
                               [] inst.mnem = "LODS" -> acc \o <<Implicit(PointerTo(size, "RSI"))>>
                               [] inst.mnem = "SCAS" -> acc \o <<Implicit(PointerTo(size, "RDI"))>>)

FixOperandsOfSgdtAndSidt(set) ==
  FixWhere(set, LAMBDA inst : inst.raw \in Raws({<<"0F", "01", "/0">>, <<"0F", "01", "/1">>}),
           LAMBDA inst : TRUE, LAMBDA inst : RenameAll(inst.ops, [m |-> "m16&64"]))

\* This one returns at the first instruction with a wrong number of operands.
VMovqSpecification == [vex    |-> <<[type |-> "VEX", dir |-> "", len |-> "128", pfx |-> "F3",
                                     map |-> "0F", w |-> "WIG"]>>,
                       tokens |-> <<"7E", "/r">>]
FixOperandsOfVMovq(set) ==
  FixWhere(set, LAMBDA inst : inst.raw = VMovqSpecification, LAMBDA inst : Len(inst.ops) = 2,
           LAMBDA inst : [inst.ops EXCEPT ![2] = Rename(@, "xmm2/m64")])

kRenameToReg32 == {"EXTRACTPS", "MOVMSKPD", "MOVMSKPS", "PEXTRB", "PEXTRW", "PMOVMSKB", "VMOVMSKPD",
                   "VMOVMSKPS", "VPEXTRB", "VPEXTRW", "VPMOVMSKB"}
RegisterFor(mnemonic) == CASE mnemonic = "VPBROADCASTB" -> "r8" [] mnemonic = "VPBROADCASTW" -> "r16"
                           [] mnemonic \in kRenameToReg32 -> "r32" [] OTHER -> "reg"
\* LAR gets a 64-bit version, which replaces it, and a 32-bit one, which is added.
FixRegOperands(set) ==
  LET UsesReg(inst) == \E i \in DOMAIN inst.ops : inst.ops[i].name = "reg"
      Expand(inst)  == UsesReg(inst) /\ inst.mnem = "LAR"
      With(inst, register) == [inst EXCEPT !.ops = RenameAll(@, [reg |-> register])]
  IN  Result(\A i \in DOMAIN set.insts : UsesReg(set.insts[i]) =>
                 Expand(set.insts[i]) \/ RegisterFor(set.insts[i].mnem) # "reg",
             WithAdded(ForEach(set, LAMBDA inst : IF Expand(inst) THEN WithToken(With(inst, "r64"), "REX.W")
                                                  ELSE With(inst, RegisterFor(inst.mnem))),
                       MadeFrom(set, Expand, LAMBDA inst : <<With(inst, "r32")>>)))

kOperandRenaming == "m80dec" :> "m80bcd" @@ "r8/m8" :> "r/m8" @@ "r16/m16" :> "r/m16" @@
                    "r32/m32" :> "r/m32" @@ "r64/m64" :> "r/m64" @@ "ST" :> "ST(0)" @@
                    "m14/28byte" :> "m28byte" @@ "m94/108byte" :> "m108byte"
RenameOperands(set) == Ok(ForEach(set, LAMBDA inst : [inst EXCEPT !.ops = RenameAll(@, kOperandRenaming)]))

DropOperands(inst, names) == [inst EXCEPT !.ops = SelectSeq(@, LAMBDA op : op.name \notin names)]
kUpdatedInstructionEncodings ==
  Raws({<<"D8", b, "+i">> : b \in {"C0", "C8", "E0", "E8", "F0", "F8"}}
         \cup {<<"DE", b, "+i">> : b \in {"C0", "C8", "E0", "E8", "F0", "F8"}}
         \cup {<<b, c, "+i">> : b \in {"DB", "DF"}, c \in {"E8", "F0"}})
RemoveImplicitST0Operand(set) ==
  Ok(ForEach(set, LAMBDA inst : IF inst.raw \in kUpdatedInstructionEncodings
                                THEN DropOperands(inst, {"ST(0)"}) ELSE inst))

RemoveImplicitOperands(set) ==
  Ok(ForEach(set, LAMBDA inst : DropOperands(inst, {"<EAX>", "<XMM0>", "<XMM0-2>", "<XMM0-6>",
                                                    "<XMM0-7>", "<XMM4-6>"})))
=============================================================================
