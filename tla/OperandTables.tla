---------------------------- MODULE OperandTables ----------------------------
(****************************************************************************)
(* The tables that the clean-up of the x86 instruction set looks operand     *)
(* names up in: the encoding, addressing mode, size and register class of an *)
(* operand by its name in the manual, and the names that stand for both a    *)
(* register and a memory operand.  A table is a function from what it        *)
(* assigns to the set of names it assigns it to.                             *)
(****************************************************************************)
EXTENDS Integers, Sequences, TLC

\* The operand names "a/b" for a in A and b in B.
Slash(A, B) == {a \o "/" \o b : a \in A, b \in B}

Vectors(letter) == {letter \o "mm" \o n : n \in {"", "1", "2", "3"}}
Mem8To128 == {"m8", "m16", "m32", "m64", "m128"}
Bcst == {"m32bcst", "m64bcst"}

Pointer(register) == {s \o " PTR [" \o register \o "]" : s \in {"BYTE", "WORD", "DWORD", "QWORD"}}
ImmediateNames == {"imm8", "imm16", "imm32", "imm64", "rel8", "rel16", "rel32",
                   "moffs8", "moffs16", "moffs32", "moffs64", "ptr16:16", "ptr16:32"}
VSibNames == {"vm32x", "vm32y", "vm32z", "vm64x", "vm64y", "vm64z"}
SegmentNames == {"CS", "DS", "ES", "FS", "GS", "SS"}
FixedNames == {"AL", "AX", "EAX", "RAX", "CL", "DX"} \cup SegmentNames
MemoryNames == {"m16", "m16&16", "m16&32", "m16&64", "m16int", "m2byte", "m14byte", "m14/28byte",
                "m28byte", "m32&32", "m32fp", "m32int", "mem", "m64", "m64fp", "m64int", "m8",
                "m80dec", "m80bcd", "m80fp", "m128", "m256", "m384", "m512", "m94byte",
                "m94/108byte", "m108byte", "m512byte", "m16:16", "m16:32", "m16:64"}
\* The register-or-memory names that both the encoding and the addressing table know.
RegisterOrMemoryNames ==
  Slash({"k2"}, {"m8", "m16", "m32", "m64"}) \cup Slash({"r"}, {"m8", "m16", "m32", "m64"})
    \cup Slash({"reg"}, {"m8", "m16", "m32"})
    \cup {"mm/m32", "mm/m64", "mm2/m64", "r32/m8", "r32/m16", "r64/m8", "r64/m16"}
    \cup Slash(Vectors("x"), Mem8To128) \cup Slash(Vectors("y"), Mem8To128 \cup {"m256"})
    \cup Slash({"xmm2/m64", "xmm2/m128", "xmm3/m128", "ymm3/m256", "zmm2/m512", "zmm3/m512"}, Bcst)
    \cup {"zmm1/m512", "zmm2/m512", "zmm3/m512"}

\* kEncodingMap: the names whose encoding follows from the name alone.
EncodingMap ==
  [IMPLICIT   |-> FixedNames \cup Pointer("RSI") \cup Pointer("RDI") \cup {"ST(0)", "1", "3"},
   MODRM_REG  |-> {"CR0-CR7", "CR8", "DR0-DR7", "Sreg"},
   IMMEDIATE  |-> ImmediateNames,
   MODRM_RM   |-> MemoryNames \cup RegisterOrMemoryNames \cup {"m", "ST(i)"},
   VSIB       |-> VSibNames]

\* kAddressingModeMap.
FlexibleNames == RegisterOrMemoryNames \cup Slash({"bnd1", "bnd2"}, {"m64", "m128"})
                   \cup Slash(Vectors("z") \ {"zmm"}, Mem8To128 \cup {"m256", "m512"})
                   \cup Slash({"ymm2/m256", "zmm1/m512"}, Bcst)
AddressingModeMap ==
  [DIRECT     |-> FixedNames \cup Vectors("x") \cup {"xmm0", "xmm4", "mm", "mm1", "mm2", "Sreg"}
                  \cup (Vectors("y") \ {"ymm"}) \cup (Vectors("z") \ {"zmm"})
                  \cup {"ymm0", "ymm4", "zmm0", "zmm4", "CR0-CR7", "CR8", "DR0-DR7", "ST(0)",
                        "ST(i)", "bnd", "bnd0", "bnd1", "bnd2", "bnd3", "k1", "k2", "k3",
                        "r8", "r16", "r32", "r32a", "r32b", "r64", "r64a", "r64b"},
   BY_RSI     |-> Pointer("RSI"),
   BY_RDI     |-> Pointer("RDI"),
   FLEXIBLE   |-> FlexibleNames,
   NONE       |-> ImmediateNames \cup {"1", "3"},
   BLOCK      |-> {"k1+1", "xmm2+3", "ymm2+3", "zmm2+3"},
   LEA        |-> {"m"},
   INDIRECT   |-> MemoryNames \cup {"m32"},
   BASE_DISP  |-> {"mib"},
   VSIB       |-> VSibNames]

\* kOperandValueSizeBitsMap, in bits.
Sized(size) == {v \o "/" \o size : v \in Vectors("x") \cup Vectors("y") \cup (Vectors("z") \ {"zmm"})}
ValueSizeMap ==
  8 :> {"AL", "CL", "BYTE PTR [RSI]", "BYTE PTR [RDI]", "imm8", "k2/m8", "moffs8", "m8", "rel8",
        "r/m8", "r32/m8", "r64/m8", "reg/m8", "r8"} \cup Sized("m8") @@
  16 :> SegmentNames \cup {"AX", "DX", "WORD PTR [RSI]", "WORD PTR [RDI]", "imm16", "k2/m16", "m16",
        "m16int", "moffs16", "m2byte", "rel16", "r/m16", "r32/m16", "r64/m16", "reg/m16", "r16",
        "Sreg"} \cup Sized("m16") @@
  32 :> {"EAX", "DWORD PTR [RSI]", "DWORD PTR [RDI]", "imm32", "k2/m32", "m16&16", "moffs32", "m32",
         "m32fp", "m32int", "mm/m32", "m16:16", "rel32", "r/m32", "reg/m32", "r32", "r32a",
         "r32b"} \cup Sized("m32") @@
  48 :> {"m16&32", "m16:32"} @@
  64 :> {"RAX", "CR0-CR7", "CR8", "DR0-DR7", "QWORD PTR [RSI]", "QWORD PTR [RDI]", "imm64", "k1",
         "k2", "k3", "k2/m64", "m32&32", "moffs64", "m64", "m64fp", "m64int", "mm/m64", "mm2/m64",
         "r/m64", "r64", "r64a", "r64b", "mm", "mm1", "mm2"} \cup Sized("m64") @@
  80 :> {"m16&64", "m80dec", "m80bcd", "m80fp", "m16:64", "ST(0)", "ST(i)"} @@
  112 :> {"m14byte"} @@ 224 :> {"m14/28byte", "m28byte"} @@
  128 :> {"bnd", "bnd1", "bnd2", "k1+1", "m128", "mib", "xmm0", "xmm4"} \cup Vectors("x")
         \cup Sized("m128") @@
  256 :> {"m256", "ymm0", "ymm1", "ymm2", "ymm3", "ymm4"}
          \cup (Sized("m256") \ Slash(Vectors("x"), {"m256"})) @@
  384 :> {"m384"} @@
  512 :> {"m512", "zmm0", "zmm1", "zmm2", "zmm3", "zmm4", "xmm2+3", "zmm1/m512", "zmm2/m512",
          "zmm3/m512"} @@
  752 :> {"m94byte"} @@ 864 :> {"m94/108byte", "m108byte"} @@
  1024 :> {"ymm2+3"} @@ 2048 :> {"zmm2+3"} @@ 4096 :> {"m512byte"}

\* kRegisterClassMap; a name in class INVALID uses no register directly.
RegisterClassMap ==
  [GPR8    |-> {"AL", "CL", "r8"},
   GPR16   |-> {"AX", "DX", "r16"},
   GPR32   |-> {"EAX", "r32", "r32a", "r32b"},
   GPR64   |-> {"RAX", "r64", "r64a", "r64b"},
   INVALID |-> (MemoryNames \ {"m14/28byte", "m80dec", "m94/108byte"}) \cup {"m32"}
               \cup (ImmediateNames \ {"ptr16:16", "ptr16:32"}) \cup VSibNames
               \cup Pointer("RSI") \cup Pointer("RDI") \cup {"m", "mib", "", "1", "3"},
   MMX     |-> {"mm", "mm1", "mm2"},
   ST      |-> {"ST(0)", "ST(i)"},
   VECTOR  |-> Vectors("x") \cup Vectors("y") \cup Vectors("z") \cup {"xmm0", "xmm4", "ymm4"},
   BLOCK   |-> {"xmm2+3", "ymm2+3", "zmm2+3", "k1+1"},
   MASK    |-> {"k", "k1", "k2", "k3"},
   BOUNDS  |-> {"bnd", "bnd1", "bnd2"},
   SYSTEM  |-> {"CR0-CR7", "DR0-DR7", "FS", "GS", "Sreg"}]

\* The names that stand for a register or a memory operand: [register, its size or 0 for the size of
\* the memory operand, memory operands, suffix of the name].  Broadcast versions are not split off.
MemorySize == "m8" :> 8 @@ "m16" :> 16 @@ "m32" :> 32 @@ "m64" :> 64 @@ "m128" :> 128 @@
              "m256" :> 256 @@ "m512" :> 512
AlternativeRows ==
  {<<"mm", "mm1", 0, {"m32", "m64"}>>, <<"mm2", "mm2", 0, {"m64"}>>,
   <<"r", "r8", 0, {"m8"}>>, <<"r", "r16", 0, {"m16"}>>, <<"r", "r32", 0, {"m32"}>>,
   <<"r", "r64", 0, {"m64"}>>, <<"r32", "r32", 32, {"m8", "m16"}>>, <<"r64", "r64", 64, {"m16"}>>,
   <<"reg", "r32", 32, {"m8", "m16", "m32"}>>, <<"xmm", "xmm2", 0, {"m32", "m64", "m128"}>>,
   <<"xmm1", "xmm1", 0, {"m16", "m32", "m64", "m128"}>>,
   <<"xmm2", "xmm2", 0, {"m8", "m16", "m32", "m64", "m128", "m256"}>>,
   <<"xmm3", "xmm3", 0, {"m32", "m64", "m128", "m256"}>>, <<"k2", "k2", 0, {"m8", "m16", "m32", "m64"}>>,
   <<"bnd1", "bnd1", 0, {"m128"}>>, <<"bnd2", "bnd2", 0, {"m128"}>>}
    \cup {<<"ymm" \o n, "ymm" \o n, 0, {"m256"}>> : n \in {"1", "2", "3"}}
    \cup {<<"zmm" \o n, "zmm" \o n, 0, {"m512"}>> : n \in {"1", "2", "3"}}
BroadcastNames == Slash({"xmm2/m128", "xmm3/m128", "ymm2/m256", "ymm3/m256", "zmm2/m512", "zmm3/m512"}, Bcst)
                    \cup {"xmm2/m64/m32bcst"}
Splits(name, row, mem) == LET plain == row[1] \o "/" \o mem
                          IN  name = plain \/ (name \in BroadcastNames /\ name \in Slash({plain}, Bcst))
SplitNames == UNION {Slash({row[1]}, row[4]) : row \in AlternativeRows} \cup BroadcastNames
\* GetOperandAlternativesByName: the register alternative, then the memory one.
OperandAlternatives ==
  [name \in SplitNames |->
     LET c == CHOOSE c \in AlternativeRows \X DOMAIN MemorySize :
                c[2] \in c[1][4] /\ Splits(name, c[1], c[2])
         size == MemorySize[c[2]]
     IN  <<[name |-> c[1][2], am |-> "DIRECT", size |-> IF c[1][3] = 0 THEN size ELSE c[1][3]],
           [name |-> c[2], am |-> "INDIRECT", size |-> size]>>]

\* GetUnmodifiedOperandNames: the names that are not split.
UnmodifiedNames ==
  {"AL", "AX", "EAX", "RAX", "CL", "CR0-CR7", "DR0-DR7", "DX", "FS", "GS", "ST(0)", "1", "3", "mib"}
    \cup (ImmediateNames \ {"ptr16:16", "ptr16:32"}) \cup {"m", "mem", "m32"} \cup VSibNames
    \cup (MemoryNames \ {"m16&16", "m16&32", "m14byte", "m14/28byte", "m32&32", "m80dec", "m94byte",
                         "m94/108byte"})
    \cup Pointer("RSI") \cup Pointer("RDI")
    \cup {"bnd", "bnd1", "bnd2", "bnd3", "k1", "k1+1", "k2", "k3", "mm", "mm1", "mm2", "r8", "r16",
          "r32", "r32a", "r32b", "r64", "r64a", "r64b", "ST(i)", "Sreg"}
    \cup Vectors("x") \cup {"xmm0", "xmm2+3", "xmm4", "ymm1", "ymm2", "ymm2+3", "ymm4", "zmm1", "zmm2",
                            "zmm2+3", ""}
=============================================================================
