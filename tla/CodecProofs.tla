------------------------------ MODULE CodecProofs -----------------------------
(***************************************************************************)
(* The parser of x86 instructions reads back what the encoder wrote, for   *)
(* any instruction, any database of specifications and any bytes behind    *)
(* the encoding: at every step of a call of ConsumeBinaryEncoding the      *)
(* fields that it has read are those of the instruction that was encoded,  *)
(* and the bytes of the others are still in front of it.  No call fails on *)
(* a whole encoding of an instruction that its own specification can be    *)
(* found for, no call comes back from the beginning of one, and the        *)
(* operands that a client assigned are read from the fields.               *)
(***************************************************************************)
EXTENDS ExegesisProofs

-----------------------------------------------------------------------------
(* The bytes of an encoding of which the beginning was read.               *)

\* What is left of t when r has been read of it: all of it, or a beginning if the end is missing.
LeftOf(r, missing, t) ==
  r \in Seq(Nat) /\ \E m \in Seq(Nat) : r \o m = t /\ (missing <=> m # <<>>)

LEMMA Elements ==
  ASSUME NEW s \in Seq(Nat), NEW t \in Seq(Nat)
  PROVE  /\ s \o t \in Seq(Nat) /\ Len(s \o t) = Len(s) + Len(t)
         /\ \A k \in 1..Len(s) : (s \o t)[k] = s[k]
         /\ \A k \in 1..Len(t) : (s \o t)[Len(s) + k] = t[k]
<1>1. s \o t \in Seq(Nat) /\ Len(s \o t) = Len(s) + Len(t)
  BY ConcatProperties
<1>2. Len(s) \in Nat /\ Len(t) \in Nat
  OBVIOUS
<1>3. ASSUME NEW k \in 1..Len(s) PROVE (s \o t)[k] = s[k]
  BY <1>2
<1>4. ASSUME NEW k \in 1..Len(t) PROVE (s \o t)[Len(s) + k] = t[k]
  BY <1>2
<1> QED BY <1>1, <1>3, <1>4

LEMMA LeftIsShorter ==
  ASSUME NEW r, NEW missing \in BOOLEAN, NEW t, LeftOf(r, missing, t)
  PROVE  /\ t \in Seq(Nat) /\ r \in Seq(Nat) /\ Len(r) <= Len(t)
         /\ (~missing => r = t) /\ (missing => Len(r) < Len(t))
         /\ \A k \in 1..Len(r) : r[k] = t[k]
<1>1. PICK m \in Seq(Nat) : r \o m = t /\ (missing <=> m # <<>>)
  BY DEF LeftOf
<1>2. r \in Seq(Nat)
  BY DEF LeftOf
<1>3. Len(m) \in Nat /\ (m # <<>> => Len(m) # 0)
  BY EmptySeq
<1>4. ~missing => r = t
  BY <1>1, <1>2, ConcatEmptySeq
<1>5. t \in Seq(Nat) /\ Len(t) = Len(r) + Len(m) /\ \A k \in 1..Len(r) : r[k] = t[k]
  BY <1>1, <1>2, Elements
<1> QED BY <1>1, <1>2, <1>3, <1>4, <1>5

LEMMA Peeled ==
  ASSUME NEW r, NEW missing, NEW a \in Seq(Nat), NEW t \in Seq(Nat), LeftOf(r, missing, a \o t),
         Len(a) <= Len(r)
  PROVE  /\ LeftOf(SubSeq(r, Len(a) + 1, Len(r)), missing, t)
         /\ SubSeq(r, 1, Len(a)) = a
         /\ \A k \in 1..Len(a) : r[k] = a[k]
<1>1. PICK m \in Seq(Nat) : r \o m = a \o t /\ (missing <=> m # <<>>)
  BY DEF LeftOf
<1>2. r \in Seq(Nat)
  BY DEF LeftOf
<1>3. PICK n \in Nat, l \in Nat, lt \in Nat, lm \in Nat : n = Len(a) /\ l = Len(r) /\ lt = Len(t) /\ lm = Len(m)
  BY <1>2
<1>4. n <= l /\ l + lm = n + lt
  <2>1. Len(r \o m) = l + lm /\ Len(a \o t) = n + lt
    BY <1>2, <1>3
  <2> QED BY <1>1, <1>3, <2>1
<1>5. ASSUME NEW k \in 1..n PROVE r[k] = a[k]
  <2>1. (r \o m)[k] = r[k] /\ (a \o t)[k] = a[k]
    BY <1>2, <1>3, <1>4
  <2> QED BY <1>1, <2>1
<1>6. SubSeq(r, 1, n) = a
  <2>1. SubSeq(r, 1, n) \in Seq(Nat) /\ Len(SubSeq(r, 1, n)) = n
    BY <1>2, <1>3, <1>4
  <2>2. \A k \in 1..n : SubSeq(r, 1, n)[k] = a[k]
    BY <1>2, <1>3, <1>4, <1>5
  <2> QED BY <1>3, <2>1, <2>2, SeqEqual
<1> DEFINE s == SubSeq(r, n + 1, l)
<1>7. s \in Seq(Nat) /\ Len(s) = l - n /\ \A k \in 1..(l - n) : s[k] = r[n + k]
  <2>1. \A k \in (n + 1)..l : r[k] \in Nat
    BY <1>2, <1>3
  <2>2. s \in Seq(Nat) /\ Len(s) = IF n + 1 <= l THEN l - (n + 1) + 1 ELSE 0
    BY <1>3, <2>1, SubSeqProperties
  <2>3. \A k \in 1..(l - (n + 1) + 1) : s[k] = r[n + 1 + k - 1]
    BY <1>3, <2>1, SubSeqProperties
  <2> QED BY <1>3, <1>4, <2>2, <2>3, SMTT(40)
<1> HIDE DEF s
<1>8. s \o m = t
  <2>1. s \o m \in Seq(Nat) /\ Len(s \o m) = lt
    BY <1>3, <1>4, <1>7
  <2>2. ASSUME NEW k \in 1..lt PROVE (s \o m)[k] = t[k]
    <3>1. (a \o t)[n + k] = t[k]
      BY <1>3, Elements
    <3>2. CASE k \in 1..(l - n)
      <4>1. (s \o m)[k] = s[k]
        BY <1>7, <3>2, Elements
      <4>2. n + k \in 1..l
        BY <1>4, <3>2
      <4>3. (r \o m)[n + k] = r[n + k]
        BY <1>2, <1>3, <4>2, Elements
      <4>4. s[k] = r[n + k]
        BY <1>7, <3>2
      <4> QED BY <1>1, <3>1, <4>1, <4>3, <4>4
    <3>3. CASE k > l - n
      <4>1. PICK j \in 1..lm : k = (l - n) + j /\ n + k = l + j
        <5>1. k - (l - n) \in 1..lm /\ k = (l - n) + (k - (l - n)) /\ n + k = l + (k - (l - n))
          BY <1>4, <3>3
        <5> QED BY <5>1
      <4>2. (s \o m)[k] = m[j]
        <5>1. (s \o m)[Len(s) + j] = m[j]
          BY <1>3, <1>7, Elements
        <5>2. Len(s) + j = k
          BY <1>7, <4>1
        <5> QED BY <5>1, <5>2
      <4>3. (r \o m)[n + k] = m[j]
        BY <1>2, <1>3, <4>1, Elements
      <4> QED BY <1>1, <3>1, <4>2, <4>3
    <3>4. k \in 1..(l - n) \/ k > l - n
      BY <1>4
    <3> QED BY <3>2, <3>3, <3>4
  <2> QED BY <1>3, <2>1, <2>2, SeqEqual
<1> QED BY <1>1, <1>3, <1>5, <1>6, <1>7, <1>8 DEF LeftOf, s

LEMMA NothingPeeled ==
  ASSUME NEW r, NEW missing, NEW t \in Seq(Nat)
  PROVE  LeftOf(r, missing, <<>> \o t) <=> LeftOf(r, missing, t)
<1>1. <<>> \o t = t
  OBVIOUS
<1> QED BY <1>1

LEMMA BytePeeled ==
  ASSUME NEW r, NEW missing, NEW byte \in Nat, NEW t \in Seq(Nat), LeftOf(r, missing, <<byte>> \o t), r # <<>>
  PROVE  /\ LeftOf(SubSeq(r, 2, Len(r)), missing, t)
         /\ r[1] = byte
<1>1. <<byte>> \in Seq(Nat) /\ Len(<<byte>>) = 1 /\ <<byte>>[1] = byte
  OBVIOUS
<1>2. r \in Seq(Nat)
  BY DEF LeftOf
<1>3. Len(<<byte>>) <= Len(r)
  BY <1>1, <1>2
<1>4. /\ LeftOf(SubSeq(r, Len(<<byte>>) + 1, Len(r)), missing, t)
      /\ \A k \in 1..Len(<<byte>>) : r[k] = <<byte>>[k]
  BY <1>1, <1>3, Peeled
<1> QED BY <1>1, <1>4

\* What is left when nothing is read.
LEMMA KeptWhole ==
  ASSUME NEW r \in Seq(Nat)
  PROVE  SubSeq(r, 0 + 1, Len(r)) = r
OBVIOUS

-----------------------------------------------------------------------------
(* The bits of a byte.                                                     *)

LEMMA RexReadBack ==
  ASSUME NEW rex \in RexPrefix, NEW byte, byte = RexByte(rex)
  PROVE  /\ byte \in 64..79
         /\ [w |-> Bit(byte, 3), r |-> Bit(byte, 2), x |-> Bit(byte, 1), b |-> Bit(byte, 0)] = rex
<1>1. PICK w \in 0..1, r \in 0..1, x \in 0..1, b \in 0..1 : rex = [w |-> w, r |-> r, x |-> x, b |-> b]
  BY DEF RexPrefix
<1>2. byte = 64 + b + 4 * r + 8 * w + 2 * x
  BY <1>1 DEF RexByte
<1>3. byte \in 64..79
  BY <1>2
<1>4. (byte \div 8) % 2 = w /\ (byte \div 4) % 2 = r /\ (byte \div 2) % 2 = x /\ byte % 2 = b
  BY <1>2
<1>5. byte \in Nat
  BY <1>3
<1>6. Bit(byte, 3) = w /\ Bit(byte, 2) = r /\ Bit(byte, 1) = x /\ Bit(byte, 0) = b
  BY <1>4, <1>5, BitsOfByte
<1> QED BY <1>1, <1>3, <1>6

\* A byte made of two and three and three bits.
LEMMA FieldsReadBack ==
  ASSUME NEW two \in 0..3, NEW first \in 0..7, NEW second \in 0..7,
         NEW byte, byte = Compose233BitValues(two, first, second)
  PROVE  /\ byte \in Nat /\ Bits(byte, 6, 8) = two /\ Bits(byte, 3, 6) = first /\ Bits(byte, 0, 3) = second
<1>1. two % 4 = two /\ first % 8 = first /\ second % 8 = second
  OBVIOUS
<1>2. byte = 64 * two + 8 * first + second
  BY <1>1 DEF Compose233BitValues
<1>3. byte \in Nat /\ (byte \div 64) % 4 = two /\ (byte \div 8) % 8 = first /\ byte % 8 = second
  BY <1>2
<1> QED BY <1>3, BitsOfByte

LEMMA ByteReadBack ==
  ASSUME NEW d \in Int
  PROVE  /\ Displacement(<<d % 256>>) = SignedByte(d % 256)
         /\ SignedByte(SignedByte(d % 256) % 256) = SignedByte(d % 256)
<1>1. PICK b \in 0..255 : b = d % 256
  OBVIOUS
<1>2. <<b>> # <<>> /\ Len(<<b>>) = 1 /\ <<b>>[1] = b
  OBVIOUS
<1>3. Displacement(<<b>>) = SignedByte(b)
  BY <1>2 DEF Displacement
<1>4. SignedByte(b) % 256 = b
  BY DEF SignedByte
<1> QED BY <1>1, <1>3, <1>4

\* A signed number of four bytes: its highest byte says so.
IsDWord(d) == d \div 16777216 \in -128..127

LEMMA DWordReadBack ==
  ASSUME NEW d \in Int, IsDWord(d)
  PROVE  Displacement(EmitDWord(d)) = d
<1>1. ASSUME NEW n \in Int PROVE n \div 256 \in Int /\ n % 256 \in 0..255 /\ n = 256 * (n \div 256) + (n % 256)
  BY SMT
<1>2. PICK h \in Int, b1 \in 0..255 : h = d \div 256 /\ b1 = d % 256 /\ d = 256 * h + b1
  BY <1>1, SMT
<1>3. PICK g \in Int, b2 \in 0..255 : g = h \div 256 /\ b2 = h % 256 /\ h = 256 * g + b2
  BY <1>1, SMT
<1>4. PICK f \in Int, b3 \in 0..255 : f = g \div 256 /\ b3 = g % 256 /\ g = 256 * f + b3
  BY <1>1, SMT
<1>5. d \div 65536 = g
  <2>1. d = 65536 * g + (256 * b2 + b1)
    BY <1>2, <1>3, SMT
  <2> QED BY <2>1, SMT
<1>6. d = 16777216 * f + (65536 * b3 + (256 * b2 + b1))
  BY <1>2, <1>3, <1>4, SMT
<1>7. d \div 16777216 = f
  BY <1>6, SMT
<1>8. PICK b4 \in 0..255 : b4 = f % 256 /\ f = SignedByte(b4)
  <2>1. f \in -128..127
    BY <1>7, SMT DEF IsDWord
  <2>2. ASSUME NEW n \in -128..127 PROVE n % 256 \in 0..255 /\ SignedByte(n % 256) = n
    BY SMT DEF SignedByte
  <2> QED BY <2>1, <2>2, SMT
<1> DEFINE s == <<b1, b2, b3, b4>>
<1>9. EmitDWord(d) = s
  <2>1. d % 256 = b1
    BY <1>2, SMT
  <2>2. (d \div 256) % 256 = b2
    BY <1>2, <1>3, SMT
  <2>3. (d \div 65536) % 256 = b3
    BY <1>4, <1>5, SMT
  <2>4. (d \div 16777216) % 256 = b4
    BY <1>7, <1>8, SMT
  <2> QED BY <2>1, <2>2, <2>3, <2>4, SMT DEF EmitDWord
<1>10. s # <<>> /\ Len(s) = 4 /\ Len(s) # 1 /\ s[1] = b1 /\ s[2] = b2 /\ s[3] = b3 /\ s[4] = b4
  OBVIOUS
<1> HIDE DEF s
<1>11. Displacement(s) = b1 + 256 * b2 + 65536 * b3 + 16777216 * SignedByte(b4)
  BY <1>10, SMT DEF Displacement
<1>12. b1 + 256 * b2 + 65536 * b3 + 16777216 * f = d
  BY <1>6, SMT
<1> QED BY <1>8, <1>9, <1>11, <1>12, SMT

\* The tables of the encoder and those of the parser.
LEMMA TablesAgree ==
  /\ \A m \in Maps : MapSelectBits[m] \in 1..3 /\ MapOf(MapSelectBits[m]) = m
  /\ \A p \in Vectors : MandatoryBits[p] \in 0..3 /\ PrefixOf(MandatoryBits[p]) = p
  /\ \A p \in {"LOCK", "REP", "REPNE"} : LockOrRepByte[p] \in {240, 242, 243} /\ LockOrRepOf[LockOrRepByte[p]] = p
  /\ \A s \in Segments : /\ SegmentByte[s] \in SegmentBytes
                         /\ (CHOOSE t \in DOMAIN SegmentByte : SegmentByte[t] = SegmentByte[s]) = s
<1>1. /\ MapSelectBits["0F"] = 1 /\ MapSelectBits["0F38"] = 2 /\ MapSelectBits["0F3A"] = 3
  BY DEF MapSelectBits
<1>2. MapOf(1) = "0F" /\ MapOf(2) = "0F38" /\ MapOf(3) = "0F3A"
  BY DEF MapOf
<1>3. MandatoryBits[""] = 0 /\ MandatoryBits["66"] = 1 /\ MandatoryBits["F3"] = 2 /\ MandatoryBits["F2"] = 3
  BY DEF MandatoryBits
<1>4. PrefixOf(0) = "" /\ PrefixOf(1) = "66" /\ PrefixOf(2) = "F3" /\ PrefixOf(3) = "F2"
  BY DEF PrefixOf
<1>5. DOMAIN LockOrRepByte = {"LOCK", "REP", "REPNE"}
      /\ LockOrRepByte["LOCK"] = 240 /\ LockOrRepByte["REP"] = 243 /\ LockOrRepByte["REPNE"] = 242
  BY DEF LockOrRepByte
<1>6. LockOrRepOf[240] = "LOCK" /\ LockOrRepOf[243] = "REP" /\ LockOrRepOf[242] = "REPNE"
  BY <1>5 DEF LockOrRepOf
<1>7. /\ DOMAIN SegmentByte = Segments
      /\ SegmentByte["CS"] = 46 /\ SegmentByte["SS"] = 54 /\ SegmentByte["DS"] = 62 /\ SegmentByte["ES"] = 38
      /\ SegmentByte["FS"] = 100 /\ SegmentByte["GS"] = 101
  BY DEF SegmentByte, Segments
<1>8. ASSUME NEW s \in Segments, NEW t \in Segments, SegmentByte[t] = SegmentByte[s] PROVE t = s
  BY <1>7, <1>8 DEF Segments
<1>9. ASSUME NEW s \in Segments
      PROVE  /\ SegmentByte[s] \in SegmentBytes
             /\ (CHOOSE t \in DOMAIN SegmentByte : SegmentByte[t] = SegmentByte[s]) = s
  BY <1>7, <1>8 DEF SegmentBytes
<1>10. ASSUME NEW m \in Maps PROVE MapSelectBits[m] \in 1..3 /\ MapOf(MapSelectBits[m]) = m
  <2>1. 1 \in 1..3 /\ 2 \in 1..3 /\ 3 \in 1..3
    OBVIOUS
  <2> QED BY <1>1, <1>2, <2>1, Zenon DEF Maps
<1>11. ASSUME NEW p \in Vectors PROVE MandatoryBits[p] \in 0..3 /\ PrefixOf(MandatoryBits[p]) = p
  <2>1. 0 \in 0..3 /\ 1 \in 0..3 /\ 2 \in 0..3 /\ 3 \in 0..3
    OBVIOUS
  <2> QED BY <1>3, <1>4, <2>1, Zenon DEF Vectors
<1>12. ASSUME NEW p \in {"LOCK", "REP", "REPNE"}
       PROVE  LockOrRepByte[p] \in {240, 242, 243} /\ LockOrRepOf[LockOrRepByte[p]] = p
  <2>1. CASE p = "LOCK"
    BY <1>5, <1>6, <2>1
  <2>2. CASE p = "REP"
    BY <1>5, <1>6, <2>2
  <2>3. CASE p = "REPNE"
    BY <1>5, <1>6, <2>3
  <2> QED BY <1>12, <2>1, <2>2, <2>3
<1> QED BY <1>9, <1>10, <1>11, <1>12

-----------------------------------------------------------------------------
(* What the parser reads back.  An instruction as a record of its ten        *)
(* fields, so that a Consume function replaces arguments.                    *)

Decoded(kind, leg, vex, seg, addr, op, modrm, sib, imm, code) ==
  [kind |-> kind, leg |-> leg, vex |-> vex, seg |-> seg, addr |-> addr, op |-> op,
   modrm |-> modrm, sib |-> sib, imm |-> imm, code |-> code]

\* The encoding from each of its parts on, and what follows it.
FromSuffix(spec, i, after)     == EncodeVexSuffix(spec, i) \o after
FromCode(spec, i, after)       == i.code \o FromSuffix(spec, i, after)
FromImmediates(spec, i, after) == FlattenSeq(i.imm) \o FromCode(spec, i, after)
FromModRM(spec, i, after)      == EncodeModRM(spec, i) \o FromImmediates(spec, i, after)
FromOpcode(spec, i, after)     == EncodeOpcode(spec, i) \o FromModRM(spec, i, after)
FromOperandSize(spec, i, after) == EncodeOperandSizeOverridePrefix(i) \o FromOpcode(spec, i, after)
FromLockOrRep(spec, i, after)  == EncodeLockOrRepPrefix(i) \o FromOperandSize(spec, i, after)
FromRex(spec, i, after)        == EncodeRexPrefix(i) \o FromLockOrRep(spec, i, after)
FromPrefix(spec, i, after) ==
  CASE spec.type = "legacy" -> FromRex(spec, i, after)
    [] spec.type = "VEX"    -> EncodeVexPrefix(spec, i) \o FromOpcode(spec, i, after)
    [] spec.type = "EVEX"   -> EncodeEvexPrefix(spec, i) \o FromOpcode(spec, i, after)
FromAddress(spec, i, after)    == AddressBytesOf(i) \o FromPrefix(spec, i, after)
FromSegment(spec, i, after)    == SegmentBytesOf(i) \o FromAddress(spec, i, after)

\* What the parser makes of the fields of an instruction.
LegRead(i) == [rex |-> i.leg.rex, hasrex |-> i.leg.rex # NoRex, lock |-> i.leg.lock, osz |-> i.leg.osz]
VexRead(spec, i) ==
  [i.vex EXCEPT !.v = IF spec.type # "legacy" /\ spec.vex.usage = "NOT_USED" THEN IF spec.type = "VEX" THEN 15 ELSE 31 ELSE @,
                !.suffix = 0]
DispRead(i) == LET modrm == ModRmOf(i)  n == NumModRmDisplacementBytes(modrm, SibOf(i))
               IN  CASE n = 0 -> 0 [] n = 1 -> SignedByte(modrm.disp % 256) [] n = 4 -> modrm.disp
ModRmRead(i) == IF i.modrm = <<>> THEN <<>> ELSE <<[i.modrm[1] EXCEPT !.disp = DispRead(i)]>>
OpcodeWritten(spec, i) == IF i.op = 0 THEN OpcodeOf(spec) ELSE i.op

\* Every field of the instruction has a value that its bits can hold, and only the member of the
\* prefix union that the specification asks for is set.  An EVEX instruction has equal R bits (the
\* parser swaps them) and the complement of zero in an operand that is not used.
Fits(spec, i) ==
  /\ i.kind = spec.type
  /\ TopOf(OpcodeWritten(spec, i)) < 256
  /\ spec.type = "legacy" => /\ i.vex = NoVexBits
                             /\ ~IsPrefixByte(EncodeOpcode(spec, i)[1])
                             /\ EncodeOpcode(spec, i)[1] \notin {98, 196, 197}
  /\ spec.type = "VEX"  => i.leg = NoPrefixes /\ i.vex.nr < 2 /\ i.vex.z = 0 /\ i.vex.bc = 0 /\ i.vex.aaa = 0
  /\ spec.type = "EVEX" => /\ i.leg = NoPrefixes /\ i.vex.nr \in {0, 3} /\ i.vex.aaa < 8 /\ i.vex.suffix = 0
                           /\ spec.vex.usage = "NOT_USED" => i.vex.v = 31
  /\ \A n \in DOMAIN i.modrm : i.modrm[n].reg < 8 /\ i.modrm[n].rm < 8
  /\ NumModRmDisplacementBytes(ModRmOf(i), SibOf(i)) = 4 => IsDWord(ModRmOf(i).disp)
  /\ \A n \in DOMAIN i.sib : i.sib[n].scale < 4 /\ i.sib[n].index < 8 /\ i.sib[n].base < 8

\* An instruction that the encoder accepted for a specification of the database.
IsEncoded(spec, i) == /\ \E n \in DOMAIN Database : spec = Database[n].spec
                      /\ i \in DecodedInstruction /\ Validate(spec, i)

LEMMA EncodedSpec ==
  ASSUME NEW spec, NEW i, IsEncoded(spec, i)
  PROVE  /\ OpcodeOf(spec) \in Nat /\ spec.type \in {"legacy", "VEX", "EVEX"}
         /\ spec.vex.is4 => spec.type = "VEX"
         /\ i \in DecodedInstruction /\ Validate(spec, i)
BY DatabaseTypes DEF IsEncoded

\* Each part of an encoding is a sequence of numbers.
LEMMA PartsType ==
  ASSUME NEW spec, NEW i, IsEncoded(spec, i)
  PROVE  /\ SegmentBytesOf(i) \in Seq(Nat) /\ AddressBytesOf(i) \in Seq(Nat)
         /\ EncodeRexPrefix(i) \in Seq(Nat) /\ EncodeLockOrRepPrefix(i) \in Seq(Nat)
         /\ EncodeOperandSizeOverridePrefix(i) \in Seq(Nat)
         /\ spec.type # "legacy" => EncodeVexPrefix(spec, i) \in Seq(Nat) /\ EncodeEvexPrefix(spec, i) \in Seq(Nat)
         /\ EncodeOpcode(spec, i) \in Seq(Nat) /\ EncodeModRM(spec, i) \in Seq(Nat)
         /\ FlattenSeq(i.imm) \in Seq(Nat) /\ i.code \in Seq(Nat) /\ EncodeVexSuffix(spec, i) \in Seq(Nat)
<1>1. /\ SegmentBytesOf(i) \in Seq(Nat) /\ AddressBytesOf(i) \in Seq(Nat)
      /\ EncodeRexPrefix(i) \in Seq(Nat) /\ EncodeLockOrRepPrefix(i) \in Seq(Nat)
      /\ EncodeOperandSizeOverridePrefix(i) \in Seq(Nat)
      /\ spec.type # "legacy" => EncodeVexPrefix(spec, i) \in Seq(Nat) /\ EncodeEvexPrefix(spec, i) \in Seq(Nat)
  <2>1. /\ spec.type \in {"legacy", "VEX", "EVEX"} /\ i \in DecodedInstruction /\ ValidatePrefix(spec, i)
    BY EncodedSpec DEF Validate
  <2> QED BY <2>1, PrefixParts
<1>2. EncodeOpcode(spec, i) \in Seq(Nat) /\ EncodeModRM(spec, i) \in Seq(Nat)
  BY EncodedSpec, OpcodeBytes, ModRmBytes
<1>3. FlattenSeq(i.imm) \in Seq(Nat) /\ i.code \in Seq(Nat)
  BY EncodedSpec, InstructionFields, FlattenType, BytesAreNumbers
<1>4. EncodeVexSuffix(spec, i) \in Seq(Nat)
  <2>1. i.vex.suffix \in Nat
    <3>1. i.vex \in VexOrEvexPrefix
      BY EncodedSpec, InstructionFields
    <3> QED BY <3>1, VexNumbers
  <2>2. PICK byte \in Nat : byte = IF i.kind = "VEX" THEN i.vex.suffix ELSE 0
    BY <2>1
  <2> QED BY <2>2, ByteIfType DEF EncodeVexSuffix
<1> QED BY <1>1, <1>2, <1>3, <1>4

LEMMA TailsType ==
  ASSUME NEW spec, NEW i, IsEncoded(spec, i), NEW after \in Seq(Nat)
  PROVE  /\ FromSuffix(spec, i, after) \in Seq(Nat) /\ FromCode(spec, i, after) \in Seq(Nat)
         /\ FromImmediates(spec, i, after) \in Seq(Nat) /\ FromModRM(spec, i, after) \in Seq(Nat)
         /\ FromOpcode(spec, i, after) \in Seq(Nat) /\ FromOperandSize(spec, i, after) \in Seq(Nat)
         /\ FromLockOrRep(spec, i, after) \in Seq(Nat) /\ FromRex(spec, i, after) \in Seq(Nat)
         /\ FromPrefix(spec, i, after) \in Seq(Nat) /\ FromAddress(spec, i, after) \in Seq(Nat)
         /\ FromSegment(spec, i, after) \in Seq(Nat)
<1>1. FromSuffix(spec, i, after) \in Seq(Nat)
  BY PartsType, Joined DEF FromSuffix
<1>2. FromCode(spec, i, after) \in Seq(Nat)
  BY <1>1, PartsType, Joined DEF FromCode
<1>3. FromImmediates(spec, i, after) \in Seq(Nat)
  BY <1>2, PartsType, Joined DEF FromImmediates
<1>4. FromModRM(spec, i, after) \in Seq(Nat)
  BY <1>3, PartsType, Joined DEF FromModRM
<1>5. FromOpcode(spec, i, after) \in Seq(Nat)
  BY <1>4, PartsType, Joined DEF FromOpcode
<1>6. FromOperandSize(spec, i, after) \in Seq(Nat)
  BY <1>5, PartsType, Joined DEF FromOperandSize
<1>7. FromLockOrRep(spec, i, after) \in Seq(Nat)
  BY <1>6, PartsType, Joined DEF FromLockOrRep
<1>8. FromRex(spec, i, after) \in Seq(Nat)
  BY <1>7, PartsType, Joined DEF FromRex
<1>9. FromPrefix(spec, i, after) \in Seq(Nat)
  <2>1. CASE spec.type = "legacy"
    BY <1>8, <2>1 DEF FromPrefix
  <2>2. CASE spec.type = "VEX"
    <3>1. FromPrefix(spec, i, after) = EncodeVexPrefix(spec, i) \o FromOpcode(spec, i, after)
      BY <2>2 DEF FromPrefix
    <3> QED BY <1>5, <2>2, <3>1, PartsType, Joined
  <2>3. CASE spec.type = "EVEX"
    <3>1. FromPrefix(spec, i, after) = EncodeEvexPrefix(spec, i) \o FromOpcode(spec, i, after)
      BY <2>3 DEF FromPrefix
    <3> QED BY <1>5, <2>3, <3>1, PartsType, Joined
  <2> QED BY <2>1, <2>2, <2>3, EncodedSpec
<1>10. FromAddress(spec, i, after) \in Seq(Nat)
  BY <1>9, PartsType, Joined DEF FromAddress
<1>11. FromSegment(spec, i, after) \in Seq(Nat)
  BY <1>10, PartsType, Joined DEF FromSegment
<1> QED BY <1>1, <1>2, <1>3, <1>4, <1>5, <1>6, <1>7, <1>8, <1>9, <1>10, <1>11

Regroups(a, b, c) == (a \o b) \o c = a \o (b \o c)

LEMMA Regrouped ==
  ASSUME NEW a \in Seq(Nat), NEW b \in Seq(Nat), NEW c \in Seq(Nat)
  PROVE  Regroups(a, b, c)
BY ConcatAssociative DEF Regroups

RegroupsAll(a, b, c, d, e, f, g, h, after) ==
  ((((((a \o b) \o c) \o d) \o e) \o (f \o g)) \o h) \o after
    = a \o (b \o (c \o (d \o (e \o (f \o (g \o (h \o after)))))))

LEMMA EightParts ==
  ASSUME NEW a \in Seq(Nat), NEW b \in Seq(Nat), NEW c \in Seq(Nat), NEW d \in Seq(Nat), NEW e \in Seq(Nat),
         NEW f \in Seq(Nat), NEW g \in Seq(Nat), NEW h \in Seq(Nat), NEW after \in Seq(Nat)
  PROVE  RegroupsAll(a, b, c, d, e, f, g, h, after)
<1>1. PICK t1 \in Seq(Nat) : t1 = h \o after
  BY Joined
<1>2. PICK t2 \in Seq(Nat) : t2 = g \o t1
  BY Joined
<1>3. PICK t3 \in Seq(Nat) : t3 = f \o t2
  BY Joined
<1>4. PICK t4 \in Seq(Nat) : t4 = e \o t3
  BY Joined
<1>5. PICK t5 \in Seq(Nat) : t5 = d \o t4
  BY Joined
<1>6. PICK t6 \in Seq(Nat) : t6 = c \o t5
  BY Joined
<1>7. PICK e1 \in Seq(Nat) : e1 = a \o b
  BY Joined
<1>8. PICK e2 \in Seq(Nat) : e2 = e1 \o c
  BY Joined
<1>9. PICK e3 \in Seq(Nat) : e3 = e2 \o d
  BY Joined
<1>10. PICK e4 \in Seq(Nat) : e4 = e3 \o e
  BY Joined
<1>11. PICK e5 \in Seq(Nat) : e5 = f \o g
  BY Joined
<1>12. PICK e6 \in Seq(Nat) : e6 = e4 \o e5
  BY Joined
<1>13. Regroups(e6, h, after) /\ Regroups(e4, e5, t1) /\ Regroups(f, g, t1) /\ Regroups(e3, e, t3)
       /\ Regroups(e2, d, t4) /\ Regroups(e1, c, t5) /\ Regroups(a, b, t6)
  BY Regrouped
<1>14. (e6 \o h) \o after = e6 \o t1
  BY <1>1, <1>13, Zenon DEF Regroups
<1>15. e6 \o t1 = e4 \o t3
  BY <1>2, <1>3, <1>11, <1>12, <1>13, Zenon DEF Regroups
<1>16. e4 \o t3 = e3 \o t4
  BY <1>4, <1>10, <1>13, Zenon DEF Regroups
<1>17. e3 \o t4 = e2 \o t5
  BY <1>5, <1>9, <1>13, Zenon DEF Regroups
<1>18. e2 \o t5 = e1 \o t6
  BY <1>6, <1>8, <1>13, Zenon DEF Regroups
<1>19. e1 \o t6 = a \o (b \o t6)
  BY <1>7, <1>13, Zenon DEF Regroups
<1>20. ((((((a \o b) \o c) \o d) \o e) \o (f \o g)) \o h) \o after = (e6 \o h) \o after
  BY <1>7, <1>8, <1>9, <1>10, <1>11, <1>12, Zenon
<1>21. a \o (b \o (c \o (d \o (e \o (f \o (g \o (h \o after))))))) = a \o (b \o t6)
  BY <1>1, <1>2, <1>3, <1>4, <1>5, <1>6, Zenon
<1> QED BY <1>14, <1>15, <1>16, <1>17, <1>18, <1>19, <1>20, <1>21, Zenon DEF RegroupsAll

\* The encoding is all its parts.
LEMMA WholeEncoding ==
  ASSUME NEW spec, NEW i, IsEncoded(spec, i), i.kind = spec.type, NEW after \in Seq(Nat)
  PROVE  Encode(spec, i) \o after = FromSegment(spec, i, after)
<1> DEFINE prefix == CASE spec.type = "legacy" -> EncodeLegacyPrefixes(i)
                       [] spec.type # "legacy" /\ i.kind = "VEX"  -> EncodeVexPrefix(spec, i)
                       [] spec.type # "legacy" /\ i.kind = "EVEX" -> EncodeEvexPrefix(spec, i)
           flat == FlattenSeq(i.imm)
           suffix == EncodeVexSuffix(spec, i)
           opcode == EncodeOpcode(spec, i)
           modrm == EncodeModRM(spec, i)
           seg == SegmentBytesOf(i)
           addr == AddressBytesOf(i)
<1>1. Encode(spec, i) = ((((((seg \o addr) \o prefix) \o opcode) \o modrm) \o (flat \o i.code)) \o suffix)
  BY Zenon DEF Encode, EncodePrefix, EncodeImmediateValues, SegmentBytesOf, AddressBytesOf
<1>2. /\ seg \in Seq(Nat) /\ addr \in Seq(Nat) /\ opcode \in Seq(Nat) /\ modrm \in Seq(Nat)
      /\ flat \in Seq(Nat) /\ i.code \in Seq(Nat) /\ suffix \in Seq(Nat)
  BY PartsType
<1>3. prefix \in Seq(Nat) /\ prefix \o FromOpcode(spec, i, after) = FromPrefix(spec, i, after)
  <2>1. CASE spec.type = "legacy"
    <3> DEFINE rex == EncodeRexPrefix(i)
               lock == EncodeLockOrRepPrefix(i)
               osz == EncodeOperandSizeOverridePrefix(i)
               t == FromOpcode(spec, i, after)
    <3>1. prefix = (rex \o lock) \o osz
      BY <2>1 DEF EncodeLegacyPrefixes
    <3>2. rex \in Seq(Nat) /\ lock \in Seq(Nat) /\ osz \in Seq(Nat) /\ t \in Seq(Nat)
      BY PartsType, TailsType
    <3>3. FromPrefix(spec, i, after) = rex \o (lock \o (osz \o t))
      BY <2>1 DEF FromPrefix, FromRex, FromLockOrRep, FromOperandSize
    <3> HIDE DEF prefix, rex, lock, osz, t
    <3>4. rex \o lock \in Seq(Nat) /\ osz \o t \in Seq(Nat)
      BY <3>2, Joined, Zenon
    <3>5. ((rex \o lock) \o osz) \o t = (rex \o lock) \o (osz \o t) /\ (rex \o lock) \o osz \in Seq(Nat)
      <4>1. Regroups(rex \o lock, osz, t)
        BY <3>2, <3>4, Regrouped, Zenon
      <4>2. (rex \o lock) \o osz \in Seq(Nat)
        BY <3>2, <3>4, Joined, Zenon
      <4> QED BY <4>1, <4>2, Zenon DEF Regroups
    <3>6. (rex \o lock) \o (osz \o t) = rex \o (lock \o (osz \o t))
      <4>1. Regroups(rex, lock, osz \o t)
        BY <3>2, <3>4, Regrouped, Zenon
      <4> QED BY <4>1, Zenon DEF Regroups
    <3> QED BY <3>1, <3>3, <3>5, <3>6, Zenon DEF t
  <2>2. CASE spec.type = "VEX"
    <3>1. prefix = EncodeVexPrefix(spec, i)
      BY <2>2
    <3> QED BY <2>2, <3>1, PartsType DEF FromPrefix
  <2>3. CASE spec.type = "EVEX"
    <3>1. prefix = EncodeEvexPrefix(spec, i)
      BY <2>3
    <3> QED BY <2>3, <3>1, PartsType DEF FromPrefix
  <2> QED BY <2>1, <2>2, <2>3, EncodedSpec
<1>4. FromOpcode(spec, i, after) = opcode \o (modrm \o (flat \o (i.code \o (suffix \o after))))
  BY Zenon DEF FromOpcode, FromModRM, FromImmediates, FromCode, FromSuffix
<1>5. FromSegment(spec, i, after) = seg \o (addr \o (prefix \o (opcode \o (modrm \o (flat \o (i.code \o (suffix \o after)))))))
  BY <1>3, <1>4, Zenon DEF FromSegment, FromAddress
<1> HIDE DEF prefix, flat, suffix, opcode, modrm, seg, addr
<1>6. RegroupsAll(seg, addr, prefix, opcode, modrm, flat, i.code, suffix, after)
  BY <1>2, <1>3, EightParts
<1> QED BY <1>1, <1>5, <1>6, Zenon DEF RegroupsAll

LEMMA DecodedFields ==
  ASSUME NEW kind, NEW leg, NEW vex, NEW seg, NEW addr, NEW op, NEW modrm, NEW sib, NEW imm, NEW code,
         NEW d, d = Decoded(kind, leg, vex, seg, addr, op, modrm, sib, imm, code)
  PROVE  /\ d.kind = kind /\ d.leg = leg /\ d.vex = vex /\ d.seg = seg /\ d.addr = addr /\ d.op = op
         /\ d.modrm = modrm /\ d.sib = sib /\ d.imm = imm /\ d.code = code
BY DEF Decoded

-----------------------------------------------------------------------------
(* VEX and EVEX prefixes, read back.                                       *)

\* A VEX or EVEX prefix as a record of its twelve fields.
VexOf(pfx, map, nb, nr, nx, w, v, len, suffix, z, bc, aaa) ==
  [pfx |-> pfx, map |-> map, nb |-> nb, nr |-> nr, nx |-> nx, w |-> w, v |-> v, len |-> len,
   suffix |-> suffix, z |-> z, bc |-> bc, aaa |-> aaa]

LEMMA VexIsItsFields ==
  ASSUME NEW vex \in VexOrEvexPrefix
  PROVE  vex = VexOf(vex.pfx, vex.map, vex.nb, vex.nr, vex.nx, vex.w, vex.v, vex.len, vex.suffix, vex.z, vex.bc, vex.aaa)
BY DEF VexOrEvexPrefix, VexOf

LEMMA NoVexBitsIs == NoVexBits = VexOf("", "", 0, 0, 0, 0, 0, 0, 0, 0, 0, 0)
BY DEF NoVexBits, VexOf

\* The bytes of the prefixes, read back bit by bit.
LEMMA VexTailReadBack ==
  ASSUME NEW high \in 0..1, NEW low \in 0..15, NEW len \in 0..1, NEW pfx \in 0..3,
         NEW byte, byte = 128 * high + (8 * low + 4 * len + pfx)
  PROVE  /\ Bit(byte, 7) = high /\ Bits(byte, 3, 7) = low /\ Bit(byte, 2) = len /\ Bits(byte, 0, 2) = pfx
<1>1. byte \in Nat
  OBVIOUS
<1>2. (byte \div 128) % 2 = high /\ (byte \div 8) % 16 = low /\ (byte \div 4) % 2 = len /\ byte % 4 = pfx
  OBVIOUS
<1> QED BY <1>1, <1>2, BitsOfByte

LEMMA VexMapReadBack ==
  ASSUME NEW nr \in 0..1, NEW nx \in 0..1, NEW nb \in 0..1, NEW map \in 1..3,
         NEW byte, byte = 128 * nr + 64 * nx + 32 * nb + map
  PROVE  /\ Bit(byte, 7) = nr /\ Bit(byte, 6) = nx /\ Bit(byte, 5) = nb /\ Bits(byte, 0, 5) = map
<1>1. byte \in Nat
  OBVIOUS
<1>2. (byte \div 128) % 2 = nr /\ (byte \div 64) % 2 = nx /\ (byte \div 32) % 2 = nb /\ byte % 32 = map
  OBVIOUS
<1> QED BY <1>1, <1>2, BitsOfByte

LEMMA EvexMapReadBack ==
  ASSUME NEW r0 \in 0..1, NEW nx \in 0..1, NEW nb \in 0..1, NEW r1 \in 0..1, NEW map \in 1..3,
         NEW byte, byte = 128 * r0 + 64 * nx + 32 * nb + 16 * r1 + map
  PROVE  /\ Bit(byte, 7) = r0 /\ Bit(byte, 6) = nx /\ Bit(byte, 5) = nb /\ Bit(byte, 4) = r1
         /\ Bits(byte, 2, 4) = 0 /\ Bits(byte, 0, 2) = map
<1>1. byte \in Nat
  OBVIOUS
<1>2. (byte \div 128) % 2 = r0 /\ (byte \div 64) % 2 = nx /\ (byte \div 32) % 2 = nb
  OBVIOUS
<1>3. (byte \div 16) % 2 = r1 /\ (byte \div 4) % 4 = 0 /\ byte % 4 = map
  OBVIOUS
<1> QED BY <1>1, <1>2, <1>3, BitsOfByte, ZenonT(40)

LEMMA EvexTailReadBack ==
  ASSUME NEW w \in 0..1, NEW low \in 0..15, NEW pfx \in 0..3, NEW byte, byte = 128 * w + 8 * low + 4 + pfx
  PROVE  /\ Bit(byte, 7) = w /\ Bits(byte, 3, 7) = low /\ Bit(byte, 2) = 1 /\ Bits(byte, 0, 2) = pfx
<1>1. byte \in Nat
  OBVIOUS
<1>2. (byte \div 128) % 2 = w /\ (byte \div 8) % 16 = low /\ (byte \div 4) % 2 = 1 /\ byte % 4 = pfx
  OBVIOUS
<1> QED BY <1>1, <1>2, BitsOfByte

LEMMA EvexLastReadBack ==
  ASSUME NEW z \in 0..1, NEW len \in 0..3, NEW bc \in 0..1, NEW v4 \in 0..1, NEW aaa \in 0..7,
         NEW byte, byte = 128 * z + 32 * len + 16 * bc + 8 * v4 + aaa
  PROVE  /\ Bit(byte, 7) = z /\ Bits(byte, 5, 7) = len /\ Bit(byte, 4) = bc /\ Bit(byte, 3) = v4
         /\ Bits(byte, 0, 3) = aaa
<1>1. byte \in Nat
  OBVIOUS
<1>2. (byte \div 128) % 2 = z /\ (byte \div 32) % 4 = len /\ (byte \div 16) % 2 = bc
  OBVIOUS
<1>3. (byte \div 8) % 2 = v4 /\ byte % 8 = aaa
  OBVIOUS
<1> QED BY <1>1, <1>2, <1>3, BitsOfByte, ZenonT(40)

\* What the validation says of the fields of a VEX or EVEX prefix.
LEMMA ValidVex ==
  ASSUME NEW spec, NEW i, IsEncoded(spec, i), spec.type # "legacy"
  PROVE  /\ i.vex \in VexOrEvexPrefix /\ i.kind = spec.type /\ i.vex.map \in Maps /\ i.vex.pfx \in Vectors
         /\ i.vex.v \in Nat /\ i.vex.len \in Nat /\ i.vex.nr \in Nat /\ i.vex.suffix \in Nat /\ i.vex.aaa \in Nat
         /\ i.vex.nb \in 0..1 /\ i.vex.nx \in 0..1 /\ i.vex.w \in 0..1 /\ i.vex.z \in 0..1 /\ i.vex.bc \in 0..1
         /\ spec.type = "VEX" => i.vex.len \in 0..1 /\ i.vex.v \in 0..15
         /\ spec.type = "EVEX" => i.vex.len \in 0..2 /\ i.vex.v \in 0..31
<1>1. i.vex \in VexOrEvexPrefix /\ spec.type \in {"VEX", "EVEX"} /\ ValidateVexFields(spec, i)
  BY EncodedSpec, InstructionFields DEF Validate, ValidatePrefix, ValidateVexPrefix, ValidateEvexPrefix
<1>2. i.kind = spec.type /\ i.vex.map \in Maps /\ i.vex.pfx \in Vectors
  BY <1>1, VexNames DEF ValidateVexFields, ValidateMapSelectBits
<1>3. i.vex.v \in Nat /\ i.vex.len \in Nat /\ i.vex.nr \in Nat /\ i.vex.suffix \in Nat /\ i.vex.aaa \in Nat
  BY <1>1, VexNumbers, Zenon
<1>4. i.vex.nb \in 0..1 /\ i.vex.nx \in 0..1 /\ i.vex.w \in 0..1 /\ i.vex.z \in 0..1 /\ i.vex.bc \in 0..1
  BY <1>1, VexFlags, Zenon
<1>5. ValidateVexRegisterOperandBits(spec, i.vex.v) /\ ValidateVectorSizeBits(spec.vex.len, i.vex.len, spec.type)
  BY <1>1 DEF ValidateVexFields
<1>6. spec.type = "VEX" => i.vex.v \in 0..15
  BY <1>5 DEF ValidateVexRegisterOperandBits
<1>7. spec.type = "EVEX" => i.vex.v \in 0..31
  BY <1>5 DEF ValidateVexRegisterOperandBits
<1>8. \/ i.vex.len = 0 \/ i.vex.len = 1
      \/ spec.type = "EVEX" /\ i.vex.len = 2
  BY <1>5, Zenon DEF ValidateVectorSizeBits
<1>9. (spec.type = "VEX" => i.vex.len \in 0..1) /\ (spec.type = "EVEX" => i.vex.len \in 0..2)
  BY <1>8
<1> QED BY <1>1, <1>2, <1>3, <1>4, <1>6, <1>7, <1>9

\* The VEX and EVEX prefixes that the parser makes of their bytes.
ShortVexRead(b) == [VexTail(b) EXCEPT !.map = "0F", !.nr = Bit(b, 7), !.nx = 1, !.nb = 1]
LongVexRead(b, c) == [VexTail(c) EXCEPT !.w = Bit(c, 7), !.map = MapOf(Bits(b, 0, 5)),
                                        !.nr = Bit(b, 7), !.nx = Bit(b, 6), !.nb = Bit(b, 5)]
EvexRead(b, c, d) ==
  [NoVexBits EXCEPT
     !.nr = 2 * Bit(b, 7) + Bit(b, 4), !.nx = Bit(b, 6), !.nb = Bit(b, 5),
     !.map = MapOf(Bits(b, 0, 2)), !.w = Bit(c, 7), !.pfx = PrefixOf(Bits(c, 0, 2)),
     !.z = Bit(d, 7), !.len = Bits(d, 5, 7), !.bc = Bit(d, 4),
     !.v = Bits(c, 3, 7) + 16 * Bit(d, 3), !.aaa = Bits(d, 0, 3)]

LEMMA VexTailIs ==
  ASSUME NEW b
  PROVE  VexTail(b) = VexOf(PrefixOf(Bits(b, 0, 2)), "", 0, 0, 0, 0, Bits(b, 3, 7), Bit(b, 2), 0, 0, 0, 0)
<1>1. PICK v, len, pfx : v = Bits(b, 3, 7) /\ len = Bit(b, 2) /\ pfx = PrefixOf(Bits(b, 0, 2))
  OBVIOUS
<1>2. PICK e : e = [NoVexBits EXCEPT !.v = v]
  OBVIOUS
<1>3. PICK none : none = ""
  OBVIOUS
<1>4. e = VexOf(none, none, 0, 0, 0, 0, v, 0, 0, 0, 0, 0)
  <2>1. NoVexBits = VexOf(none, none, 0, 0, 0, 0, 0, 0, 0, 0, 0, 0)
    BY <1>3, NoVexBitsIs, Zenon
  <2> QED BY <1>2, <2>1 DEF VexOf
<1>5. PICK f : f = [e EXCEPT !.len = len]
  OBVIOUS
<1>6. f = VexOf(none, none, 0, 0, 0, 0, v, len, 0, 0, 0, 0)
  BY <1>4, <1>5 DEF VexOf
<1>7. [f EXCEPT !.pfx = pfx] = VexOf(pfx, none, 0, 0, 0, 0, v, len, 0, 0, 0, 0)
  BY <1>6 DEF VexOf
<1> QED BY <1>1, <1>2, <1>5, <1>7, <1>3, Zenon DEF VexTail

LEMMA ShortVexIs ==
  ASSUME NEW b
  PROVE  ShortVexRead(b) = VexOf(PrefixOf(Bits(b, 0, 2)), "0F", 1, Bit(b, 7), 1, 0, Bits(b, 3, 7), Bit(b, 2), 0, 0, 0, 0)
<1>1. PICK v, len, pfx, nr : v = Bits(b, 3, 7) /\ len = Bit(b, 2) /\ pfx = PrefixOf(Bits(b, 0, 2)) /\ nr = Bit(b, 7)
  OBVIOUS
<1>2. PICK e : e = [VexTail(b) EXCEPT !.map = "0F"]
  OBVIOUS
<1>3. e = VexOf(pfx, "0F", 0, 0, 0, 0, v, len, 0, 0, 0, 0)
  BY <1>1, <1>2, VexTailIs DEF VexOf
<1>4. PICK f : f = [e EXCEPT !.nr = nr]
  OBVIOUS
<1>5. f = VexOf(pfx, "0F", 0, nr, 0, 0, v, len, 0, 0, 0, 0)
  BY <1>3, <1>4 DEF VexOf
<1>6. PICK g : g = [f EXCEPT !.nx = 1]
  OBVIOUS
<1>7. g = VexOf(pfx, "0F", 0, nr, 1, 0, v, len, 0, 0, 0, 0)
  BY <1>5, <1>6 DEF VexOf
<1>8. [g EXCEPT !.nb = 1] = VexOf(pfx, "0F", 1, nr, 1, 0, v, len, 0, 0, 0, 0)
  BY <1>7 DEF VexOf
<1> QED BY <1>1, <1>2, <1>4, <1>6, <1>8, Zenon DEF ShortVexRead

LEMMA LongVexIs ==
  ASSUME NEW b, NEW c
  PROVE  LongVexRead(b, c) = VexOf(PrefixOf(Bits(c, 0, 2)), MapOf(Bits(b, 0, 5)), Bit(b, 5), Bit(b, 7), Bit(b, 6),
                                   Bit(c, 7), Bits(c, 3, 7), Bit(c, 2), 0, 0, 0, 0)
<1>1. PICK v, len, pfx : v = Bits(c, 3, 7) /\ len = Bit(c, 2) /\ pfx = PrefixOf(Bits(c, 0, 2))
  OBVIOUS
<1>2. PICK w, map, nr, nx, nb : /\ w = Bit(c, 7) /\ map = MapOf(Bits(b, 0, 5)) /\ nr = Bit(b, 7)
                                /\ nx = Bit(b, 6) /\ nb = Bit(b, 5)
  OBVIOUS
<1>3. PICK e : e = [VexTail(c) EXCEPT !.w = w]
  OBVIOUS
<1>4. e = VexOf(pfx, "", 0, 0, 0, w, v, len, 0, 0, 0, 0)
  BY <1>1, <1>3, VexTailIs DEF VexOf
<1>5. PICK f : f = [e EXCEPT !.map = map]
  OBVIOUS
<1>6. f = VexOf(pfx, map, 0, 0, 0, w, v, len, 0, 0, 0, 0)
  BY <1>4, <1>5 DEF VexOf
<1>7. PICK g : g = [f EXCEPT !.nr = nr]
  OBVIOUS
<1>8. g = VexOf(pfx, map, 0, nr, 0, w, v, len, 0, 0, 0, 0)
  BY <1>6, <1>7 DEF VexOf
<1>9. PICK h : h = [g EXCEPT !.nx = nx]
  OBVIOUS
<1>10. h = VexOf(pfx, map, 0, nr, nx, w, v, len, 0, 0, 0, 0)
  BY <1>8, <1>9 DEF VexOf
<1>11. [h EXCEPT !.nb = nb] = VexOf(pfx, map, nb, nr, nx, w, v, len, 0, 0, 0, 0)
  BY <1>10 DEF VexOf
<1> QED BY <1>1, <1>2, <1>3, <1>5, <1>7, <1>9, <1>11, Zenon DEF LongVexRead

LEMMA EvexIs ==
  ASSUME NEW b, NEW c, NEW d
  PROVE  EvexRead(b, c, d) =
           VexOf(PrefixOf(Bits(c, 0, 2)), MapOf(Bits(b, 0, 2)), Bit(b, 5), 2 * Bit(b, 7) + Bit(b, 4), Bit(b, 6),
                 Bit(c, 7), Bits(c, 3, 7) + 16 * Bit(d, 3), Bits(d, 5, 7), 0, Bit(d, 7), Bit(d, 4), Bits(d, 0, 3))
<1>1. PICK nr, nx, nb, map : /\ nr = 2 * Bit(b, 7) + Bit(b, 4) /\ nx = Bit(b, 6) /\ nb = Bit(b, 5)
                             /\ map = MapOf(Bits(b, 0, 2))
  OBVIOUS
<1>2. PICK w, pfx, z, len : w = Bit(c, 7) /\ pfx = PrefixOf(Bits(c, 0, 2)) /\ z = Bit(d, 7) /\ len = Bits(d, 5, 7)
  OBVIOUS
<1>3. PICK bc, v, aaa : bc = Bit(d, 4) /\ v = Bits(c, 3, 7) + 16 * Bit(d, 3) /\ aaa = Bits(d, 0, 3)
  OBVIOUS
<1>4. PICK e1 : e1 = [NoVexBits EXCEPT !.nr = nr]
  OBVIOUS
<1>5. e1 = VexOf("", "", 0, nr, 0, 0, 0, 0, 0, 0, 0, 0)
  BY <1>4, NoVexBitsIs DEF VexOf
<1>6. PICK e2 : e2 = [e1 EXCEPT !.nx = nx]
  OBVIOUS
<1>7. e2 = VexOf("", "", 0, nr, nx, 0, 0, 0, 0, 0, 0, 0)
  BY <1>5, <1>6 DEF VexOf
<1>8. PICK e3 : e3 = [e2 EXCEPT !.nb = nb]
  OBVIOUS
<1>9. e3 = VexOf("", "", nb, nr, nx, 0, 0, 0, 0, 0, 0, 0)
  BY <1>7, <1>8 DEF VexOf
<1>10. PICK e4 : e4 = [e3 EXCEPT !.map = map]
  OBVIOUS
<1>11. e4 = VexOf("", map, nb, nr, nx, 0, 0, 0, 0, 0, 0, 0)
  BY <1>9, <1>10 DEF VexOf
<1>12. PICK e5 : e5 = [e4 EXCEPT !.w = w]
  OBVIOUS
<1>13. e5 = VexOf("", map, nb, nr, nx, w, 0, 0, 0, 0, 0, 0)
  BY <1>11, <1>12 DEF VexOf
<1>14. PICK e6 : e6 = [e5 EXCEPT !.pfx = pfx]
  OBVIOUS
<1>15. e6 = VexOf(pfx, map, nb, nr, nx, w, 0, 0, 0, 0, 0, 0)
  BY <1>13, <1>14 DEF VexOf
<1>16. PICK e7 : e7 = [e6 EXCEPT !.z = z]
  OBVIOUS
<1>17. e7 = VexOf(pfx, map, nb, nr, nx, w, 0, 0, 0, z, 0, 0)
  BY <1>15, <1>16 DEF VexOf
<1>18. PICK e8 : e8 = [e7 EXCEPT !.len = len]
  OBVIOUS
<1>19. e8 = VexOf(pfx, map, nb, nr, nx, w, 0, len, 0, z, 0, 0)
  BY <1>17, <1>18 DEF VexOf
<1>20. PICK e9 : e9 = [e8 EXCEPT !.bc = bc]
  OBVIOUS
<1>21. e9 = VexOf(pfx, map, nb, nr, nx, w, 0, len, 0, z, bc, 0)
  BY <1>19, <1>20 DEF VexOf
<1>22. PICK e10 : e10 = [e9 EXCEPT !.v = v]
  OBVIOUS
<1>23. e10 = VexOf(pfx, map, nb, nr, nx, w, v, len, 0, z, bc, 0)
  BY <1>21, <1>22 DEF VexOf
<1>24. [e10 EXCEPT !.aaa = aaa] = VexOf(pfx, map, nb, nr, nx, w, v, len, 0, z, bc, aaa)
  BY <1>23 DEF VexOf
<1>25. EvexRead(b, c, d) = [e10 EXCEPT !.aaa = aaa]
  BY <1>1, <1>2, <1>3, <1>4, <1>6, <1>8, <1>10, <1>12, <1>14, <1>16, <1>18, <1>20, <1>22, Zenon DEF EvexRead
<1> QED BY <1>1, <1>2, <1>3, <1>24, <1>25, Zenon

\* The prefix with another operand and no suffix.
VexWithOperand(vex, v) ==
  VexOf(vex.pfx, vex.map, vex.nb, vex.nr, vex.nx, vex.w, v, vex.len, 0, vex.z, vex.bc, vex.aaa)

LEMMA VexWith ==
  ASSUME NEW vex \in VexOrEvexPrefix, NEW v
  PROVE  [vex EXCEPT !.v = v, !.suffix = 0] = VexWithOperand(vex, v)
<1>1. PICK pfx, map, nb, nr, nx, w : /\ pfx = vex.pfx /\ map = vex.map /\ nb = vex.nb /\ nr = vex.nr
                                     /\ nx = vex.nx /\ w = vex.w
  OBVIOUS
<1>2. PICK u, len, suffix, z, bc, aaa : /\ u = vex.v /\ len = vex.len /\ suffix = vex.suffix /\ z = vex.z
                                        /\ bc = vex.bc /\ aaa = vex.aaa
  OBVIOUS
<1>3. vex = VexOf(pfx, map, nb, nr, nx, w, u, len, suffix, z, bc, aaa)
  BY <1>1, <1>2, VexIsItsFields
<1>4. PICK e : e = [vex EXCEPT !.v = v]
  OBVIOUS
<1>5. e = VexOf(pfx, map, nb, nr, nx, w, v, len, suffix, z, bc, aaa)
  BY <1>3, <1>4 DEF VexOf
<1>6. [e EXCEPT !.suffix = 0] = VexOf(pfx, map, nb, nr, nx, w, v, len, 0, z, bc, aaa)
  BY <1>5 DEF VexOf
<1> QED BY <1>1, <1>2, <1>4, <1>6, Zenon DEF VexWithOperand

\* What is to be read of the prefix: everything but the suffix, which comes last.
OperandRead(spec, v) ==
  IF spec.type # "legacy" /\ spec.vex.usage = "NOT_USED" THEN IF spec.type = "VEX" THEN 15 ELSE 31 ELSE v

LEMMA VexReadIs ==
  ASSUME NEW spec, NEW i, i.vex \in VexOrEvexPrefix
  PROVE  VexRead(spec, i) = VexWithOperand(i.vex, OperandRead(spec, i.vex.v))
<1>1. VexRead(spec, i) = [i.vex EXCEPT !.v = OperandRead(spec, i.vex.v), !.suffix = 0]
  BY Zenon DEF VexRead, OperandRead
<1>2. [i.vex EXCEPT !.v = OperandRead(spec, i.vex.v), !.suffix = 0] = VexWithOperand(i.vex, OperandRead(spec, i.vex.v))
  BY VexWith
<1> QED BY <1>1, <1>2, Zenon

\* What the parser makes of the bytes of a VEX and of an EVEX prefix.
IsShortVexOf(s, vex) == \E b \in Nat : s = <<197, b>> /\ ShortVexRead(b) = vex
IsLongVexOf(s, vex)  == \E b, c \in Nat : s = <<196, b, c>> /\ LongVexRead(b, c) = vex
IsEvexOf(s, vex) ==
  \E b, c, d \in Nat : s = <<98, b, c, d>> /\ Bits(b, 2, 4) = 0 /\ Bit(c, 2) # 0 /\ EvexRead(b, c, d) = vex

LEMMA VexReadBack ==
  ASSUME NEW spec, NEW i, IsEncoded(spec, i), Fits(spec, i), spec.type = "VEX"
  PROVE  \/ IsShortVexOf(EncodeVexPrefix(spec, i), VexRead(spec, i))
         \/ IsLongVexOf(EncodeVexPrefix(spec, i), VexRead(spec, i))
<1>1. /\ i.vex \in VexOrEvexPrefix /\ i.vex.map \in Maps /\ i.vex.pfx \in Vectors
      /\ i.vex.nb \in 0..1 /\ i.vex.nx \in 0..1 /\ i.vex.w \in 0..1
      /\ i.vex.len \in 0..1 /\ i.vex.v \in 0..15
  BY ValidVex
<1>2. i.vex.nr \in 0..1 /\ i.vex.z = 0 /\ i.vex.bc = 0 /\ i.vex.aaa = 0
  <2>1. i.vex.nr < 2 /\ i.vex.z = 0 /\ i.vex.bc = 0 /\ i.vex.aaa = 0
    BY DEF Fits
  <2>2. i.vex.nr \in Nat
    BY <1>1, VexNumbers
  <2> QED BY <2>1, <2>2
<1>3. PICK nr \in 0..1, nx \in 0..1, nb \in 0..1, w \in 0..1 :
        nr = i.vex.nr /\ nx = i.vex.nx /\ nb = i.vex.nb /\ w = i.vex.w
  BY <1>1, <1>2
<1>4. PICK v \in 0..15, len \in 0..1 : v = OperandRead(spec, i.vex.v) /\ len = i.vex.len
  <2>1. OperandRead(spec, i.vex.v) = 15 \/ OperandRead(spec, i.vex.v) = i.vex.v
    BY DEF OperandRead
  <2>2. OperandRead(spec, i.vex.v) \in 0..15
    BY <1>1, <2>1
  <2> QED BY <1>1, <2>2
<1>5. PICK map \in 1..3, pfx \in 0..3 : /\ map = MapSelectBits[i.vex.map] /\ MapOf(map) = i.vex.map
                                        /\ pfx = MandatoryBits[i.vex.pfx] /\ PrefixOf(pfx) = i.vex.pfx
  BY <1>1, TablesAgree
<1>6. Bits(v, 0, 4) = v
  <2>1. v \in Nat /\ v % 16 = v
    OBVIOUS
  <2> QED BY <2>1, BitsOfByte
<1>7. VexRead(spec, i) = VexOf(i.vex.pfx, i.vex.map, nb, nr, nx, w, v, len, 0, 0, 0, 0)
  <2>1. VexRead(spec, i) = VexWithOperand(i.vex, v)
    BY <1>1, <1>4, VexReadIs
  <2> QED BY <1>2, <1>3, <1>4, <2>1, Zenon DEF VexWithOperand
<1>8. EncodeVexPrefix(spec, i) =
        IF nx = 1 /\ nb = 1 /\ w = 0 /\ i.vex.map = "0F" THEN ShortVex(nr, v, len, pfx)
        ELSE LongVex(nr, nx, nb, map, w, v, len, pfx)
  <2>1. spec.type # "legacy"
    OBVIOUS
  <2>2. (IF spec.vex.usage = "NOT_USED" THEN 15 ELSE i.vex.v) = v
    BY <1>4, <2>1, Zenon DEF OperandRead
  <2> DEFINE low == Bits(IF spec.vex.usage = "NOT_USED" THEN 15 ELSE i.vex.v, 0, 4)
  <2>3. EncodeVexPrefix(spec, i) =
          IF i.vex.nx = 1 /\ i.vex.nb = 1 /\ i.vex.w = 0 /\ i.vex.map = "0F"
          THEN ShortVex(i.vex.nr, low, i.vex.len, MandatoryBits[i.vex.pfx])
          ELSE LongVex(i.vex.nr, i.vex.nx, i.vex.nb, MapSelectBits[i.vex.map], i.vex.w, low, i.vex.len,
                       MandatoryBits[i.vex.pfx])
    BY Zenon DEF EncodeVexPrefix, ShortVex, LongVex
  <2>4. low = v
    BY <1>6, <2>2, Zenon
  <2> HIDE DEF low
  <2> QED BY <1>3, <1>4, <1>5, <2>3, <2>4
<1>9. CASE nx = 1 /\ nb = 1 /\ w = 0 /\ i.vex.map = "0F"
  <2>1. PICK b \in Nat : b = 128 * nr + (8 * v + 4 * len + pfx)
    <3>1. 128 * nr + (8 * v + 4 * len + pfx) \in Nat
      OBVIOUS
    <3> QED BY <3>1
  <2>2. Bit(b, 7) = nr /\ Bits(b, 3, 7) = v /\ Bit(b, 2) = len /\ Bits(b, 0, 2) = pfx
    BY <2>1, VexTailReadBack
  <2>3. ShortVexRead(b) = VexOf(i.vex.pfx, i.vex.map, nb, nr, nx, w, v, len, 0, 0, 0, 0)
    BY <1>5, <1>9, <2>2, ShortVexIs, Zenon
  <2>4. EncodeVexPrefix(spec, i) = <<197, b>>
    BY <1>8, <1>9, <2>1, Zenon DEF ShortVex
  <2> QED BY <1>7, <2>3, <2>4, Zenon DEF IsShortVexOf
<1>10. CASE ~ (nx = 1 /\ nb = 1 /\ w = 0 /\ i.vex.map = "0F")
  <2>1. PICK b \in Nat, c \in Nat : b = 128 * nr + 64 * nx + 32 * nb + map /\ c = 128 * w + (8 * v + 4 * len + pfx)
    <3>1. 128 * nr + 64 * nx + 32 * nb + map \in Nat /\ 128 * w + (8 * v + 4 * len + pfx) \in Nat
      OBVIOUS
    <3> QED BY <3>1
  <2>2. Bit(b, 7) = nr /\ Bit(b, 6) = nx /\ Bit(b, 5) = nb /\ Bits(b, 0, 5) = map
    BY <2>1, VexMapReadBack
  <2>3. Bit(c, 7) = w /\ Bits(c, 3, 7) = v /\ Bit(c, 2) = len /\ Bits(c, 0, 2) = pfx
    BY <2>1, VexTailReadBack
  <2>4. LongVexRead(b, c) = VexOf(i.vex.pfx, i.vex.map, nb, nr, nx, w, v, len, 0, 0, 0, 0)
    BY <1>5, <2>2, <2>3, LongVexIs, Zenon
  <2>5. EncodeVexPrefix(spec, i) = <<196, b, c>>
    BY <1>8, <1>10, <2>1, Zenon DEF LongVex
  <2> QED BY <1>7, <2>4, <2>5, Zenon DEF IsLongVexOf
<1> QED BY <1>9, <1>10

LEMMA EvexReadBack ==
  ASSUME NEW spec, NEW i, IsEncoded(spec, i), Fits(spec, i), spec.type = "EVEX"
  PROVE  IsEvexOf(EncodeEvexPrefix(spec, i), VexRead(spec, i))
<1>1. /\ i.vex \in VexOrEvexPrefix /\ i.vex.map \in Maps /\ i.vex.pfx \in Vectors
      /\ i.vex.nb \in 0..1 /\ i.vex.nx \in 0..1 /\ i.vex.w \in 0..1 /\ i.vex.z \in 0..1 /\ i.vex.bc \in 0..1
      /\ i.vex.len \in 0..2 /\ i.vex.v \in 0..31
  BY ValidVex
<1>2. i.vex.nr \in {0, 3} /\ i.vex.aaa \in 0..7 /\ i.vex.suffix = 0 /\ (spec.vex.usage = "NOT_USED" => i.vex.v = 31)
  <2>1. /\ i.vex.nr \in {0, 3} /\ i.vex.aaa < 8 /\ i.vex.suffix = 0
        /\ spec.vex.usage = "NOT_USED" => i.vex.v = 31
    BY DEF Fits
  <2>2. i.vex.aaa \in Nat
    BY <1>1, VexNumbers
  <2> QED BY <2>1, <2>2
<1>3. PICK nx \in 0..1, nb \in 0..1, w \in 0..1, z \in 0..1 :
        nx = i.vex.nx /\ nb = i.vex.nb /\ w = i.vex.w /\ z = i.vex.z
  BY <1>1
<1>4. PICK v \in 0..31, len \in 0..3, bc \in 0..1, aaa \in 0..7 :
        v = i.vex.v /\ len = i.vex.len /\ bc = i.vex.bc /\ aaa = i.vex.aaa
  <2>1. i.vex.len \in 0..3
    BY <1>1
  <2> QED BY <1>1, <1>2, <2>1, Zenon
<1>5. PICK map \in 1..3, pfx \in 0..3 : /\ map = MapSelectBits[i.vex.map] /\ MapOf(map) = i.vex.map
                                        /\ pfx = MandatoryBits[i.vex.pfx] /\ PrefixOf(pfx) = i.vex.pfx
  BY <1>1, TablesAgree
<1>6. PICK nr \in Nat, r0 \in 0..1, r1 \in 0..1 : /\ nr = i.vex.nr /\ r0 = Bit(i.vex.nr, 0) /\ r1 = Bit(i.vex.nr, 1)
                                                  /\ 2 * r0 + r1 = nr
  <2>1. PICK nr \in Nat : nr = i.vex.nr /\ (nr = 0 \/ nr = 3)
    BY <1>2
  <2>2. Bit(nr, 0) = nr % 2 /\ Bit(nr, 1) = (nr \div 2) % 2
    BY <2>1, BitsOfByte
  <2>3. PICK r0 \in 0..1, r1 \in 0..1 : r0 = nr % 2 /\ r1 = (nr \div 2) % 2
    OBVIOUS
  <2>4. 2 * r0 + r1 = nr
    <3>1. CASE nr = 0
      BY <2>3, <3>1
    <3>2. CASE nr = 3
      BY <2>3, <3>2
    <3> QED BY <2>1, <3>1, <3>2
  <2> QED BY <2>1, <2>2, <2>3, <2>4
<1>7. PICK low \in 0..15, v4 \in 0..1 : low = Bits(v, 0, 4) /\ v4 = Bit(v, 4) /\ low + 16 * v4 = v
  <2>1. v \in Nat /\ v % 16 \in 0..15 /\ (v \div 16) % 2 \in 0..1 /\ (v % 16) + 16 * ((v \div 16) % 2) = v
    OBVIOUS
  <2>2. Bits(v, 0, 4) = v % 16 /\ Bit(v, 4) = (v \div 16) % 2
    BY <2>1, BitsOfByte
  <2> QED BY <2>1, <2>2
<1>8. aaa = Bits(aaa, 0, 3) /\ len = Bits(len, 0, 2)
  <2>1. aaa \in Nat /\ len \in Nat /\ aaa % 8 = aaa /\ len % 4 = len
    OBVIOUS
  <2> QED BY <2>1, BitsOfByte
<1>9. VexRead(spec, i) = VexOf(i.vex.pfx, i.vex.map, nb, nr, nx, w, v, len, 0, z, bc, aaa)
  <2>1. OperandRead(spec, i.vex.v) = v
    <3>1. "EVEX" # "legacy" /\ "EVEX" # "VEX"
      OBVIOUS
    <3> QED BY <1>2, <1>4, <3>1, Zenon DEF OperandRead
  <2>2. VexRead(spec, i) = VexWithOperand(i.vex, v)
    BY <1>1, <2>1, VexReadIs
  <2> QED BY <1>3, <1>4, <1>6, <2>2, Zenon DEF VexWithOperand
<1>10. EncodeEvexPrefix(spec, i) = Evex(r0, nx, nb, r1, map, w, low, pfx, z, len, bc, v4, aaa)
  <2>1. (IF spec.vex.usage = "NOT_USED" THEN 31 ELSE i.vex.v) = v
    BY <1>2, <1>4, Zenon
  <2> DEFINE vex == i.vex
             bits == Bits(IF spec.vex.usage = "NOT_USED" THEN 31 ELSE vex.v, 0, 4)
  <2>2. EncodeEvexPrefix(spec, i) =
          Evex(Bit(vex.nr, 0), vex.nx, vex.nb, Bit(vex.nr, 1), MapSelectBits[vex.map], vex.w, bits,
               MandatoryBits[vex.pfx], vex.z, Bits(vex.len, 0, 2), vex.bc, Bit(vex.v, 4), Bits(vex.aaa, 0, 3))
    BY Zenon DEF EncodeEvexPrefix, Evex
  <2>3. bits = low
    BY <1>7, <2>1, Zenon
  <2>4. Bits(vex.len, 0, 2) = len /\ Bit(vex.v, 4) = v4 /\ Bits(vex.aaa, 0, 3) = aaa
    BY <1>4, <1>7, <1>8, Zenon
  <2> HIDE DEF bits
  <2> QED BY <1>3, <1>4, <1>5, <1>6, <2>2, <2>3, <2>4
<1>11. PICK b \in Nat, c \in Nat, d \in Nat : /\ b = 128 * r0 + 64 * nx + 32 * nb + 16 * r1 + map
                                              /\ c = 128 * w + 8 * low + 4 + pfx
                                              /\ d = 128 * z + 32 * len + 16 * bc + 8 * v4 + aaa
  <2>1. /\ 128 * r0 + 64 * nx + 32 * nb + 16 * r1 + map \in Nat /\ 128 * w + 8 * low + 4 + pfx \in Nat
        /\ 128 * z + 32 * len + 16 * bc + 8 * v4 + aaa \in Nat
    OBVIOUS
  <2> QED BY <2>1
<1>12. /\ Bit(b, 7) = r0 /\ Bit(b, 6) = nx /\ Bit(b, 5) = nb /\ Bit(b, 4) = r1 /\ Bits(b, 2, 4) = 0
       /\ Bits(b, 0, 2) = map
  BY <1>11, EvexMapReadBack
<1>13. Bit(c, 7) = w /\ Bits(c, 3, 7) = low /\ Bit(c, 2) = 1 /\ Bits(c, 0, 2) = pfx
  BY <1>11, EvexTailReadBack
<1>14. Bit(d, 7) = z /\ Bits(d, 5, 7) = len /\ Bit(d, 4) = bc /\ Bit(d, 3) = v4 /\ Bits(d, 0, 3) = aaa
  BY <1>11, EvexLastReadBack
<1>15. EvexRead(b, c, d) = VexOf(i.vex.pfx, i.vex.map, nb, nr, nx, w, v, len, 0, z, bc, aaa)
  BY <1>5, <1>6, <1>7, <1>12, <1>13, <1>14, EvexIs, Zenon
<1>16. EncodeEvexPrefix(spec, i) = <<98, b, c, d>>
  BY <1>10, <1>11, Zenon DEF Evex
<1>17. Bit(c, 2) # 0
  BY <1>13
<1> QED BY <1>9, <1>12, <1>15, <1>16, <1>17, Zenon DEF IsEvexOf

-----------------------------------------------------------------------------
(* The ModR/M and SIB bytes and the opcode, read back.                     *)

LEMMA JoinedIs ==
  ASSUME NEW u \in Seq(Nat), NEW w \in Seq(Nat), NEW t \in Seq(Nat), Len(w) = 1, Len(t) = Len(u) + 1,
         \A k \in 1..Len(u) : t[k] = u[k], t[Len(u) + 1] = w[1]
  PROVE  u \o w = t
<1>1. PICK n \in Nat : n = Len(u)
  OBVIOUS
<1>2. PICK s \in Seq(Nat) : s = u \o w /\ Len(s) = n + 1 /\ s[n + 1] = w[1] /\ \A k \in 1..n : s[k] = u[k]
  <2>1. 1 \in 1..Len(w)
    OBVIOUS
  <2>2. u \o w \in Seq(Nat) /\ Len(u \o w) = Len(u) + Len(w) /\ \A k \in 1..Len(u) : (u \o w)[k] = u[k]
    BY Elements
  <2>3. (u \o w)[Len(u) + 1] = w[1]
    BY <2>1, Elements
  <2> QED BY <1>1, <2>2, <2>3
<1>3. \A k \in 1..(n + 1) : s[k] = t[k]
  <2>1. \A k \in 1..(n + 1) : k \in 1..n \/ k = n + 1
    OBVIOUS
  <2> QED BY <1>1, <1>2, <2>1
<1> QED BY <1>1, <1>2, <1>3, SeqEqual

LEMMA BytesJoined ==
  ASSUME NEW a \in Nat, NEW b \in Nat, NEW c \in Nat
  PROVE  <<>> \o <<b>> \o <<c>> = <<b, c>> /\ <<a>> \o <<b>> \o <<c>> = <<a, b, c>>
<1>1. ASSUME NEW x \in Nat PROVE \E u \in Seq(Nat) : u = <<x>> /\ Len(u) = 1 /\ u[1] = x
  <2>1. <<x>> \in Seq(Nat) /\ Len(<<x>>) = 1 /\ <<x>>[1] = x
    OBVIOUS
  <2> QED BY <2>1
<1>2. ASSUME NEW x \in Nat, NEW y \in Nat
      PROVE  \E u \in Seq(Nat) : u = <<x, y>> /\ Len(u) = 2 /\ u[1] = x /\ u[2] = y
  <2>1. <<x, y>> \in Seq(Nat) /\ Len(<<x, y>>) = 2 /\ <<x, y>>[1] = x /\ <<x, y>>[2] = y
    OBVIOUS
  <2> QED BY <2>1
<1>3. PICK t \in Seq(Nat) : t = <<a, b, c>> /\ Len(t) = 3 /\ t[1] = a /\ t[2] = b /\ t[3] = c
  <2>1. <<a, b, c>> \in Seq(Nat) /\ Len(<<a, b, c>>) = 3 /\ <<a, b, c>>[1] = a /\ <<a, b, c>>[2] = b /\ <<a, b, c>>[3] = c
    OBVIOUS
  <2> QED BY <2>1
<1>4. ASSUME NEW x \in Nat, NEW y \in Nat PROVE <<x>> \o <<y>> = <<x, y>>
  <2>1. PICK u \in Seq(Nat) : u = <<x>> /\ Len(u) = 1 /\ u[1] = x
    BY <1>1
  <2>2. PICK w \in Seq(Nat) : w = <<y>> /\ Len(w) = 1 /\ w[1] = y
    BY <1>1
  <2>3. PICK v \in Seq(Nat) : v = <<x, y>> /\ Len(v) = 2 /\ v[1] = x /\ v[2] = y
    BY <1>2, ZenonT(40)
  <2>4. /\ \A k \in 1..Len(u) : v[k] = u[k]
        /\ v[Len(u) + 1] = w[1] /\ Len(v) = Len(u) + 1
    BY <2>1, <2>2, <2>3
  <2>5. u \o w = v
    BY <2>2, <2>4, JoinedIs
  <2> QED BY <2>1, <2>2, <2>3, <2>5, Zenon
<1>5. <<>> \o <<b>> = <<b>>
  OBVIOUS
<1>6. <<a, b>> \o <<c>> = <<a, b, c>>
  <2>1. PICK u \in Seq(Nat) : u = <<a, b>> /\ Len(u) = 2 /\ u[1] = a /\ u[2] = b
    BY <1>2, ZenonT(40)
  <2>2. PICK w \in Seq(Nat) : w = <<c>> /\ Len(w) = 1 /\ w[1] = c
    BY <1>1
  <2>3. \A k \in 1..2 : k = 1 \/ k = 2
    OBVIOUS
  <2>4. /\ \A k \in 1..Len(u) : t[k] = u[k]
        /\ t[Len(u) + 1] = w[1] /\ Len(t) = Len(u) + 1
    BY <1>3, <2>1, <2>2, <2>3
  <2>5. u \o w = t
    BY <2>2, <2>4, JoinedIs
  <2> QED BY <1>3, <2>1, <2>2, <2>5, Zenon
<1> QED BY <1>4, <1>5, <1>6, Zenon

LEMMA OpcodeNumberStep ==
  ASSUME NEW seq, NEW n \in 1..3
  PROVE  OpcodeNumber(seq, n + 1) = 256 * OpcodeNumber(seq, n) + seq[n + 1]
<1>1. n = 1 \/ n = 2 \/ n = 3
  OBVIOUS
<1>2. CASE n = 1
  BY <1>2, SMT DEF OpcodeNumber
<1>3. CASE n = 2
  BY <1>3, SMT DEF OpcodeNumber
<1>4. CASE n = 3
  BY <1>4, SMT DEF OpcodeNumber
<1> QED BY <1>1, <1>2, <1>3, <1>4

\* The bytes of an opcode, from the highest that is not zero.
LEMMA OpcodeFromIs ==
  ASSUME NEW op \in Nat, TopOf(op) < 256
  PROVE  \/ OpcodeFrom(op) = <<op>> /\ op < 256
         \/ \E b1, b2 \in Nat : OpcodeFrom(op) = <<b1, b2>> /\ b1 >= 1 /\ op = 256 * b1 + b2
         \/ \E b1, b2, b3 \in Nat :
              OpcodeFrom(op) = <<b1, b2, b3>> /\ b1 >= 1 /\ op = 256 * (256 * b1 + b2) + b3
<1>1. PICK h \in Nat, b3 \in 0..255 : h = op \div 256 /\ b3 = op % 256 /\ op = 256 * h + b3
  <2>1. op \div 256 \in Nat /\ op % 256 \in 0..255 /\ op = 256 * (op \div 256) + (op % 256)
    OBVIOUS
  <2> QED BY <2>1
<1>2. PICK b1 \in Nat, b2 \in 0..255 : b1 = h \div 256 /\ b2 = h % 256 /\ h = 256 * b1 + b2
  <2>1. h \div 256 \in Nat /\ h % 256 \in 0..255 /\ h = 256 * (h \div 256) + (h % 256)
    OBVIOUS
  <2> QED BY <2>1
<1>3. TopOf(op) = b1 /\ (IsWide(op) <=> b1 >= 1)
  BY <1>1, <1>2, TopIs
<1>4. OpcodeFrom(op) = ByteIf(IsWide(op), b1) \o ByteIf(op > 255, b2) \o <<b3>>
  <2>1. (op \div 256) % 256 = b2
    BY <1>1, <1>2, Zenon
  <2>2. ~ IsWidest(op) /\ TopOf(op) % 256 = b1
    BY <1>3, TopIs
  <2>3. PICK s \in Seq(Nat) : s = ByteIf(IsWide(op), b1)
    BY ByteIfType
  <2>4. <<>> \o s = s
    OBVIOUS
  <2>5. ByteIf(IsWidest(op), FirstOf(op)) = <<>>
    BY <2>2 DEF ByteIf
  <2>6. OpcodeFrom(op) = <<>> \o s \o ByteIf(op > 255, b2) \o <<b3>>
    BY <1>1, <2>1, <2>2, <2>3, <2>5, Zenon DEF OpcodeFrom
  <2> QED BY <2>3, <2>4, <2>6, Zenon
<1>5. CASE h = 0
  <2>1. ~ IsWide(op) /\ ~ (op > 255) /\ b3 = op
    BY <1>1, <1>2, <1>3, <1>5
  <2>2. OpcodeFrom(op) = <<>> \o <<>> \o <<b3>>
    BY <1>4, <2>1, Zenon DEF ByteIf
  <2>3. <<>> \o <<>> \o <<b3>> = <<b3>>
    OBVIOUS
  <2> QED BY <2>1, <2>2, <2>3
<1>6. CASE h >= 1 /\ b1 = 0
  <2>1. ~ IsWide(op) /\ op > 255 /\ b2 >= 1 /\ op = 256 * b2 + b3
    BY <1>1, <1>2, <1>3, <1>6
  <2>2. OpcodeFrom(op) = <<>> \o <<b2>> \o <<b3>>
    BY <1>4, <2>1, Zenon DEF ByteIf
  <2>3. <<>> \o <<b2>> \o <<b3>> = <<b2, b3>>
    BY BytesJoined
  <2>4. b2 \in Nat /\ b3 \in Nat
    OBVIOUS
  <2> QED BY <2>1, <2>2, <2>3, <2>4, ZenonT(40)
<1>7. CASE b1 >= 1
  <2>1. IsWide(op) /\ op > 255 /\ op = 256 * (256 * b1 + b2) + b3
    BY <1>1, <1>2, <1>3, <1>7
  <2>2. OpcodeFrom(op) = <<b1>> \o <<b2>> \o <<b3>>
    BY <1>4, <2>1, Zenon DEF ByteIf
  <2>3. <<b1>> \o <<b2>> \o <<b3>> = <<b1, b2, b3>>
    BY BytesJoined
  <2>4. b2 \in Nat /\ b3 \in Nat
    OBVIOUS
  <2>5. OpcodeFrom(op) = <<b1, b2, b3>>
    BY <2>2, <2>3, Zenon
  <2>6. \E a, b, c \in Nat : OpcodeFrom(op) = <<a, b, c>> /\ a >= 1 /\ op = 256 * (256 * a + b) + c
    <3> HIDE DEF IsWide
    <3> QED BY <1>7, <2>1, <2>4, <2>5
  <2> QED BY <2>6
<1>8. h = 0 \/ (h >= 1 /\ b1 = 0) \/ b1 >= 1
  OBVIOUS
<1> QED BY <1>5, <1>6, <1>7, <1>8

LEMMA LegacyOpcodeIs ==
  ASSUME rest \in Seq(Nat), NEW n \in 1..4, n <= Len(rest)
  PROVE  LegacyOpcode(n) = OpcodeNumber(rest, n)
<1>1. PICK seq \in Seq(Nat) : seq = SubSeq(rest, 1, n) /\ Len(seq) = n
  <2>1. SubSeq(rest, 1, n) \in Seq(Nat) /\ Len(SubSeq(rest, 1, n)) = n
    OBVIOUS
  <2> QED BY <2>1
<1>2. LegacyOpcode(n) = OpcodeNumber(seq, n)
  <2>1. Len(seq) <= 4
    BY <1>1
  <2>2. OpcodeOfBytes(seq) = OpcodeNumber(seq, Len(seq))
    BY <2>1, OpcodeOfBytesIs
  <2> QED BY <1>1, <2>2, Zenon DEF LegacyOpcode, OpcodeOfBytes
<1>3. \A k \in 1..n : seq[k] = rest[k]
  BY <1>1
<1>4. OpcodeNumber(seq, n) = OpcodeNumber(rest, n)
  <2>1. seq[1] = rest[1] /\ (n >= 2 => seq[2] = rest[2]) /\ (n >= 3 => seq[3] = rest[3]) /\ (n >= 4 => seq[4] = rest[4])
    BY <1>3
  <2>2. CASE n = 1
    BY <2>1, <2>2 DEF OpcodeNumber
  <2>3. CASE n = 2
    BY <2>1, <2>3 DEF OpcodeNumber
  <2>4. CASE n = 3
    BY <2>1, <2>4 DEF OpcodeNumber
  <2>5. CASE n = 4
    BY <2>1, <2>5 DEF OpcodeNumber
  <2> QED BY <2>2, <2>3, <2>4, <2>5
<1> QED BY <1>2, <1>4

LEMMA OpcodeFoundIs ==
  ASSUME rest \in Seq(Nat), rest # <<>>, instruction.kind = "legacy", OpcodeLength > 1, OpcodeLength \in 1..4
  PROVE  OpcodeLength <= Len(rest) /\ Reached(OpcodeLength)
<1> DEFINE S == {Len(rest), MaxOpcodeBytes}
<1>1. S \in SUBSET Nat /\ S # {} /\ Len(rest) \in S
  BY DEF MaxOpcodeBytes
<1>2. Min(S) \in Nat /\ Min(S) <= Len(rest) /\ Min(S) <= 4
  <2>1. Min(S) \in S /\ \A x \in S : Min(S) <= x
    <3> HIDE DEF S
    <3> QED BY <1>1, LeastExists DEF Min
  <2>2. MaxOpcodeBytes \in S /\ MaxOpcodeBytes = 4
    BY DEF MaxOpcodeBytes
  <2> HIDE DEF S
  <2> QED BY <1>1, <2>1, <2>2
<1>3. OpcodesFound(2) \cup {1} \in SUBSET (0..4)
  <2>1. \A n \in OpcodesFound(2) : n \in 2..Min(S)
    BY DEF OpcodesFound
  <2> HIDE DEF S
  <2> QED BY <1>2, <2>1
<1>4. OpcodeLength \in OpcodesFound(2) \cup {1}
  BY <1>3, MaxOfFew DEF OpcodeLength
<1>5. OpcodeLength \in OpcodesFound(2)
  BY <1>4
<1>6. OpcodeLength \in 2..Min(S) /\ Reached(OpcodeLength)
  BY <1>5 DEF OpcodesFound
<1> HIDE DEF S
<1> QED BY <1>2, <1>6

\* A loop that found the opcode of a legacy instruction has read the bytes of it: fewer make a
\* smaller number, more a larger one.
LEMMA OpcodeReadBack ==
  ASSUME rest \in Seq(Nat), rest # <<>>, instruction.kind = "legacy",
         NEW op \in Nat, TopOf(op) < 256, LegacyOpcode(OpcodeLength) = op,
         \A k \in 1..Len(rest) : k <= Len(OpcodeFrom(op)) => rest[k] = OpcodeFrom(op)[k]
  PROVE  OpcodeLength = Len(OpcodeFrom(op)) /\ OpcodeLength <= Len(rest)
<1>1. PICK l \in 1..4 : l = OpcodeLength
  BY OpcodeLengthType
<1>2. l <= Len(rest) /\ (l > 1 => Reached(l))
  <2>1. CASE l = 1
    <3>1. Len(rest) \in Nat /\ Len(rest) # 0
      OBVIOUS
    <3> QED BY <2>1, <3>1
  <2>2. CASE l > 1
    BY <1>1, <2>2, OpcodeFoundIs
  <2> QED BY <2>1, <2>2
<1>3. \A k \in 1..l : rest[k] \in Nat
  BY <1>2
<1>4. OpcodeNumber(rest, l) = op
  BY <1>1, <1>2, LegacyOpcodeIs
<1>5. CASE OpcodeFrom(op) = <<op>> /\ op < 256
  <2>1. rest[1] = op /\ Len(OpcodeFrom(op)) = 1
    BY <1>2, <1>5
  <2>2. l = 1
    <3>1. SUFFICES ASSUME l > 1 PROVE FALSE
      OBVIOUS
    <3>2. op # 0
      <4>1. IsLegacyOpcodePrefix(LegacyOpcode(1))
        BY <1>2, <3>1 DEF Reached
      <4>2. LegacyOpcode(1) # 0
        BY <4>1 DEF IsLegacyOpcodePrefix, legacy_opcode_prefixes
      <4>3. LegacyOpcode(1) = rest[1]
        BY <1>2, LegacyOpcodeIs DEF OpcodeNumber
      <4> QED BY <2>1, <4>2, <4>3
    <3>3. CASE l = 2
      <4>1. PICK b \in Nat : b = rest[2]
        BY <1>3, <3>3
      <4> QED BY <1>4, <2>1, <3>2, <3>3, <4>1 DEF OpcodeNumber
    <3>4. CASE l = 3
      <4>1. PICK b \in Nat, c \in Nat : b = rest[2] /\ c = rest[3]
        BY <1>3, <3>4
      <4>2. OpcodeNumber(rest, 3) = 256 * (256 * op + b) + c
        BY <2>1, <4>1 DEF OpcodeNumber
      <4>3. 256 * (256 * op + b) + c # op
        BY <3>2
      <4> QED BY <1>4, <3>4, <4>2, <4>3
    <3>5. CASE l = 4
      <4>1. PICK b \in Nat, c \in Nat, d \in Nat : b = rest[2] /\ c = rest[3] /\ d = rest[4]
        BY <1>3, <3>5
      <4>2. OpcodeNumber(rest, 4) = 256 * (256 * (256 * op + b) + c) + d
        BY <2>1, <4>1 DEF OpcodeNumber
      <4>3. 256 * (256 * (256 * op + b) + c) + d # op
        BY <3>2
      <4> QED BY <1>4, <3>5, <4>2, <4>3
    <3> QED BY <3>1, <3>3, <3>4, <3>5
  <2> QED BY <1>1, <1>2, <2>1, <2>2
<1>6. CASE \E b1, b2 \in Nat : OpcodeFrom(op) = <<b1, b2>> /\ b1 >= 1 /\ op = 256 * b1 + b2
  <2>1. PICK b1 \in Nat, b2 \in Nat : OpcodeFrom(op) = <<b1, b2>> /\ b1 >= 1 /\ op = 256 * b1 + b2
    BY <1>6
  <2>2. rest[1] = b1 /\ (l > 1 => rest[2] = b2) /\ Len(OpcodeFrom(op)) = 2
    <3>1. Len(OpcodeFrom(op)) = 2 /\ OpcodeFrom(op)[1] = b1 /\ OpcodeFrom(op)[2] = b2
      BY <2>1
    <3> QED BY <1>2, <3>1, SMTT(40)
  <2>3. CASE l = 1
    BY <1>4, <2>1, <2>2, <2>3 DEF OpcodeNumber
  <2>4. CASE l = 2
    BY <1>1, <1>2, <2>2, <2>4
  <2>5. CASE l = 3
    <3>1. PICK c \in Nat : c = rest[3]
      BY <1>3, <2>5
    <3> QED BY <1>4, <2>1, <2>2, <2>5, <3>1, SMTT(40) DEF OpcodeNumber
  <2>6. CASE l = 4
    <3>1. PICK c \in Nat, d \in Nat : c = rest[3] /\ d = rest[4]
      BY <1>3, <2>6
    <3>2. OpcodeNumber(rest, 4) = 256 * (256 * op + c) + d
      <4>1. OpcodeNumber(rest, 2) = op
        BY <2>1, <2>2, <2>6 DEF OpcodeNumber
      <4>2. OpcodeNumber(rest, 2 + 1) = 256 * OpcodeNumber(rest, 2) + rest[2 + 1]
        BY OpcodeNumberStep
      <4>3. OpcodeNumber(rest, 3 + 1) = 256 * OpcodeNumber(rest, 3) + rest[3 + 1]
        BY OpcodeNumberStep
      <4> QED BY <3>1, <4>1, <4>2, <4>3
    <3>3. 256 * (256 * op + c) + d # op
      BY <2>1
    <3> QED BY <1>4, <2>6, <3>2, <3>3
  <2> QED BY <2>3, <2>4, <2>5, <2>6
<1>7. CASE \E b1, b2, b3 \in Nat :
             OpcodeFrom(op) = <<b1, b2, b3>> /\ b1 >= 1 /\ op = 256 * (256 * b1 + b2) + b3
  <2>1. PICK b1 \in Nat, b2 \in Nat, b3 \in Nat :
          OpcodeFrom(op) = <<b1, b2, b3>> /\ b1 >= 1 /\ op = 256 * (256 * b1 + b2) + b3
    BY <1>7
  <2>2. /\ rest[1] = b1 /\ (l > 1 => rest[2] = b2) /\ (l > 2 => rest[3] = b3) /\ Len(OpcodeFrom(op)) = 3
    <3>1. Len(OpcodeFrom(op)) = 3 /\ OpcodeFrom(op)[1] = b1 /\ OpcodeFrom(op)[2] = b2 /\ OpcodeFrom(op)[3] = b3
      BY <2>1
    <3> QED BY <1>2, <3>1
  <2>3. CASE l = 1
    BY <1>4, <2>1, <2>2, <2>3 DEF OpcodeNumber
  <2>4. CASE l = 2
    BY <1>4, <2>1, <2>2, <2>4 DEF OpcodeNumber
  <2>5. CASE l = 3
    BY <1>1, <1>2, <2>2, <2>5
  <2>6. CASE l = 4
    <3>1. PICK d \in Nat : d = rest[4]
      BY <1>3, <2>6
    <3>2. OpcodeNumber(rest, 4) = 256 * op + d
      <4>1. OpcodeNumber(rest, 3) = op
        BY <2>1, <2>2, <2>6, SMTT(40) DEF OpcodeNumber
      <4>2. OpcodeNumber(rest, 3 + 1) = 256 * OpcodeNumber(rest, 3) + rest[3 + 1]
        BY OpcodeNumberStep
      <4> QED BY <3>1, <4>1, <4>2
    <3>3. 256 * op + d # op
      BY <2>1
    <3> QED BY <1>4, <2>6, <3>2, <3>3
  <2> QED BY <2>3, <2>4, <2>5, <2>6
<1> QED BY <1>5, <1>6, <1>7, OpcodeFromIs

-----------------------------------------------------------------------------
(* Where the parser is in the bytes of an encoding.                        *)

\* A parser that still has to read r of the encoding of instruction j for spec, or of a beginning
\* of it, and has read i of it.
AfterIt(missing) == IF missing THEN <<>> ELSE Following
PrefixesOnly(kind, leg, vex, seg, addr) == Decoded(kind, leg, vex, seg, addr, 0, <<>>, <<>>, <<>>, <<>>)
NoneYet(seg, addr) == PrefixesOnly("legacy", NoPrefixes, NoVexBits, seg, addr)
LegAfter(j, rex, lock, osz) ==
  [rex |-> IF rex THEN j.leg.rex ELSE NoRex, hasrex |-> rex /\ j.leg.rex # NoRex,
   lock |-> IF lock THEN j.leg.lock ELSE "", osz |-> osz /\ j.leg.osz]
LegacySoFar(j, rex, lock, osz) == PrefixesOnly("legacy", LegAfter(j, rex, lock, osz), NoVexBits, j.seg, j.addr)

AtPrefixes(spec, j, missing, r, i) == \E s, a \in BOOLEAN :
  /\ a => s
  /\ i = NoneYet(IF s THEN j.seg ELSE "", a /\ j.addr)
  /\ LeftOf(r, missing, IF a THEN FromPrefix(spec, j, AfterIt(missing))
                        ELSE IF s THEN FromAddress(spec, j, AfterIt(missing)) ELSE FromSegment(spec, j, AfterIt(missing)))
AtVex(spec, j, missing, r, i) ==
  i = NoneYet(j.seg, j.addr) /\ LeftOf(r, missing, FromPrefix(spec, j, AfterIt(missing)))
AtLegacy(spec, j, missing, r, i) == \E rex, lock, osz \in BOOLEAN :
  /\ osz => lock
  /\ lock => rex
  /\ i = LegacySoFar(j, rex, lock, osz)
  /\ LeftOf(r, missing, IF osz THEN FromOpcode(spec, j, AfterIt(missing))
                        ELSE IF lock THEN FromOperandSize(spec, j, AfterIt(missing))
                        ELSE IF rex THEN FromLockOrRep(spec, j, AfterIt(missing)) ELSE FromRex(spec, j, AfterIt(missing)))
AtOpcode(spec, j, missing, r, i) ==
  /\ i = PrefixesOnly(spec.type, LegRead(j), VexRead(spec, j), j.seg, j.addr)
  /\ LeftOf(r, missing, FromOpcode(spec, j, AfterIt(missing)))

NextOf(r, missing, byte, t) == r[1] = byte /\ LeftOf(SubSeq(r, 2, Len(r)), missing, t)

LEMMA AfterType == \A missing : AfterIt(missing) \in Seq(Nat)
<1>1. Following \in Seq(Nat)
  BY CodecAssumption, BytesAreNumbers
<1>2. <<>> \in Seq(Nat)
  OBVIOUS
<1> QED BY <1>1, <1>2, Zenon DEF AfterIt

\* What the loop over the segment and address size prefixes finds next.
LEMMA PrefixesNext ==
  ASSUME NEW spec, NEW j, IsEncoded(spec, j), NEW missing, NEW r, r # <<>>, NEW i, AtPrefixes(spec, j, missing, r, i)
  PROVE  \/ /\ j.seg # "" /\ i = NoneYet("", FALSE)
            /\ NextOf(r, missing, SegmentByte[j.seg], FromAddress(spec, j, AfterIt(missing)))
         \/ /\ j.addr /\ i = NoneYet(j.seg, FALSE)
            /\ NextOf(r, missing, AddressSizeOverrideByte, FromPrefix(spec, j, AfterIt(missing)))
         \/ AtVex(spec, j, missing, r, i)
<1> DEFINE after == AfterIt(missing)
<1>1. /\ after \in Seq(Nat) /\ FromPrefix(spec, j, after) \in Seq(Nat) /\ FromAddress(spec, j, after) \in Seq(Nat)
  BY AfterType, TailsType
<1>2. j.seg \in Segments \cup {""} /\ j.addr \in BOOLEAN
  <2>1. j \in DecodedInstruction
    BY EncodedSpec
  <2>2. j.addr \in BOOLEAN
    BY <2>1 DEF DecodedInstruction
  <2> QED BY <2>1, <2>2, InstructionFields
<1>3. PICK s \in BOOLEAN, a \in BOOLEAN :
        /\ a => s
        /\ i = NoneYet(IF s THEN j.seg ELSE "", a /\ j.addr)
        /\ LeftOf(r, missing, IF a THEN FromPrefix(spec, j, after)
                              ELSE IF s THEN FromAddress(spec, j, after) ELSE FromSegment(spec, j, after))
  BY DEF AtPrefixes
<1> HIDE DEF after
<1>4. CASE a
  <2>1. s = TRUE /\ a = TRUE
    BY <1>3, <1>4
  <2>2. i = NoneYet(j.seg, j.addr) /\ LeftOf(r, missing, FromPrefix(spec, j, after))
    BY <1>2, <1>3, <2>1
  <2> QED BY <2>2 DEF AtVex, after
<1>5. ASSUME i = NoneYet(j.seg, FALSE), LeftOf(r, missing, FromAddress(spec, j, after))
      PROVE  \/ /\ j.addr /\ i = NoneYet(j.seg, FALSE)
                /\ NextOf(r, missing, AddressSizeOverrideByte, FromPrefix(spec, j, after))
             \/ AtVex(spec, j, missing, r, i)
  <2>1. AddressBytesOf(j) = IF j.addr THEN <<AddressSizeOverrideByte>> ELSE <<>>
    BY DEF AddressBytesOf, ByteIf
  <2>2. AddressSizeOverrideByte \in Nat
    BY DEF AddressSizeOverrideByte
  <2>3. LeftOf(r, missing, AddressBytesOf(j) \o FromPrefix(spec, j, after))
    BY <1>5 DEF FromAddress
  <2>4. CASE j.addr
    <3>1. AddressBytesOf(j) = <<AddressSizeOverrideByte>>
      BY <2>1, <2>4
    <3>2. NextOf(r, missing, AddressSizeOverrideByte, FromPrefix(spec, j, after))
      <4> HIDE DEF AddressSizeOverrideByte
      <4>1. LeftOf(r, missing, <<AddressSizeOverrideByte>> \o FromPrefix(spec, j, after))
        BY <2>3, <3>1, Zenon
      <4> QED BY <1>1, <2>2, <4>1, BytePeeled DEF NextOf
    <3> QED BY <1>5, <2>4, <3>2
  <2>5. CASE j.addr = FALSE
    <3>1. LeftOf(r, missing, <<>> \o FromPrefix(spec, j, after))
      BY <2>1, <2>3, <2>5
    <3>2. LeftOf(r, missing, FromPrefix(spec, j, after))
      BY <1>1, <3>1, NothingPeeled
    <3> QED BY <1>5, <2>5, <3>2 DEF AtVex, after
  <2> QED BY <1>2, <2>4, <2>5
<1>6. CASE ~ a /\ s
  <2>1. s = TRUE /\ a = FALSE
    BY <1>6
  <2>2. i = NoneYet(j.seg, FALSE) /\ LeftOf(r, missing, FromAddress(spec, j, after))
    BY <1>3, <2>1
  <2> QED BY <1>5, <2>2 DEF after
<1>7. CASE ~ a /\ ~ s
  <2>1. s = FALSE /\ a = FALSE
    BY <1>7
  <2>2. i = NoneYet("", FALSE) /\ LeftOf(r, missing, SegmentBytesOf(j) \o FromAddress(spec, j, after))
    BY <1>3, <2>1 DEF FromSegment
  <2>3. CASE j.seg = ""
    <3>1. SegmentBytesOf(j) = <<>>
      BY <2>3 DEF SegmentBytesOf
    <3>2. LeftOf(r, missing, FromAddress(spec, j, after))
      <4>1. LeftOf(r, missing, <<>> \o FromAddress(spec, j, after))
        BY <2>2, <3>1
      <4> QED BY <1>1, <4>1, NothingPeeled
    <3> QED BY <1>5, <2>2, <2>3, <3>2 DEF after
  <2>4. CASE j.seg # ""
    <3>1. SegmentBytesOf(j) = <<SegmentByte[j.seg]>> /\ SegmentByte[j.seg] \in Nat
      BY <1>2, <2>4, ByteTables, Zenon DEF SegmentBytesOf
    <3>2. LeftOf(r, missing, <<SegmentByte[j.seg]>> \o FromAddress(spec, j, after))
      BY <2>2, <3>1, Zenon
    <3>3. NextOf(r, missing, SegmentByte[j.seg], FromAddress(spec, j, after))
      BY <1>1, <3>1, <3>2, BytePeeled DEF NextOf
    <3> QED BY <2>2, <2>4, <3>3 DEF after
  <2> QED BY <2>3, <2>4
<1> QED BY <1>4, <1>6, <1>7

-----------------------------------------------------------------------------
(* The prefixes that the parser finds.                                     *)

LEMMA EncodedFields ==
  ASSUME NEW spec, NEW j, IsEncoded(spec, j)
  PROVE  /\ j \in DecodedInstruction /\ j.leg \in LegacyPrefixes /\ j.vex \in VexOrEvexPrefix
         /\ j.seg \in Segments \cup {""} /\ j.op \in Nat /\ j.addr \in BOOLEAN
         /\ j.leg.rex \in RexPrefix /\ j.leg.lock \in {"", "LOCK", "REP", "REPNE"} /\ j.leg.osz \in BOOLEAN
<1>1. j \in DecodedInstruction
  BY EncodedSpec
<1>2. j.leg \in LegacyPrefixes /\ j.vex \in VexOrEvexPrefix /\ j.seg \in Segments \cup {""} /\ j.op \in Nat
  BY <1>1, InstructionFields
<1>3. j.addr \in BOOLEAN
  BY <1>1 DEF DecodedInstruction
<1>4. j.leg.osz \in BOOLEAN
  BY <1>2 DEF LegacyPrefixes
<1> QED BY <1>1, <1>2, <1>3, <1>4, LegacyFields

\* A prefix that the instruction does not have is as good as read.
LEMMA NothingToRead ==
  ASSUME NEW spec, NEW j, IsEncoded(spec, j), NEW lock \in BOOLEAN, NEW osz \in BOOLEAN
  PROVE  /\ j.leg.rex = NoRex => LegAfter(j, TRUE, lock, osz) = LegAfter(j, FALSE, lock, osz)
         /\ j.leg.lock = "" => LegAfter(j, TRUE, TRUE, osz) = LegAfter(j, TRUE, FALSE, osz)
         /\ j.leg.osz = FALSE => LegAfter(j, TRUE, TRUE, TRUE) = LegAfter(j, TRUE, TRUE, FALSE)
<1>1. ASSUME j.leg.rex = NoRex PROVE LegAfter(j, TRUE, lock, osz) = LegAfter(j, FALSE, lock, osz)
  BY <1>1 DEF LegAfter
<1>2. ASSUME j.leg.lock = "" PROVE LegAfter(j, TRUE, TRUE, osz) = LegAfter(j, TRUE, FALSE, osz)
  BY <1>2 DEF LegAfter
<1>3. ASSUME j.leg.osz = FALSE PROVE LegAfter(j, TRUE, TRUE, TRUE) = LegAfter(j, TRUE, TRUE, FALSE)
  BY <1>3 DEF LegAfter
<1> QED BY <1>1, <1>2, <1>3

\* What the loop over the legacy prefixes finds next: one of three prefixes, or the opcode.
RexIsNext(spec, j, missing, r, i) ==
  /\ j.leg.rex # NoRex /\ i = LegacySoFar(j, FALSE, FALSE, FALSE)
  /\ NextOf(r, missing, RexByte(j.leg.rex), FromLockOrRep(spec, j, AfterIt(missing)))
LockIsNext(spec, j, missing, r, i) ==
  /\ j.leg.lock # "" /\ i = LegacySoFar(j, TRUE, FALSE, FALSE)
  /\ NextOf(r, missing, LockOrRepByte[j.leg.lock], FromOperandSize(spec, j, AfterIt(missing)))
SizeIsNext(spec, j, missing, r, i) ==
  /\ j.leg.osz /\ i = LegacySoFar(j, TRUE, TRUE, FALSE)
  /\ NextOf(r, missing, OperandSizeOverrideByte, FromOpcode(spec, j, AfterIt(missing)))
OpcodeIsNext(spec, j, missing, r, i) ==
  i = LegacySoFar(j, TRUE, TRUE, TRUE) /\ LeftOf(r, missing, FromOpcode(spec, j, AfterIt(missing)))

LEMMA SizeOrOpcode ==
  ASSUME NEW spec, NEW j, IsEncoded(spec, j), NEW missing, NEW r, r # <<>>, NEW i,
         i = LegacySoFar(j, TRUE, TRUE, FALSE), LeftOf(r, missing, FromOperandSize(spec, j, AfterIt(missing)))
  PROVE  SizeIsNext(spec, j, missing, r, i) \/ OpcodeIsNext(spec, j, missing, r, i)
<1> DEFINE after == AfterIt(missing)
           o == EncodeOperandSizeOverridePrefix(j)
<1>1. FromOpcode(spec, j, after) \in Seq(Nat) /\ j.leg.osz \in BOOLEAN
  BY AfterType, TailsType, EncodedFields
<1>2. PICK byte \in Nat : byte = OperandSizeOverrideByte
  BY DEF OperandSizeOverrideByte
<1>3. o = IF j.leg.osz THEN <<byte>> ELSE <<>>
  BY <1>2, Zenon DEF EncodeOperandSizeOverridePrefix, ByteIf
<1>4. LeftOf(r, missing, o \o FromOpcode(spec, j, after))
  BY DEF FromOperandSize
<1> HIDE DEF o
<1>5. CASE j.leg.osz
  <2>1. LeftOf(r, missing, <<byte>> \o FromOpcode(spec, j, after))
    BY <1>3, <1>4, <1>5
  <2>2. NextOf(r, missing, byte, FromOpcode(spec, j, after))
    BY <1>1, <1>2, <2>1, BytePeeled DEF NextOf
  <2> QED BY <1>2, <1>5, <2>2 DEF SizeIsNext
<1>6. CASE j.leg.osz = FALSE
  <2>1. LeftOf(r, missing, <<>> \o FromOpcode(spec, j, after))
    BY <1>3, <1>4, <1>6
  <2>2. LeftOf(r, missing, FromOpcode(spec, j, after))
    BY <1>1, <2>1, NothingPeeled
  <2>3. LegAfter(j, TRUE, TRUE, TRUE) = LegAfter(j, TRUE, TRUE, FALSE)
    BY <1>6, NothingToRead
  <2> QED BY <2>2, <2>3, Zenon DEF OpcodeIsNext, LegacySoFar
<1> QED BY <1>1, <1>5, <1>6

LEMMA LockOrLater ==
  ASSUME NEW spec, NEW j, IsEncoded(spec, j), NEW missing, NEW r, r # <<>>, NEW i,
         i = LegacySoFar(j, TRUE, FALSE, FALSE), LeftOf(r, missing, FromLockOrRep(spec, j, AfterIt(missing)))
  PROVE  LockIsNext(spec, j, missing, r, i) \/ SizeIsNext(spec, j, missing, r, i) \/ OpcodeIsNext(spec, j, missing, r, i)
<1> DEFINE after == AfterIt(missing)
           o == EncodeLockOrRepPrefix(j)
<1>1. FromOperandSize(spec, j, after) \in Seq(Nat) /\ j.leg.lock \in {"", "LOCK", "REP", "REPNE"}
  BY AfterType, TailsType, EncodedFields
<1>2. o = IF j.leg.lock = "" THEN <<>> ELSE <<LockOrRepByte[j.leg.lock]>>
  BY Zenon DEF EncodeLockOrRepPrefix
<1>3. LeftOf(r, missing, o \o FromOperandSize(spec, j, after))
  BY DEF FromLockOrRep
<1> HIDE DEF o
<1>4. CASE j.leg.lock # ""
  <2>1. PICK byte \in Nat : byte = LockOrRepByte[j.leg.lock]
    BY <1>1, <1>4, ByteTables
  <2>2. LeftOf(r, missing, <<byte>> \o FromOperandSize(spec, j, after))
    BY <1>2, <1>3, <1>4, <2>1
  <2>3. NextOf(r, missing, byte, FromOperandSize(spec, j, after))
    BY <1>1, <2>1, <2>2, BytePeeled DEF NextOf
  <2> QED BY <1>4, <2>1, <2>3 DEF LockIsNext
<1>5. CASE j.leg.lock = ""
  <2>1. LeftOf(r, missing, <<>> \o FromOperandSize(spec, j, after))
    BY <1>2, <1>3, <1>5
  <2>2. LeftOf(r, missing, FromOperandSize(spec, j, after))
    BY <1>1, <2>1, NothingPeeled
  <2>3. LegAfter(j, TRUE, TRUE, FALSE) = LegAfter(j, TRUE, FALSE, FALSE)
    BY <1>5, NothingToRead
  <2>4. i = LegacySoFar(j, TRUE, TRUE, FALSE)
    BY <2>3, Zenon DEF LegacySoFar
  <2> QED BY <2>2, <2>4, SizeOrOpcode
<1> QED BY <1>4, <1>5

LEMMA LegacyNext ==
  ASSUME NEW spec, NEW j, IsEncoded(spec, j), NEW missing, NEW r, r # <<>>, NEW i, AtLegacy(spec, j, missing, r, i)
  PROVE  \/ RexIsNext(spec, j, missing, r, i) \/ LockIsNext(spec, j, missing, r, i)
         \/ SizeIsNext(spec, j, missing, r, i) \/ OpcodeIsNext(spec, j, missing, r, i)
<1> DEFINE after == AfterIt(missing)
           o == EncodeRexPrefix(j)
<1>1. FromLockOrRep(spec, j, after) \in Seq(Nat) /\ j.leg.rex \in RexPrefix
  BY AfterType, TailsType, EncodedFields
<1>2. PICK rex \in BOOLEAN, lock \in BOOLEAN, osz \in BOOLEAN :
        /\ osz => lock
        /\ lock => rex
        /\ i = LegacySoFar(j, rex, lock, osz)
        /\ LeftOf(r, missing, IF osz THEN FromOpcode(spec, j, after)
                              ELSE IF lock THEN FromOperandSize(spec, j, after)
                              ELSE IF rex THEN FromLockOrRep(spec, j, after) ELSE FromRex(spec, j, after))
  BY DEF AtLegacy
<1> HIDE DEF after
<1>3. CASE osz
  <2>1. osz = TRUE /\ lock = TRUE /\ rex = TRUE
    BY <1>2, <1>3
  <2>2. i = LegacySoFar(j, TRUE, TRUE, TRUE) /\ LeftOf(r, missing, FromOpcode(spec, j, after))
    BY <1>2, <2>1
  <2> QED BY <2>2 DEF OpcodeIsNext, after
<1>4. CASE ~ osz /\ lock
  <2>1. osz = FALSE /\ lock = TRUE /\ rex = TRUE
    BY <1>2, <1>4
  <2>2. i = LegacySoFar(j, TRUE, TRUE, FALSE) /\ LeftOf(r, missing, FromOperandSize(spec, j, after))
    BY <1>2, <2>1
  <2> QED BY <2>2, SizeOrOpcode DEF after
<1>5. CASE ~ osz /\ ~ lock /\ rex
  <2>1. osz = FALSE /\ lock = FALSE /\ rex = TRUE
    BY <1>5
  <2>2. i = LegacySoFar(j, TRUE, FALSE, FALSE) /\ LeftOf(r, missing, FromLockOrRep(spec, j, after))
    BY <1>2, <2>1
  <2> QED BY <2>2, LockOrLater DEF after
<1>6. CASE ~ osz /\ ~ lock /\ ~ rex
  <2>1. osz = FALSE /\ lock = FALSE /\ rex = FALSE
    BY <1>6
  <2>2. i = LegacySoFar(j, FALSE, FALSE, FALSE) /\ LeftOf(r, missing, o \o FromLockOrRep(spec, j, after))
    BY <1>2, <2>1 DEF FromRex
  <2>3. o = IF j.leg.rex # NoRex THEN <<RexByte(j.leg.rex)>> ELSE <<>>
    BY Zenon DEF EncodeRexPrefix, ByteIf
  <2> HIDE DEF o
  <2>4. CASE j.leg.rex # NoRex
    <3>1. PICK byte \in Nat : byte = RexByte(j.leg.rex)
      BY <1>1, RexByteType
    <3>2. LeftOf(r, missing, <<byte>> \o FromLockOrRep(spec, j, after))
      BY <2>2, <2>3, <2>4, <3>1
    <3>3. NextOf(r, missing, byte, FromLockOrRep(spec, j, after))
      BY <1>1, <3>1, <3>2, BytePeeled DEF NextOf
    <3> QED BY <2>2, <2>4, <3>1, <3>3 DEF RexIsNext, after
  <2>5. CASE j.leg.rex = NoRex
    <3>1. LeftOf(r, missing, <<>> \o FromLockOrRep(spec, j, after))
      BY <2>2, <2>3, <2>5
    <3>2. LeftOf(r, missing, FromLockOrRep(spec, j, after))
      BY <1>1, <3>1, NothingPeeled
    <3>3. LegAfter(j, TRUE, FALSE, FALSE) = LegAfter(j, FALSE, FALSE, FALSE)
      BY <2>5, NothingToRead
    <3>4. i = LegacySoFar(j, TRUE, FALSE, FALSE)
      BY <2>2, <3>3, Zenon DEF LegacySoFar
    <3> QED BY <3>2, <3>4, LockOrLater DEF after
  <2> QED BY <2>4, <2>5
<1> QED BY <1>3, <1>4, <1>5, <1>6

-----------------------------------------------------------------------------
(* The opcode and the ModR/M byte that the parser finds.                   *)

LEMMA WrittenOpcode ==
  ASSUME NEW spec, NEW j, IsEncoded(spec, j), Fits(spec, j)
  PROVE  /\ OpcodeWritten(spec, j) \in Nat /\ TopOf(OpcodeWritten(spec, j)) < 256
         /\ spec.type = "legacy" => EncodeOpcode(spec, j) = OpcodeFrom(OpcodeWritten(spec, j))
         /\ spec.type # "legacy" => EncodeOpcode(spec, j) = <<OpcodeWritten(spec, j) % 256>>
<1>1. PICK op \in Nat : op = OpcodeWritten(spec, j)
  BY EncodedFields, EncodedSpec DEF OpcodeWritten
<1>2. op = IF j.op > 0 THEN j.op ELSE OpcodeOf(spec)
  <2>1. j.op \in Nat
    BY EncodedFields
  <2>2. j.op > 0 <=> j.op # 0
    BY <2>1
  <2> QED BY <1>1, <2>2, Zenon DEF OpcodeWritten
<1>3. EncodeOpcode(spec, j) = OpcodeFrom(IF spec.type = "legacy" THEN op ELSE op % 256)
  <2> DEFINE raw == IF j.op > 0 THEN j.op ELSE OpcodeOf(spec)
  <2>1. EncodeOpcode(spec, j) = OpcodeFrom(IF spec.type = "legacy" THEN raw ELSE raw % 256)
    BY SMT DEF EncodeOpcode, OpcodeFrom, IsWide, TopOf, IsWidest, FirstOf
  <2> QED BY <1>2, <2>1, Zenon
<1>4. TopOf(op) < 256
  BY <1>1 DEF Fits
<1>5. ASSUME spec.type # "legacy" PROVE EncodeOpcode(spec, j) = <<op % 256>>
  <2>1. PICK low \in 0..255 : low = op % 256
    OBVIOUS
  <2>2. TopOf(low) < 256
    <3>1. (low \div 256) = 0 /\ 0 \div 256 = 0
      OBVIOUS
    <3> QED BY <3>1, TopIs
  <2>3. OpcodeFrom(low) = <<low>>
    <3>1. \/ OpcodeFrom(low) = <<low>> /\ low < 256
          \/ \E b1, b2 \in Nat : OpcodeFrom(low) = <<b1, b2>> /\ b1 >= 1 /\ low = 256 * b1 + b2
          \/ \E b1, b2, b3 \in Nat :
               OpcodeFrom(low) = <<b1, b2, b3>> /\ b1 >= 1 /\ low = 256 * (256 * b1 + b2) + b3
      BY <2>2, OpcodeFromIs
    <3>2. ASSUME NEW b1 \in Nat, NEW b2 \in Nat, b1 >= 1 PROVE low # 256 * b1 + b2
      BY <3>2
    <3>3. ASSUME NEW b1 \in Nat, NEW b2 \in Nat, NEW b3 \in Nat, b1 >= 1 PROVE low # 256 * (256 * b1 + b2) + b3
      BY <3>3
    <3> QED BY <3>1, <3>2, <3>3
  <2>4. EncodeOpcode(spec, j) = OpcodeFrom(low)
    BY <1>3, <1>5, <2>1, Zenon
  <2> QED BY <2>1, <2>3, <2>4, Zenon
<1> QED BY <1>1, <1>3, <1>4, <1>5, Zenon

\* What is left begins as the sequence does.
LEMMA BeginsAlike ==
  ASSUME NEW r, r # <<>>, NEW missing, NEW s \in Seq(Nat), s # <<>>, NEW t \in Seq(Nat), LeftOf(r, missing, s \o t)
  PROVE  r[1] = s[1]
<1>1. PICK m \in Seq(Nat) : r \in Seq(Nat) /\ r \o m = s \o t
  BY DEF LeftOf
<1>2. Len(s) >= 1 /\ Len(r) >= 1 /\ Len(s) \in Nat /\ Len(r) \in Nat
  BY <1>1
<1>3. 1 \in 1..Len(s) /\ 1 \in 1..Len(r)
  BY <1>2
<1>4. (s \o t)[1] = s[1] /\ (r \o m)[1] = r[1]
  BY <1>1, <1>3, Elements
<1> QED BY <1>1, <1>4

LEMMA FirstOfOpcode ==
  ASSUME NEW spec, NEW j, IsEncoded(spec, j), Fits(spec, j), NEW missing, NEW r, r # <<>>, NEW after \in Seq(Nat),
         LeftOf(r, missing, FromOpcode(spec, j, after))
  PROVE  r[1] = EncodeOpcode(spec, j)[1]
<1>1. PICK s \in Seq(Nat) : s = EncodeOpcode(spec, j)
  BY PartsType
<1>2. PICK t \in Seq(Nat) : t = FromModRM(spec, j, after)
  BY TailsType
<1>3. PICK op \in Nat : op = OpcodeWritten(spec, j) /\ TopOf(op) < 256
  BY WrittenOpcode
<1>4. s # <<>>
  <2>1. CASE spec.type = "legacy"
    <3>1. s = OpcodeFrom(op)
      BY <1>1, <1>3, <2>1, WrittenOpcode
    <3>2. ASSUME NEW b1, NEW b2, NEW b3 PROVE <<b1>> # <<>> /\ <<b1, b2>> # <<>> /\ <<b1, b2, b3>> # <<>>
      OBVIOUS
    <3>3. \/ OpcodeFrom(op) = <<op>> /\ op < 256
          \/ \E b1, b2 \in Nat : OpcodeFrom(op) = <<b1, b2>> /\ b1 >= 1 /\ op = 256 * b1 + b2
          \/ \E b1, b2, b3 \in Nat :
               OpcodeFrom(op) = <<b1, b2, b3>> /\ b1 >= 1 /\ op = 256 * (256 * b1 + b2) + b3
      BY <1>3, OpcodeFromIs
    <3> QED BY <3>1, <3>2, <3>3, Zenon
  <2>2. CASE spec.type # "legacy"
    <3>1. s = <<OpcodeWritten(spec, j) % 256>>
      BY <1>1, <2>2, WrittenOpcode
    <3> QED BY <3>1
  <2> QED BY <2>1, <2>2
<1>5. LeftOf(r, missing, s \o t)
  BY <1>1, <1>2, Zenon DEF FromOpcode
<1> QED BY <1>1, <1>4, <1>5, BeginsAlike

LEMMA SegmentBytesAre ==
  \A b \in SegmentBytes : b \in {46, 54, 62, 38, 100, 101}
BY DEF SegmentBytes, SegmentByte

LEMMA LockOrRepBytes == DOMAIN LockOrRepOf = {240, 242, 243}
BY DEF LockOrRepOf

\* The first byte tells the loops what comes next.
FirstIsRex(r)    == r[1] \in 64..79
FirstIsLock(r)   == r[1] \in {240, 242, 243}
FirstIsSize(r)   == r[1] = OperandSizeOverrideByte
FirstIsOpcode(r) == ~IsPrefixByte(r[1]) /\ r[1] \notin {98, 196, 197}

LEMMA FirstOfLegacy ==
  ASSUME NEW spec, NEW j, IsEncoded(spec, j), Fits(spec, j), spec.type = "legacy", NEW missing,
         NEW r, r # <<>>, NEW i
  PROVE  /\ RexIsNext(spec, j, missing, r, i) => FirstIsRex(r)
         /\ LockIsNext(spec, j, missing, r, i) => FirstIsLock(r)
         /\ SizeIsNext(spec, j, missing, r, i) => FirstIsSize(r)
         /\ OpcodeIsNext(spec, j, missing, r, i) => FirstIsOpcode(r)
<1>1. ASSUME RexIsNext(spec, j, missing, r, i) PROVE FirstIsRex(r)
  <2>1. r[1] = RexByte(j.leg.rex) /\ j.leg.rex \in RexPrefix
    BY <1>1, EncodedFields DEF RexIsNext, NextOf
  <2> QED BY <2>1, RexReadBack DEF FirstIsRex
<1>2. ASSUME LockIsNext(spec, j, missing, r, i) PROVE FirstIsLock(r)
  <2>1. r[1] = LockOrRepByte[j.leg.lock] /\ j.leg.lock \in {"LOCK", "REP", "REPNE"}
    BY <1>2, EncodedFields DEF LockIsNext, NextOf
  <2> QED BY <2>1, TablesAgree DEF FirstIsLock
<1>3. ASSUME SizeIsNext(spec, j, missing, r, i) PROVE FirstIsSize(r)
  BY <1>3 DEF SizeIsNext, NextOf, FirstIsSize
<1>4. ASSUME OpcodeIsNext(spec, j, missing, r, i) PROVE FirstIsOpcode(r)
  <2>1. r[1] = EncodeOpcode(spec, j)[1]
    BY <1>4, AfterType, FirstOfOpcode DEF OpcodeIsNext
  <2>2. ~IsPrefixByte(EncodeOpcode(spec, j)[1]) /\ EncodeOpcode(spec, j)[1] \notin {98, 196, 197}
    BY DEF Fits
  <2> QED BY <2>1, <2>2, Zenon DEF FirstIsOpcode
<1> QED BY <1>1, <1>2, <1>3, <1>4

LEMMA FirstsDiffer ==
  ASSUME NEW r
  PROVE  /\ FirstIsRex(r) => /\ r[1] \notin SegmentBytes \cup {AddressSizeOverrideByte, 98, 196, 197, OperandSizeOverrideByte}
                             /\ r[1] \notin DOMAIN LockOrRepOf /\ IsPrefixByte(r[1])
         /\ FirstIsLock(r) => /\ r[1] \notin SegmentBytes \cup {AddressSizeOverrideByte, 98, 196, 197, OperandSizeOverrideByte}
                              /\ r[1] \notin 64..79 /\ IsPrefixByte(r[1])
         /\ FirstIsSize(r) => /\ r[1] \notin SegmentBytes \cup {AddressSizeOverrideByte, 98, 196, 197}
                              /\ r[1] \notin DOMAIN LockOrRepOf /\ r[1] \notin 64..79 /\ IsPrefixByte(r[1])
         /\ FirstIsOpcode(r) => /\ r[1] \notin SegmentBytes \cup {AddressSizeOverrideByte, 98, 196, 197, OperandSizeOverrideByte}
                                /\ r[1] \notin DOMAIN LockOrRepOf /\ r[1] \notin 64..79
<1>1. ASSUME FirstIsRex(r)
      PROVE  /\ r[1] \notin SegmentBytes \cup {AddressSizeOverrideByte, 98, 196, 197, OperandSizeOverrideByte}
             /\ r[1] \notin DOMAIN LockOrRepOf /\ IsPrefixByte(r[1])
  BY <1>1, SegmentBytesAre, LockOrRepBytes
     DEF FirstIsRex, AddressSizeOverrideByte, OperandSizeOverrideByte, IsPrefixByte, IsRexPrefixByte
<1>2. ASSUME FirstIsLock(r)
      PROVE  /\ r[1] \notin SegmentBytes \cup {AddressSizeOverrideByte, 98, 196, 197, OperandSizeOverrideByte}
             /\ r[1] \notin 64..79 /\ IsPrefixByte(r[1])
  BY <1>2, SegmentBytesAre, LockOrRepBytes
     DEF FirstIsLock, AddressSizeOverrideByte, OperandSizeOverrideByte, IsPrefixByte
<1>3. ASSUME FirstIsSize(r)
      PROVE  /\ r[1] \notin SegmentBytes \cup {AddressSizeOverrideByte, 98, 196, 197}
             /\ r[1] \notin DOMAIN LockOrRepOf /\ r[1] \notin 64..79 /\ IsPrefixByte(r[1])
  BY <1>3, SegmentBytesAre, LockOrRepBytes
     DEF FirstIsSize, AddressSizeOverrideByte, OperandSizeOverrideByte, IsPrefixByte
<1>4. ASSUME FirstIsOpcode(r)
      PROVE  /\ r[1] \notin SegmentBytes \cup {AddressSizeOverrideByte, 98, 196, 197, OperandSizeOverrideByte}
             /\ r[1] \notin DOMAIN LockOrRepOf /\ r[1] \notin 64..79
  BY <1>4, Zenon DEF FirstIsOpcode, IsPrefixByte, IsRexPrefixByte
<1> QED BY <1>1, <1>2, <1>3, <1>4

\* What stands behind the segment and address size prefixes.
LEMMA FirstOfPrefix ==
  ASSUME NEW spec, NEW j, IsEncoded(spec, j), Fits(spec, j), NEW missing, NEW r, r # <<>>, NEW i,
         AtVex(spec, j, missing, r, i)
  PROVE  /\ r[1] \notin SegmentBytes \cup {AddressSizeOverrideByte}
         /\ spec.type = "VEX" => r[1] \in {196, 197}
         /\ spec.type = "EVEX" => r[1] = 98
         /\ spec.type = "legacy" => r[1] \notin {98, 196, 197} /\ AtLegacy(spec, j, missing, r, i)
<1> DEFINE after == AfterIt(missing)
<1>1. i = NoneYet(j.seg, j.addr) /\ LeftOf(r, missing, FromPrefix(spec, j, after))
  BY DEF AtVex
<1>2. after \in Seq(Nat) /\ FromOpcode(spec, j, after) \in Seq(Nat)
  BY AfterType, TailsType
<1> HIDE DEF after
<1>3. CASE spec.type = "VEX"
  <2>1. LeftOf(r, missing, EncodeVexPrefix(spec, j) \o FromOpcode(spec, j, after))
    BY <1>1, <1>3 DEF FromPrefix
  <2>2. PICK s \in Seq(Nat) : s = EncodeVexPrefix(spec, j)
    BY <1>3, PartsType
  <2>3. s # <<>> /\ s[1] \in {196, 197}
    <3>1. IsShortVexOf(s, VexRead(spec, j)) \/ IsLongVexOf(s, VexRead(spec, j))
      BY <1>3, <2>2, VexReadBack
    <3>2. (\E b \in Nat : s = <<197, b>>) \/ (\E b, c \in Nat : s = <<196, b, c>>)
      BY <3>1, Zenon DEF IsShortVexOf, IsLongVexOf
    <3> QED BY <3>2
  <2>4. r[1] \in {196, 197}
    BY <1>2, <2>1, <2>2, <2>3, BeginsAlike
  <2>5. r[1] \notin SegmentBytes \cup {AddressSizeOverrideByte}
    BY <2>4, SegmentBytesAre DEF AddressSizeOverrideByte
  <2> QED BY <1>3, <2>4, <2>5
<1>4. CASE spec.type = "EVEX"
  <2>1. LeftOf(r, missing, EncodeEvexPrefix(spec, j) \o FromOpcode(spec, j, after))
    BY <1>1, <1>4 DEF FromPrefix
  <2>2. PICK s \in Seq(Nat) : s = EncodeEvexPrefix(spec, j)
    BY <1>4, PartsType
  <2>3. s # <<>> /\ s[1] = 98
    <3>1. IsEvexOf(s, VexRead(spec, j))
      BY <1>4, <2>2, EvexReadBack
    <3>2. \E b, c, d \in Nat : s = <<98, b, c, d>>
      BY <3>1, Zenon DEF IsEvexOf
    <3> QED BY <3>2
  <2>4. r[1] = 98
    BY <1>2, <2>1, <2>2, <2>3, BeginsAlike
  <2>5. r[1] \notin SegmentBytes \cup {AddressSizeOverrideByte}
    BY <2>4, SegmentBytesAre DEF AddressSizeOverrideByte
  <2> QED BY <1>4, <2>4, <2>5
<1>5. CASE spec.type = "legacy"
  <2>1. LeftOf(r, missing, FromRex(spec, j, after))
    BY <1>1, <1>5 DEF FromPrefix
  <2>2. LegAfter(j, FALSE, FALSE, FALSE) = NoPrefixes
    BY DEF LegAfter, NoPrefixes
  <2>3. i = LegacySoFar(j, FALSE, FALSE, FALSE)
    BY <1>1, <2>2, Zenon DEF LegacySoFar, NoneYet
  <2>4. AtLegacy(spec, j, missing, r, i)
    BY <2>1, <2>3 DEF AtLegacy, after
  <2>5. \/ RexIsNext(spec, j, missing, r, i) \/ LockIsNext(spec, j, missing, r, i)
        \/ SizeIsNext(spec, j, missing, r, i) \/ OpcodeIsNext(spec, j, missing, r, i)
    BY <2>4, LegacyNext
  <2>6. FirstIsRex(r) \/ FirstIsLock(r) \/ FirstIsSize(r) \/ FirstIsOpcode(r)
    BY <1>5, <2>5, FirstOfLegacy
  <2>7. r[1] \notin SegmentBytes \cup {AddressSizeOverrideByte, 98, 196, 197}
    BY <2>6, FirstsDiffer
  <2> QED BY <1>5, <2>4, <2>7
<1> QED BY <1>3, <1>4, <1>5, EncodedSpec

-----------------------------------------------------------------------------
(* What the parser has read at each step of a call.                        *)

\* The parser found the specification and the opcode of the instruction that was encoded.
Recognizes(spec, j, n, i) == /\ Database[n].spec = spec
                             /\ i.op = OpcodeWritten(spec, j)
                             /\ spec.modrm = "NO" => i.modrm = <<>>
AfterPrefixes(spec, j, op, modrm, sib, imm, code) ==
  Decoded(spec.type, LegRead(j), VexRead(spec, j), j.seg, j.addr, op, modrm, sib, imm, code)
ReadTo(spec, j, imm, code) == AfterPrefixes(spec, j, OpcodeWritten(spec, j), ModRmRead(j), j.sib, imm, code)
AtModRM(spec, j, missing, r, i) ==
  /\ i = AfterPrefixes(spec, j, i.op, <<>>, <<>>, <<>>, <<>>)
  /\ i.op = OpcodeWritten(spec, j) => LeftOf(r, missing, FromModRM(spec, j, AfterIt(missing)))
AtImmediates(spec, j, missing, r, i) ==
  i = ReadTo(spec, j, <<>>, <<>>) /\ LeftOf(r, missing, FromImmediates(spec, j, AfterIt(missing)))
AtCode(spec, j, missing, r, i) ==
  i = ReadTo(spec, j, j.imm, <<>>) /\ LeftOf(r, missing, FromCode(spec, j, AfterIt(missing)))
AtSuffix(spec, j, missing, r, i) ==
  i = ReadTo(spec, j, j.imm, j.code) /\ LeftOf(r, missing, FromSuffix(spec, j, AfterIt(missing)))
AtEnd(spec, j, missing, r, i) ==
  /\ LeftOf(r, missing, AfterIt(missing))
  /\ i = Decoded(spec.type, LegRead(j), [VexRead(spec, j) EXCEPT !.suffix = j.vex.suffix], j.seg, j.addr,
                 OpcodeWritten(spec, j), ModRmRead(j), j.sib, j.imm, j.code)
ReadSoFar(spec, j, missing, p, r, i, n) ==
  /\ p = "prefixes" => AtPrefixes(spec, j, missing, r, i)
  /\ p = "vex"      => spec.type = "VEX" /\ AtVex(spec, j, missing, r, i)
  /\ p = "evex"     => spec.type = "EVEX" /\ AtVex(spec, j, missing, r, i)
  /\ p = "legacy" /\ r # <<>> => spec.type = "legacy" /\ AtLegacy(spec, j, missing, r, i)
  /\ p = "opcode"   => AtOpcode(spec, j, missing, r, i)
  /\ p = "modrm"    => AtModRM(spec, j, missing, r, i)
  /\ p = "imm" /\ Recognizes(spec, j, n, i) => AtImmediates(spec, j, missing, r, i)
  /\ p = "code" /\ Recognizes(spec, j, n, i) => AtCode(spec, j, missing, r, i)
  /\ p = "suffix" /\ Recognizes(spec, j, n, i) => AtSuffix(spec, j, missing, r, i)
  /\ p = "done" /\ Recognizes(spec, j, n, i) => AtEnd(spec, j, missing, r, i)
HasRead(spec, j, missing) == ReadSoFar(spec, j, missing, phase, rest, instruction, specification)

\* An instruction of the client is parsed.
Encoded(spec, j) == IsEncoded(spec, j) /\ Fits(spec, j)

LEMMA FailReads ==
  ASSUME NEW spec, NEW j, NEW missing, Fail
  PROVE  ReadSoFar(spec, j, missing, phase', rest', instruction', specification')
BY DEF Fail, ReadSoFar

\* The function consumes one byte or none.
LEMMA ConsumesOne ==
  ASSUME NEW i, NEW next, Consume(1, i, next)
  PROVE  rest' = SubSeq(rest, 2, Len(rest)) /\ instruction' = i /\ phase' = next
<1>1. 1 + 1 = 2
  OBVIOUS
<1> QED BY <1>1, Zenon DEF Consume

LEMMA ConsumesNone ==
  ASSUME NEW i, NEW next, Consume(0, i, next), rest \in Seq(Nat)
  PROVE  rest' = rest /\ instruction' = i /\ phase' = next
BY KeptWhole, Zenon DEF Consume

Replaced(d, seg, addr, v) == [d EXCEPT !.seg = v] = NoneYet(v, addr) /\ [d EXCEPT !.addr = v] = NoneYet(seg, v)

LEMMA NoneYetExcept ==
  ASSUME NEW seg, NEW addr, NEW d, d = NoneYet(seg, addr), NEW v
  PROVE  Replaced(d, seg, addr, v)
BY DEF NoneYet, PrefixesOnly, Decoded, Replaced

LEMMA SegmentReads ==
  ASSUME NEW spec, NEW j, Encoded(spec, j), NEW missing, HasRead(spec, j, missing), rest \in Seq(Nat),
         ConsumeSegmentOverridePrefix
  PROVE  ReadSoFar(spec, j, missing, phase', rest', instruction', specification')
<1>1. phase \in {"prefixes", "legacy"} /\ rest # <<>> /\ rest[1] \in SegmentBytes
  BY DEF ConsumeSegmentOverridePrefix, NextIs
<1>2. IsEncoded(spec, j) /\ Fits(spec, j)
  BY DEF Encoded
<1>3. phase # "legacy"
  <2> SUFFICES ASSUME phase = "legacy" PROVE FALSE
    OBVIOUS
  <2>1. spec.type = "legacy" /\ AtLegacy(spec, j, missing, rest, instruction)
    BY <1>1 DEF HasRead, ReadSoFar
  <2>2. FirstIsRex(rest) \/ FirstIsLock(rest) \/ FirstIsSize(rest) \/ FirstIsOpcode(rest)
    BY <1>1, <1>2, <2>1, LegacyNext, FirstOfLegacy
  <2> QED BY <1>1, <2>2, FirstsDiffer
<1>4. phase = "prefixes" /\ AtPrefixes(spec, j, missing, rest, instruction)
  BY <1>1, <1>3 DEF HasRead, ReadSoFar
<1>5. PICK s : /\ s = CHOOSE t \in DOMAIN SegmentByte : SegmentByte[t] = rest[1]
               /\ Consume(1, [instruction EXCEPT !.seg = s], phase)
  BY DEF ConsumeSegmentOverridePrefix
<1>6. /\ rest' = SubSeq(rest, 2, Len(rest)) /\ instruction' = [instruction EXCEPT !.seg = s] /\ phase' = "prefixes"
  BY <1>4, <1>5, ConsumesOne
<1>7. \/ /\ j.seg # "" /\ instruction = NoneYet("", FALSE)
         /\ NextOf(rest, missing, SegmentByte[j.seg], FromAddress(spec, j, AfterIt(missing)))
      \/ /\ j.addr /\ instruction = NoneYet(j.seg, FALSE)
         /\ NextOf(rest, missing, AddressSizeOverrideByte, FromPrefix(spec, j, AfterIt(missing)))
      \/ AtVex(spec, j, missing, rest, instruction)
  BY <1>1, <1>2, <1>4, PrefixesNext
<1>8. CASE /\ j.seg # "" /\ instruction = NoneYet("", FALSE)
           /\ NextOf(rest, missing, SegmentByte[j.seg], FromAddress(spec, j, AfterIt(missing)))
  <2>1. j.seg \in Segments
    BY <1>2, <1>8, EncodedFields
  <2>2. s = j.seg
    <3>1. rest[1] = SegmentByte[j.seg]
      BY <1>8 DEF NextOf
    <3>2. (CHOOSE t \in DOMAIN SegmentByte : SegmentByte[t] = SegmentByte[j.seg]) = j.seg
      BY <2>1, TablesAgree, Zenon
    <3> QED BY <1>5, <3>1, <3>2, Zenon
  <2>3. instruction' = NoneYet(j.seg, FALSE)
    <3>1. [instruction EXCEPT !.seg = s] = NoneYet(s, FALSE)
      <4>1. Replaced(instruction, "", FALSE, s)
        BY <1>8, NoneYetExcept
      <4> QED BY <4>1, Zenon DEF Replaced
    <3> QED BY <1>6, <2>2, <3>1, Zenon
  <2>4. LeftOf(rest', missing, FromAddress(spec, j, AfterIt(missing)))
    BY <1>6, <1>8 DEF NextOf
  <2>5. AtPrefixes(spec, j, missing, rest', instruction')
    <3>1. TRUE \in BOOLEAN /\ FALSE \in BOOLEAN
      OBVIOUS
    <3> QED BY <2>3, <2>4, <3>1 DEF AtPrefixes
  <2> QED BY <1>6, <2>5 DEF ReadSoFar
<1>9. CASE NextOf(rest, missing, AddressSizeOverrideByte, FromPrefix(spec, j, AfterIt(missing)))
  <2>1. rest[1] = 103
    BY <1>9 DEF NextOf, AddressSizeOverrideByte
  <2> QED BY <1>1, <2>1, SegmentBytesAre
<1>10. CASE AtVex(spec, j, missing, rest, instruction)
  BY <1>1, <1>2, <1>10, FirstOfPrefix
<1> QED BY <1>7, <1>8, <1>9, <1>10

LEMMA AddressReads ==
  ASSUME NEW spec, NEW j, Encoded(spec, j), NEW missing, HasRead(spec, j, missing), rest \in Seq(Nat),
         ConsumeAddressSizeOverridePrefix
  PROVE  ReadSoFar(spec, j, missing, phase', rest', instruction', specification')
<1>1. phase \in {"prefixes", "legacy"} /\ rest # <<>> /\ rest[1] = AddressSizeOverrideByte
  BY DEF ConsumeAddressSizeOverridePrefix, NextIs
<1>2. IsEncoded(spec, j) /\ Fits(spec, j)
  BY DEF Encoded
<1>3. phase # "legacy"
  <2> SUFFICES ASSUME phase = "legacy" PROVE FALSE
    OBVIOUS
  <2>1. spec.type = "legacy" /\ AtLegacy(spec, j, missing, rest, instruction)
    BY <1>1 DEF HasRead, ReadSoFar
  <2>2. FirstIsRex(rest) \/ FirstIsLock(rest) \/ FirstIsSize(rest) \/ FirstIsOpcode(rest)
    BY <1>1, <1>2, <2>1, LegacyNext, FirstOfLegacy
  <2> QED BY <1>1, <2>2, FirstsDiffer
<1>4. phase = "prefixes" /\ AtPrefixes(spec, j, missing, rest, instruction)
  BY <1>1, <1>3 DEF HasRead, ReadSoFar
<1>5. Consume(1, [instruction EXCEPT !.addr = TRUE], phase)
  BY DEF ConsumeAddressSizeOverridePrefix
<1>6. /\ rest' = SubSeq(rest, 2, Len(rest)) /\ instruction' = [instruction EXCEPT !.addr = TRUE] /\ phase' = "prefixes"
  BY <1>4, <1>5, ConsumesOne
<1>7. \/ /\ j.seg # "" /\ instruction = NoneYet("", FALSE)
         /\ NextOf(rest, missing, SegmentByte[j.seg], FromAddress(spec, j, AfterIt(missing)))
      \/ /\ j.addr /\ instruction = NoneYet(j.seg, FALSE)
         /\ NextOf(rest, missing, AddressSizeOverrideByte, FromPrefix(spec, j, AfterIt(missing)))
      \/ AtVex(spec, j, missing, rest, instruction)
  BY <1>1, <1>2, <1>4, PrefixesNext
<1>8. CASE j.seg # "" /\ NextOf(rest, missing, SegmentByte[j.seg], FromAddress(spec, j, AfterIt(missing)))
  <2>1. j.seg \in Segments /\ rest[1] = SegmentByte[j.seg]
    BY <1>2, <1>8, EncodedFields DEF NextOf
  <2>2. rest[1] \in SegmentBytes
    BY <2>1, TablesAgree
  <2>3. rest[1] = 103
    BY <1>1 DEF AddressSizeOverrideByte
  <2> QED BY <2>2, <2>3, SegmentBytesAre
<1>9. CASE /\ j.addr /\ instruction = NoneYet(j.seg, FALSE)
           /\ NextOf(rest, missing, AddressSizeOverrideByte, FromPrefix(spec, j, AfterIt(missing)))
  <2>1. instruction' = NoneYet(j.seg, j.addr)
    <3>1. j.addr = TRUE
      BY <1>2, <1>9, EncodedFields
    <3>2. [instruction EXCEPT !.addr = TRUE] = NoneYet(j.seg, TRUE)
      <4>1. Replaced(instruction, j.seg, FALSE, TRUE)
        BY <1>9, NoneYetExcept
      <4> QED BY <4>1, Zenon DEF Replaced
    <3> QED BY <1>6, <3>1, <3>2, Zenon
  <2>2. LeftOf(rest', missing, FromPrefix(spec, j, AfterIt(missing)))
    BY <1>6, <1>9 DEF NextOf
  <2>3. AtPrefixes(spec, j, missing, rest', instruction')
    <3>1. TRUE \in BOOLEAN
      OBVIOUS
    <3>2. (TRUE /\ j.addr) = j.addr
      BY <1>2, EncodedFields
    <3> QED BY <2>1, <2>2, <3>1, <3>2 DEF AtPrefixes
  <2> QED BY <1>6, <2>3 DEF ReadSoFar
<1>10. CASE AtVex(spec, j, missing, rest, instruction)
  BY <1>1, <1>2, <1>10, FirstOfPrefix
<1> QED BY <1>7, <1>8, <1>9, <1>10

LEMMA PrefixesRead ==
  ASSUME NEW spec, NEW j, Encoded(spec, j), NEW missing, HasRead(spec, j, missing), rest \in Seq(Nat),
         ConsumePrefixes
  PROVE  ReadSoFar(spec, j, missing, phase', rest', instruction', specification')
<1>1. phase = "prefixes" /\ (rest # <<>> => rest[1] \notin SegmentBytes \cup {AddressSizeOverrideByte})
  BY DEF ConsumePrefixes, NextIs
<1>2. IsEncoded(spec, j) /\ Fits(spec, j)
  BY DEF Encoded
<1>3. AtPrefixes(spec, j, missing, rest, instruction)
  BY <1>1 DEF HasRead, ReadSoFar
<1>4. PICK next : /\ next = IF NextIs({196, 197}) THEN "vex" ELSE IF NextIs({98}) THEN "evex" ELSE "legacy"
                  /\ Consume(0, instruction, next)
  BY DEF ConsumePrefixes
<1>5. rest' = rest /\ instruction' = instruction /\ phase' = next
  BY <1>4, ConsumesNone
<1>6. CASE rest = <<>>
  <2>1. phase' = "legacy"
    BY <1>4, <1>5, <1>6 DEF NextIs
  <2> QED BY <1>5, <1>6, <2>1 DEF ReadSoFar
<1>7. CASE rest # <<>>
  <2>1. \/ /\ j.seg # "" /\ instruction = NoneYet("", FALSE)
           /\ NextOf(rest, missing, SegmentByte[j.seg], FromAddress(spec, j, AfterIt(missing)))
        \/ /\ j.addr /\ instruction = NoneYet(j.seg, FALSE)
           /\ NextOf(rest, missing, AddressSizeOverrideByte, FromPrefix(spec, j, AfterIt(missing)))
        \/ AtVex(spec, j, missing, rest, instruction)
    BY <1>2, <1>3, <1>7, PrefixesNext
  <2>2. AtVex(spec, j, missing, rest, instruction)
    <3>1. ASSUME j.seg # "" PROVE ~NextOf(rest, missing, SegmentByte[j.seg], FromAddress(spec, j, AfterIt(missing)))
      <4>1. j.seg \in Segments
        BY <1>2, <3>1, EncodedFields
      <4>2. SegmentByte[j.seg] \in SegmentBytes
        BY <4>1, TablesAgree
      <4> QED BY <1>1, <1>7, <4>2 DEF NextOf
    <3>2. ~NextOf(rest, missing, AddressSizeOverrideByte, FromPrefix(spec, j, AfterIt(missing)))
      BY <1>1, <1>7, Zenon DEF NextOf
    <3> QED BY <2>1, <3>1, <3>2
  <2>3. /\ spec.type = "VEX" => rest[1] \in {196, 197}
        /\ spec.type = "EVEX" => rest[1] = 98
        /\ spec.type = "legacy" => rest[1] \notin {98, 196, 197} /\ AtLegacy(spec, j, missing, rest, instruction)
    BY <1>2, <1>7, <2>2, FirstOfPrefix
  <2>4. spec.type \in {"legacy", "VEX", "EVEX"}
    BY <1>2, EncodedSpec
  <2>5. CASE spec.type = "VEX"
    <3>1. next = "vex"
      BY <1>4, <1>7, <2>3, <2>5 DEF NextIs
    <3> QED BY <1>5, <2>2, <2>5, <3>1 DEF ReadSoFar
  <2>6. CASE spec.type = "EVEX"
    <3>1. next = "evex"
      BY <1>4, <1>7, <2>3, <2>6 DEF NextIs
    <3> QED BY <1>5, <2>2, <2>6, <3>1 DEF ReadSoFar
  <2>7. CASE spec.type = "legacy"
    <3>1. next = "legacy"
      BY <1>4, <1>7, <2>3, <2>7 DEF NextIs
    <3> QED BY <1>5, <2>3, <2>7, <3>1 DEF ReadSoFar
  <2> QED BY <2>4, <2>5, <2>6, <2>7
<1> QED BY <1>6, <1>7

-----------------------------------------------------------------------------
(* A prefix is read.                                                       *)

WithVex(d, kind, vex, seg, addr) == [d EXCEPT !.kind = kind, !.vex = vex] = PrefixesOnly(kind, NoPrefixes, vex, seg, addr)

LEMMA NoneYetWithVex ==
  ASSUME NEW seg, NEW addr, NEW d, d = NoneYet(seg, addr), NEW kind, NEW vex
  PROVE  WithVex(d, kind, vex, seg, addr)
<1>1. PICK e : e = [d EXCEPT !.kind = kind]
  OBVIOUS
<1>2. e = PrefixesOnly(kind, NoPrefixes, NoVexBits, seg, addr)
  BY <1>1 DEF NoneYet, PrefixesOnly, Decoded
<1>3. [e EXCEPT !.vex = vex] = PrefixesOnly(kind, NoPrefixes, vex, seg, addr)
  BY <1>2 DEF PrefixesOnly, Decoded
<1> QED BY <1>1, <1>3, Zenon DEF WithVex

\* A VEX or EVEX prefix is read as a whole, and the opcode follows.
LEMMA WholePrefixRead ==
  ASSUME NEW spec, NEW j, Encoded(spec, j), spec.type \in {"VEX", "EVEX"}, NEW missing, NEW i,
         i = NoneYet(j.seg, j.addr), NEW r, NEW s \in Seq(Nat), NEW l, l = Len(s),
         LeftOf(r, missing, s \o FromOpcode(spec, j, AfterIt(missing))), l <= Len(r)
  PROVE  AtOpcode(spec, j, missing, SubSeq(r, l + 1, Len(r)), [i EXCEPT !.kind = spec.type, !.vex = VexRead(spec, j)])
<1>1. IsEncoded(spec, j) /\ Fits(spec, j)
  BY DEF Encoded
<1>2. LeftOf(SubSeq(r, l + 1, Len(r)), missing, FromOpcode(spec, j, AfterIt(missing)))
  BY <1>1, AfterType, TailsType, Peeled
<1>3. WithVex(i, spec.type, VexRead(spec, j), j.seg, j.addr)
  BY NoneYetWithVex
<1>4. LegRead(j) = NoPrefixes
  <2>1. j.leg = NoPrefixes
    BY <1>1 DEF Fits
  <2>2. PICK none : none = ""
    OBVIOUS
  <2>3. j.leg.rex = NoRex /\ j.leg.lock = none /\ j.leg.osz = FALSE
    <3>1. NoPrefixes = [rex |-> NoRex, hasrex |-> FALSE, lock |-> none, osz |-> FALSE]
      BY <2>2, Zenon DEF NoPrefixes
    <3>2. NoPrefixes.rex = NoRex
      BY <3>1
    <3>3. NoPrefixes.lock = none
      BY <3>1
    <3>4. NoPrefixes.osz = FALSE
      BY <3>1
    <3> QED BY <2>1, <3>2, <3>3, <3>4
  <2>4. LegRead(j) = [rex |-> NoRex, hasrex |-> FALSE, lock |-> none, osz |-> FALSE]
    BY <2>3, Zenon DEF LegRead
  <2> QED BY <2>2, <2>4, Zenon DEF NoPrefixes
<1> QED BY <1>2, <1>3, <1>4, Zenon DEF AtOpcode, WithVex

LEMMA VexReads ==
  ASSUME NEW spec, NEW j, Encoded(spec, j), NEW missing, HasRead(spec, j, missing), rest \in Seq(Nat),
         ConsumeVexPrefix
  PROVE  ReadSoFar(spec, j, missing, phase', rest', instruction', specification')
<1>1. IsEncoded(spec, j) /\ Fits(spec, j)
  BY DEF Encoded
<1>2. spec.type = "VEX" /\ AtVex(spec, j, missing, rest, instruction)
  BY DEF ConsumeVexPrefix, HasRead, ReadSoFar
<1>3. instruction = NoneYet(j.seg, j.addr)
  BY <1>2 DEF AtVex
<1>4. PICK s \in Seq(Nat) : s = EncodeVexPrefix(spec, j)
  BY <1>1, <1>2, PartsType
<1>5. PICK t \in Seq(Nat) : t = FromOpcode(spec, j, AfterIt(missing))
  BY <1>1, AfterType, TailsType
<1>6. LeftOf(rest, missing, s \o t)
  <2>1. LeftOf(rest, missing, EncodeVexPrefix(spec, j) \o FromOpcode(spec, j, AfterIt(missing)))
    BY <1>2 DEF AtVex, FromPrefix
  <2> QED BY <1>4, <1>5, <2>1, Zenon
<1>7. CASE Fail
  BY <1>7, FailReads
<1>8. CASE ~Fail
  <2>1. Len(rest) >= (IF rest[1] = 196 THEN 3 ELSE 2) /\ Len(rest) \in Nat
    BY <1>8 DEF ConsumeVexPrefix
  <2>2. rest # <<>>
    <3>1. Len(rest) >= 2
      BY <2>1
    <3> QED BY <3>1
  <2>3. ~(Len(rest) < (IF rest[1] = 196 THEN 3 ELSE 2))
    BY <1>8 DEF ConsumeVexPrefix
  <2>4. spec.type \in {"VEX", "EVEX"} /\ LeftOf(rest, missing, s \o FromOpcode(spec, j, AfterIt(missing)))
    BY <1>2, <1>5, <1>6
  <2>5. /\ rest[1] = 196 => Consume(3, [instruction EXCEPT !.kind = "VEX", !.vex = LongVexRead(rest[2], rest[3])], "opcode")
        /\ rest[1] # 196 => Consume(2, [instruction EXCEPT !.kind = "VEX", !.vex = ShortVexRead(rest[2])], "opcode")
    <3>1. CASE rest[1] = 196
      BY <2>3, <3>1, Zenon DEF ConsumeVexPrefix, LongVexRead
    <3>2. CASE rest[1] # 196
      BY <2>3, <3>2, Zenon DEF ConsumeVexPrefix, ShortVexRead
    <3> QED BY <3>1, <3>2
  <2>6. ASSUME NEW b \in Nat, s = <<197, b>>, ShortVexRead(b) = VexRead(spec, j)
        PROVE  phase' = "opcode" /\ AtOpcode(spec, j, missing, rest', instruction')
    <3>1. s # <<>> /\ Len(s) = 2 /\ s[1] = 197 /\ s[2] = b
      BY <2>6
    <3>2. rest[1] # 196
      <4>1. rest[1] = 197
        BY <1>6, <2>2, <3>1, BeginsAlike
      <4> QED BY <4>1
    <3>3. 2 = Len(s) /\ 2 <= Len(rest) /\ Len(s) <= Len(rest)
      BY <2>1, <3>1
    <3>4. \A k \in 1..Len(s) : rest[k] = s[k]
      BY <1>6, <3>3, Peeled
    <3>5. rest[2] = b
      BY <3>1, <3>4
    <3>6. Consume(2, [instruction EXCEPT !.kind = "VEX", !.vex = ShortVexRead(rest[2])], "opcode")
      BY <2>5, <3>2, Zenon
    <3>7. AtOpcode(spec, j, missing, SubSeq(rest, 2 + 1, Len(rest)), [instruction EXCEPT !.kind = spec.type, !.vex = VexRead(spec, j)])
      BY <1>3, <2>4, <3>3, WholePrefixRead
    <3> QED BY <1>2, <2>6, <3>5, <3>6, <3>7, Zenon DEF Consume
  <2>7. ASSUME NEW b \in Nat, NEW c \in Nat, s = <<196, b, c>>, LongVexRead(b, c) = VexRead(spec, j)
        PROVE  phase' = "opcode" /\ AtOpcode(spec, j, missing, rest', instruction')
    <3>1. s # <<>> /\ Len(s) = 3 /\ s[1] = 196 /\ s[2] = b /\ s[3] = c
      BY <2>7
    <3>2. rest[1] = 196
      BY <1>6, <2>2, <3>1, BeginsAlike
    <3>3. 3 = Len(s) /\ 3 <= Len(rest) /\ Len(s) <= Len(rest)
      BY <2>1, <3>1, <3>2
    <3>4. \A k \in 1..Len(s) : rest[k] = s[k]
      BY <1>6, <3>3, Peeled
    <3>5. rest[2] = b /\ rest[3] = c
      BY <3>1, <3>4
    <3>6. Consume(3, [instruction EXCEPT !.kind = "VEX", !.vex = LongVexRead(rest[2], rest[3])], "opcode")
      BY <2>5, <3>2, Zenon
    <3>7. AtOpcode(spec, j, missing, SubSeq(rest, 3 + 1, Len(rest)), [instruction EXCEPT !.kind = spec.type, !.vex = VexRead(spec, j)])
      BY <1>3, <2>4, <3>3, WholePrefixRead
    <3> QED BY <1>2, <2>7, <3>5, <3>6, <3>7, Zenon DEF Consume
  <2>8. IsShortVexOf(s, VexRead(spec, j)) \/ IsLongVexOf(s, VexRead(spec, j))
    BY <1>1, <1>2, <1>4, VexReadBack
  <2>9. phase' = "opcode" /\ AtOpcode(spec, j, missing, rest', instruction')
    BY <2>6, <2>7, <2>8, Zenon DEF IsShortVexOf, IsLongVexOf
  <2> QED BY <2>9 DEF ReadSoFar
<1> QED BY <1>7, <1>8

LEMMA EvexReads ==
  ASSUME NEW spec, NEW j, Encoded(spec, j), NEW missing, HasRead(spec, j, missing), rest \in Seq(Nat),
         ConsumeEvexPrefix
  PROVE  ReadSoFar(spec, j, missing, phase', rest', instruction', specification')
<1>1. IsEncoded(spec, j) /\ Fits(spec, j)
  BY DEF Encoded
<1>2. spec.type = "EVEX" /\ AtVex(spec, j, missing, rest, instruction)
  BY DEF ConsumeEvexPrefix, HasRead, ReadSoFar
<1>3. instruction = NoneYet(j.seg, j.addr)
  BY <1>2 DEF AtVex
<1>4. PICK s \in Seq(Nat) : s = EncodeEvexPrefix(spec, j)
  BY <1>1, <1>2, PartsType
<1>5. PICK t \in Seq(Nat) : t = FromOpcode(spec, j, AfterIt(missing))
  BY <1>1, AfterType, TailsType
<1>6. LeftOf(rest, missing, s \o t)
  <2>1. LeftOf(rest, missing, EncodeEvexPrefix(spec, j) \o FromOpcode(spec, j, AfterIt(missing)))
    BY <1>2 DEF AtVex, FromPrefix
  <2> QED BY <1>4, <1>5, <2>1, Zenon
<1>7. CASE Fail
  BY <1>7, FailReads
<1>8. CASE ~Fail
  <2>1. Len(rest) >= 4 /\ Len(rest) \in Nat
    BY <1>8 DEF ConsumeEvexPrefix
  <2>2. PICK b \in Nat, c \in Nat, d \in Nat : s = <<98, b, c, d>> /\ EvexRead(b, c, d) = VexRead(spec, j)
    BY <1>1, <1>2, <1>4, EvexReadBack DEF IsEvexOf
  <2>3. Len(s) = 4 /\ s[1] = 98 /\ s[2] = b /\ s[3] = c /\ s[4] = d
    BY <2>2
  <2>4. 4 = Len(s) /\ 4 <= Len(rest) /\ Len(s) <= Len(rest)
    BY <2>1, <2>3
  <2>5. \A k \in 1..Len(s) : rest[k] = s[k]
    BY <1>6, <2>4, Peeled
  <2>6. rest[2] = b /\ rest[3] = c /\ rest[4] = d
    BY <2>3, <2>5
  <2>7. Consume(4, [instruction EXCEPT !.kind = "EVEX", !.vex = EvexRead(rest[2], rest[3], rest[4])], "opcode")
    BY <1>8, Zenon DEF ConsumeEvexPrefix, EvexRead
  <2>8. spec.type \in {"VEX", "EVEX"} /\ LeftOf(rest, missing, s \o FromOpcode(spec, j, AfterIt(missing)))
    BY <1>2, <1>5, <1>6
  <2>9. AtOpcode(spec, j, missing, SubSeq(rest, 4 + 1, Len(rest)), [instruction EXCEPT !.kind = spec.type, !.vex = VexRead(spec, j)])
    BY <1>3, <2>4, <2>8, WholePrefixRead
  <2>10. phase' = "opcode" /\ AtOpcode(spec, j, missing, rest', instruction')
    BY <1>2, <2>2, <2>6, <2>7, <2>9, Zenon DEF Consume
  <2> QED BY <2>10 DEF ReadSoFar
<1> QED BY <1>7, <1>8

LegOf(rex, hasrex, lock, osz) == [rex |-> rex, hasrex |-> hasrex, lock |-> lock, osz |-> osz]
LegacyOnly(leg, seg, addr) == PrefixesOnly("legacy", leg, NoVexBits, seg, addr)

LegReplaced(d, rex, hasrex, lock, osz, seg, addr, v, w) ==
  /\ [d EXCEPT !.leg.hasrex = v, !.leg.rex = w] = LegacyOnly(LegOf(w, v, lock, osz), seg, addr)
  /\ [d EXCEPT !.leg.lock = v] = LegacyOnly(LegOf(rex, hasrex, v, osz), seg, addr)
  /\ [d EXCEPT !.leg.osz = v] = LegacyOnly(LegOf(rex, hasrex, lock, v), seg, addr)

LEMMA LegacyExcept ==
  ASSUME NEW rex, NEW hasrex, NEW lock, NEW osz, NEW seg, NEW addr,
         NEW d, d = LegacyOnly(LegOf(rex, hasrex, lock, osz), seg, addr), NEW v, NEW w
  PROVE  LegReplaced(d, rex, hasrex, lock, osz, seg, addr, v, w)
<1>1. PICK leg : leg = LegOf(rex, hasrex, lock, osz)
  OBVIOUS
<1>2. d = LegacyOnly(leg, seg, addr)
  BY <1>1
<1>3. d.leg = leg
  BY <1>2 DEF LegacyOnly, PrefixesOnly, Decoded
<1>4. ASSUME NEW x PROVE [d EXCEPT !.leg = x] = LegacyOnly(x, seg, addr)
  BY <1>2 DEF LegacyOnly, PrefixesOnly, Decoded
<1>5. [d EXCEPT !.leg.lock = v] = LegacyOnly(LegOf(rex, hasrex, v, osz), seg, addr)
  <2>1. [leg EXCEPT !.lock = v] = LegOf(rex, hasrex, v, osz)
    BY <1>1 DEF LegOf
  <2>2. [d EXCEPT !.leg.lock = v] = [d EXCEPT !.leg = [leg EXCEPT !.lock = v]]
    BY <1>3
  <2> QED BY <1>4, <2>1, <2>2, Zenon
<1>6. [d EXCEPT !.leg.osz = v] = LegacyOnly(LegOf(rex, hasrex, lock, v), seg, addr)
  <2>1. [leg EXCEPT !.osz = v] = LegOf(rex, hasrex, lock, v)
    BY <1>1 DEF LegOf
  <2>2. [d EXCEPT !.leg.osz = v] = [d EXCEPT !.leg = [leg EXCEPT !.osz = v]]
    BY <1>3
  <2> QED BY <1>4, <2>1, <2>2, Zenon
<1>7. [d EXCEPT !.leg.hasrex = v, !.leg.rex = w] = LegacyOnly(LegOf(w, v, lock, osz), seg, addr)
  <2>1. PICK e : e = [d EXCEPT !.leg.hasrex = v]
    OBVIOUS
  <2>2. PICK half : half = LegOf(rex, v, lock, osz)
    OBVIOUS
  <2>3. e = LegacyOnly(half, seg, addr)
    <3>1. [leg EXCEPT !.hasrex = v] = half
      BY <1>1, <2>2 DEF LegOf
    <3>2. [d EXCEPT !.leg.hasrex = v] = [d EXCEPT !.leg = [leg EXCEPT !.hasrex = v]]
      BY <1>3
    <3> QED BY <1>4, <2>1, <3>1, <3>2, Zenon
  <2>4. e.leg = half
    BY <2>3 DEF LegacyOnly, PrefixesOnly, Decoded
  <2>5. [e EXCEPT !.leg = [half EXCEPT !.rex = w]] = LegacyOnly([half EXCEPT !.rex = w], seg, addr)
    BY <2>3 DEF LegacyOnly, PrefixesOnly, Decoded
  <2>6. [half EXCEPT !.rex = w] = LegOf(w, v, lock, osz)
    BY <2>2 DEF LegOf
  <2>7. [e EXCEPT !.leg.rex = w] = [e EXCEPT !.leg = [half EXCEPT !.rex = w]]
    BY <2>4
  <2> QED BY <2>1, <2>5, <2>6, <2>7, Zenon
<1> QED BY <1>5, <1>6, <1>7 DEF LegReplaced

LegsRead(j) ==
  /\ LegAfter(j, FALSE, FALSE, FALSE) = LegOf(NoRex, FALSE, "", FALSE)
  /\ LegAfter(j, TRUE, FALSE, FALSE) = LegOf(j.leg.rex, j.leg.rex # NoRex, "", FALSE)
  /\ LegAfter(j, TRUE, TRUE, FALSE) = LegOf(j.leg.rex, j.leg.rex # NoRex, j.leg.lock, FALSE)
  /\ LegAfter(j, TRUE, TRUE, TRUE) = LegOf(j.leg.rex, j.leg.rex # NoRex, j.leg.lock, j.leg.osz)
  /\ LegRead(j) = LegOf(j.leg.rex, j.leg.rex # NoRex, j.leg.lock, j.leg.osz)

\* The legacy prefixes as far as they are read.
LEMMA LegsAre ==
  ASSUME NEW j, j.leg.osz \in BOOLEAN
  PROVE  LegsRead(j)
<1>1. ASSUME NEW x PROVE (FALSE /\ x) = FALSE
  OBVIOUS
<1>2. (TRUE /\ j.leg.rex # NoRex) = (j.leg.rex # NoRex) /\ (TRUE /\ j.leg.osz) = j.leg.osz
  OBVIOUS
<1>3. LegAfter(j, FALSE, FALSE, FALSE) = LegOf(NoRex, FALSE, "", FALSE)
  BY <1>1, Zenon DEF LegAfter, LegOf
<1>4. LegAfter(j, TRUE, FALSE, FALSE) = LegOf(j.leg.rex, j.leg.rex # NoRex, "", FALSE)
  BY <1>1, <1>2, Zenon DEF LegAfter, LegOf
<1>5. LegAfter(j, TRUE, TRUE, FALSE) = LegOf(j.leg.rex, j.leg.rex # NoRex, j.leg.lock, FALSE)
  BY <1>1, <1>2, Zenon DEF LegAfter, LegOf
<1>6. LegAfter(j, TRUE, TRUE, TRUE) = LegOf(j.leg.rex, j.leg.rex # NoRex, j.leg.lock, j.leg.osz)
  BY <1>1, <1>2, Zenon DEF LegAfter, LegOf
<1>7. LegRead(j) = LegOf(j.leg.rex, j.leg.rex # NoRex, j.leg.lock, j.leg.osz)
  BY Zenon DEF LegRead, LegOf
<1> QED BY <1>3, <1>4, <1>5, <1>6, <1>7, Zenon DEF LegsRead

\* One of the four functions of the loop runs, and the byte before it says which.
LEMMA LegacyLoop ==
  ASSUME NEW spec, NEW j, Encoded(spec, j), NEW missing, HasRead(spec, j, missing), phase = "legacy", rest # <<>>
  PROVE  /\ spec.type = "legacy"
         /\ rest[1] \in 64..79 => RexIsNext(spec, j, missing, rest, instruction)
         /\ rest[1] \in DOMAIN LockOrRepOf => LockIsNext(spec, j, missing, rest, instruction)
         /\ rest[1] = OperandSizeOverrideByte => SizeIsNext(spec, j, missing, rest, instruction)
         /\ ~IsPrefixByte(rest[1]) => OpcodeIsNext(spec, j, missing, rest, instruction)
<1>1. IsEncoded(spec, j) /\ Fits(spec, j)
  BY DEF Encoded
<1>2. spec.type = "legacy" /\ AtLegacy(spec, j, missing, rest, instruction)
  BY DEF HasRead, ReadSoFar
<1>3. \/ RexIsNext(spec, j, missing, rest, instruction) \/ LockIsNext(spec, j, missing, rest, instruction)
      \/ SizeIsNext(spec, j, missing, rest, instruction) \/ OpcodeIsNext(spec, j, missing, rest, instruction)
  BY <1>1, <1>2, LegacyNext
<1>4. /\ RexIsNext(spec, j, missing, rest, instruction) => FirstIsRex(rest)
      /\ LockIsNext(spec, j, missing, rest, instruction) => FirstIsLock(rest)
      /\ SizeIsNext(spec, j, missing, rest, instruction) => FirstIsSize(rest)
      /\ OpcodeIsNext(spec, j, missing, rest, instruction) => FirstIsOpcode(rest)
  BY <1>1, <1>2, FirstOfLegacy
<1>5. /\ FirstIsRex(rest) => /\ rest[1] \notin DOMAIN LockOrRepOf /\ IsPrefixByte(rest[1])
                             /\ rest[1] # OperandSizeOverrideByte
      /\ FirstIsLock(rest) => /\ rest[1] \notin 64..79 /\ IsPrefixByte(rest[1]) /\ rest[1] # OperandSizeOverrideByte
      /\ FirstIsSize(rest) => /\ rest[1] \notin DOMAIN LockOrRepOf /\ rest[1] \notin 64..79 /\ IsPrefixByte(rest[1])
      /\ FirstIsOpcode(rest) => /\ rest[1] \notin DOMAIN LockOrRepOf /\ rest[1] \notin 64..79
                                /\ rest[1] # OperandSizeOverrideByte
  <2>1. ASSUME FirstIsRex(rest) PROVE /\ rest[1] \notin DOMAIN LockOrRepOf /\ IsPrefixByte(rest[1])
                                      /\ rest[1] # OperandSizeOverrideByte
    BY <2>1, FirstsDiffer
  <2>2. ASSUME FirstIsLock(rest) PROVE /\ rest[1] \notin 64..79 /\ IsPrefixByte(rest[1]) /\ rest[1] # OperandSizeOverrideByte
    BY <2>2, FirstsDiffer
  <2>3. ASSUME FirstIsSize(rest) PROVE /\ rest[1] \notin DOMAIN LockOrRepOf /\ rest[1] \notin 64..79 /\ IsPrefixByte(rest[1])
    BY <2>3, FirstsDiffer
  <2>4. ASSUME FirstIsOpcode(rest) PROVE /\ rest[1] \notin DOMAIN LockOrRepOf /\ rest[1] \notin 64..79
                                         /\ rest[1] # OperandSizeOverrideByte
    BY <2>4, FirstsDiffer
  <2> QED BY <2>1, <2>2, <2>3, <2>4
<1> QED BY <1>2, <1>3, <1>4, <1>5

LEMMA RexReads ==
  ASSUME NEW spec, NEW j, Encoded(spec, j), NEW missing, HasRead(spec, j, missing), rest \in Seq(Nat),
         ParseRexPrefix
  PROVE  ReadSoFar(spec, j, missing, phase', rest', instruction', specification')
<1>1. phase = "legacy" /\ rest # <<>> /\ rest[1] \in 64..79
  BY DEF ParseRexPrefix, NextIs
<1>2. spec.type = "legacy" /\ RexIsNext(spec, j, missing, rest, instruction)
  BY <1>1, LegacyLoop
<1>3. IsEncoded(spec, j) /\ j.leg.rex \in RexPrefix /\ j.leg.osz \in BOOLEAN
  BY EncodedFields DEF Encoded
<1>4. CASE Fail
  BY <1>4, FailReads
<1>5. CASE ~Fail
  <2>1. PICK rex : rex = [w |-> Bit(rest[1], 3), r |-> Bit(rest[1], 2), x |-> Bit(rest[1], 1), b |-> Bit(rest[1], 0)]
    OBVIOUS
  <2>2. Consume(1, [instruction EXCEPT !.leg.hasrex = TRUE, !.leg.rex = rex], "legacy")
    BY <1>5, <2>1, Zenon DEF ParseRexPrefix
  <2>3. rex = j.leg.rex
    <3>1. rest[1] = RexByte(j.leg.rex)
      BY <1>2 DEF RexIsNext, NextOf
    <3> QED BY <1>3, <2>1, <3>1, RexReadBack
  <2>4. instruction = LegacyOnly(LegOf(NoRex, FALSE, "", FALSE), j.seg, j.addr)
    <3>1. instruction = LegacySoFar(j, FALSE, FALSE, FALSE)
      BY <1>2 DEF RexIsNext
    <3>2. LegAfter(j, FALSE, FALSE, FALSE) = LegOf(NoRex, FALSE, "", FALSE)
      <4>1. LegsRead(j)
        BY <1>3, LegsAre
      <4> QED BY <4>1, Zenon DEF LegsRead
    <3> QED BY <3>1, <3>2, Zenon DEF LegacySoFar, LegacyOnly
  <2>5. LegReplaced(instruction, NoRex, FALSE, "", FALSE, j.seg, j.addr, TRUE, rex)
    BY <2>4, LegacyExcept
  <2>6. instruction' = LegacyOnly(LegOf(rex, TRUE, "", FALSE), j.seg, j.addr)
    BY <2>2, <2>5, Zenon DEF LegReplaced, Consume
  <2>7. instruction' = LegacySoFar(j, TRUE, FALSE, FALSE)
    <3>1. (j.leg.rex # NoRex) = TRUE
      BY <1>2 DEF RexIsNext
    <3>2. LegAfter(j, TRUE, FALSE, FALSE) = LegOf(j.leg.rex, j.leg.rex # NoRex, "", FALSE)
      <4>1. LegsRead(j)
        BY <1>3, LegsAre
      <4> QED BY <4>1, Zenon DEF LegsRead
    <3> QED BY <2>3, <2>6, <3>1, <3>2, Zenon DEF LegacySoFar, LegacyOnly
  <2>8. rest' = SubSeq(rest, 2, Len(rest)) /\ phase' = "legacy"
    BY <2>2, ConsumesOne
  <2>9. LeftOf(rest', missing, FromLockOrRep(spec, j, AfterIt(missing)))
    BY <1>2, <2>8 DEF RexIsNext, NextOf
  <2>10. AtLegacy(spec, j, missing, rest', instruction')
    <3>1. TRUE \in BOOLEAN /\ FALSE \in BOOLEAN
      OBVIOUS
    <3> QED BY <2>7, <2>9, <3>1 DEF AtLegacy
  <2> QED BY <1>2, <2>8, <2>10 DEF ReadSoFar
<1> QED BY <1>4, <1>5

LEMMA LockReads ==
  ASSUME NEW spec, NEW j, Encoded(spec, j), NEW missing, HasRead(spec, j, missing), rest \in Seq(Nat),
         AddLockOrRepPrefix
  PROVE  ReadSoFar(spec, j, missing, phase', rest', instruction', specification')
<1>1. phase = "legacy" /\ rest # <<>> /\ rest[1] \in DOMAIN LockOrRepOf
  BY DEF AddLockOrRepPrefix, NextIs
<1>2. spec.type = "legacy" /\ LockIsNext(spec, j, missing, rest, instruction)
  BY <1>1, LegacyLoop
<1>3. IsEncoded(spec, j) /\ j.leg.lock \in {"", "LOCK", "REP", "REPNE"} /\ j.leg.osz \in BOOLEAN
  BY EncodedFields DEF Encoded
<1>4. j.leg.osz \in BOOLEAN
  BY EncodedFields DEF Encoded
<1>5. CASE Fail
  BY <1>5, FailReads
<1>6. CASE ~Fail
  <2>1. PICK lock : lock = LockOrRepOf[rest[1]]
    OBVIOUS
  <2>2. Consume(1, [instruction EXCEPT !.leg.lock = lock], "legacy")
    BY <1>6, <2>1, Zenon DEF AddLockOrRepPrefix
  <2>3. lock = j.leg.lock
    <3>1. rest[1] = LockOrRepByte[j.leg.lock] /\ j.leg.lock \in {"LOCK", "REP", "REPNE"}
      BY <1>2, <1>3 DEF LockIsNext, NextOf
    <3>2. LockOrRepOf[LockOrRepByte[j.leg.lock]] = j.leg.lock
      BY <3>1, TablesAgree
    <3> QED BY <2>1, <3>1, <3>2, Zenon
  <2>4. instruction = LegacyOnly(LegOf(j.leg.rex, j.leg.rex # NoRex, "", FALSE), j.seg, j.addr)
    <3>1. instruction = LegacySoFar(j, TRUE, FALSE, FALSE)
      BY <1>2 DEF LockIsNext
    <3>2. LegAfter(j, TRUE, FALSE, FALSE) = LegOf(j.leg.rex, j.leg.rex # NoRex, "", FALSE)
      <4>1. LegsRead(j)
        BY <1>4, LegsAre
      <4> QED BY <4>1, Zenon DEF LegsRead
    <3> QED BY <3>1, <3>2, Zenon DEF LegacySoFar, LegacyOnly
  <2>5. LegReplaced(instruction, j.leg.rex, j.leg.rex # NoRex, "", FALSE, j.seg, j.addr, lock, lock)
    BY <2>4, LegacyExcept
  <2>6. instruction' = LegacyOnly(LegOf(j.leg.rex, j.leg.rex # NoRex, lock, FALSE), j.seg, j.addr)
    BY <2>2, <2>5, Zenon DEF LegReplaced, Consume
  <2>7. instruction' = LegacySoFar(j, TRUE, TRUE, FALSE)
    <3>1. LegAfter(j, TRUE, TRUE, FALSE) = LegOf(j.leg.rex, j.leg.rex # NoRex, j.leg.lock, FALSE)
      <4>1. LegsRead(j)
        BY <1>4, LegsAre
      <4> QED BY <4>1, Zenon DEF LegsRead
    <3> QED BY <2>3, <2>6, <3>1, Zenon DEF LegacySoFar, LegacyOnly
  <2>8. rest' = SubSeq(rest, 2, Len(rest)) /\ phase' = "legacy"
    BY <2>2, ConsumesOne
  <2>9. LeftOf(rest', missing, FromOperandSize(spec, j, AfterIt(missing)))
    BY <1>2, <2>8 DEF LockIsNext, NextOf
  <2>10. AtLegacy(spec, j, missing, rest', instruction')
    <3>1. TRUE \in BOOLEAN /\ FALSE \in BOOLEAN
      OBVIOUS
    <3> QED BY <2>7, <2>9, <3>1 DEF AtLegacy
  <2> QED BY <1>2, <2>8, <2>10 DEF ReadSoFar
<1> QED BY <1>5, <1>6

LEMMA SizeReads ==
  ASSUME NEW spec, NEW j, Encoded(spec, j), NEW missing, HasRead(spec, j, missing), rest \in Seq(Nat),
         AddOperandSizeOverridePrefix
  PROVE  ReadSoFar(spec, j, missing, phase', rest', instruction', specification')
<1>1. phase = "legacy" /\ rest # <<>> /\ rest[1] = OperandSizeOverrideByte
  BY DEF AddOperandSizeOverridePrefix, NextIs
<1>2. spec.type = "legacy" /\ SizeIsNext(spec, j, missing, rest, instruction)
  BY <1>1, LegacyLoop
<1>3. IsEncoded(spec, j) /\ j.leg.osz \in BOOLEAN
  BY EncodedFields DEF Encoded
<1>4. Consume(1, [instruction EXCEPT !.leg.osz = TRUE], "legacy")
  BY Zenon DEF AddOperandSizeOverridePrefix
<1>5. instruction = LegacyOnly(LegOf(j.leg.rex, j.leg.rex # NoRex, j.leg.lock, FALSE), j.seg, j.addr)
  <2>1. instruction = LegacySoFar(j, TRUE, TRUE, FALSE)
    BY <1>2 DEF SizeIsNext
  <2>2. LegAfter(j, TRUE, TRUE, FALSE) = LegOf(j.leg.rex, j.leg.rex # NoRex, j.leg.lock, FALSE)
    <3>1. LegsRead(j)
      BY <1>3, LegsAre
    <3> QED BY <3>1, Zenon DEF LegsRead
  <2> QED BY <2>1, <2>2, Zenon DEF LegacySoFar, LegacyOnly
<1>6. LegReplaced(instruction, j.leg.rex, j.leg.rex # NoRex, j.leg.lock, FALSE, j.seg, j.addr, TRUE, TRUE)
  BY <1>5, LegacyExcept
<1>7. instruction' = LegacyOnly(LegOf(j.leg.rex, j.leg.rex # NoRex, j.leg.lock, TRUE), j.seg, j.addr)
  BY <1>4, <1>6, Zenon DEF LegReplaced, Consume
<1>8. instruction' = LegacySoFar(j, TRUE, TRUE, TRUE)
  <2>1. j.leg.osz = TRUE
    BY <1>2, <1>3 DEF SizeIsNext
  <2>2. LegAfter(j, TRUE, TRUE, TRUE) = LegOf(j.leg.rex, j.leg.rex # NoRex, j.leg.lock, j.leg.osz)
    <3>1. LegsRead(j)
      BY <1>3, LegsAre
    <3> QED BY <3>1, Zenon DEF LegsRead
  <2> QED BY <1>7, <2>1, <2>2, Zenon DEF LegacySoFar, LegacyOnly
<1>9. rest' = SubSeq(rest, 2, Len(rest)) /\ phase' = "legacy"
  BY <1>4, ConsumesOne
<1>10. LeftOf(rest', missing, FromOpcode(spec, j, AfterIt(missing)))
  BY <1>2, <1>9 DEF SizeIsNext, NextOf
<1>11. AtLegacy(spec, j, missing, rest', instruction')
  <2>1. TRUE \in BOOLEAN
    OBVIOUS
  <2> QED BY <1>8, <1>10, <2>1 DEF AtLegacy
<1> QED BY <1>2, <1>9, <1>11 DEF ReadSoFar

LEMMA EndReads ==
  ASSUME NEW spec, NEW j, Encoded(spec, j), NEW missing, HasRead(spec, j, missing), rest \in Seq(Nat),
         EndOfPrefixes
  PROVE  ReadSoFar(spec, j, missing, phase', rest', instruction', specification')
<1>1. CASE Fail
  BY <1>1, FailReads
<1>2. CASE ~Fail
  <2>1. phase = "legacy" /\ rest # <<>> /\ ~IsPrefixByte(rest[1]) /\ Consume(0, instruction, "opcode")
    BY <1>2 DEF EndOfPrefixes
  <2>2. spec.type = "legacy" /\ OpcodeIsNext(spec, j, missing, rest, instruction)
    BY <2>1, LegacyLoop
  <2>3. IsEncoded(spec, j) /\ Fits(spec, j) /\ j.leg.osz \in BOOLEAN
    BY EncodedFields DEF Encoded
  <2>4. LegAfter(j, TRUE, TRUE, TRUE) = LegRead(j)
    <3>1. LegsRead(j)
      BY <2>3, LegsAre
    <3> QED BY <3>1, Zenon DEF LegsRead
  <2>5. VexRead(spec, j) = NoVexBits
    <3>1. PICK none : none = ""
      OBVIOUS
    <3>2. j.vex = NoVexBits
      BY <2>2, <2>3 DEF Fits
    <3>3. j.vex = VexOf(none, none, 0, 0, 0, 0, 0, 0, 0, 0, 0, 0)
      BY <3>1, <3>2, NoVexBitsIs, Zenon
    <3>4. OperandRead(spec, j.vex.v) = 0
      <4>1. j.vex.v = 0
        BY <3>3 DEF VexOf
      <4> QED BY <2>2, <4>1 DEF OperandRead
    <3>5. VexRead(spec, j) = VexWithOperand(j.vex, 0)
      <4>1. j.vex \in VexOrEvexPrefix
        BY <2>3, EncodedFields
      <4>2. VexRead(spec, j) = VexWithOperand(j.vex, OperandRead(spec, j.vex.v))
        BY <4>1, VexReadIs
      <4> QED BY <3>4, <4>2, Zenon
    <3>6. VexWithOperand(j.vex, 0) = VexOf(none, none, 0, 0, 0, 0, 0, 0, 0, 0, 0, 0)
      BY <3>3 DEF VexWithOperand, VexOf
    <3> QED BY <3>2, <3>3, <3>5, <3>6, Zenon
  <2>6. instruction = PrefixesOnly(spec.type, LegRead(j), VexRead(spec, j), j.seg, j.addr)
    BY <2>2, <2>4, <2>5, Zenon DEF OpcodeIsNext, LegacySoFar
  <2>7. rest' = rest /\ instruction' = instruction /\ phase' = "opcode"
    BY <2>1, ConsumesNone
  <2>8. AtOpcode(spec, j, missing, rest', instruction')
    BY <2>2, <2>6, <2>7, Zenon DEF AtOpcode, OpcodeIsNext
  <2> QED BY <2>7, <2>8 DEF ReadSoFar
<1> QED BY <1>1, <1>2

-----------------------------------------------------------------------------
(* The opcode and the ModR/M byte are read.                                *)

OnlyOpcode(spec, j, i) == i = AfterPrefixes(spec, j, i.op, <<>>, <<>>, <<>>, <<>>)

LEMMA OpcodeSet ==
  ASSUME NEW spec, NEW j, NEW i, OnlyOpcode(spec, j, i), NEW op
  PROVE  OnlyOpcode(spec, j, [i EXCEPT !.op = op]) /\ [i EXCEPT !.op = op].op = op
<1>1. PICK vex, seg, addr, leg : vex = VexRead(spec, j) /\ seg = j.seg /\ addr = j.addr /\ leg = LegRead(j)
  OBVIOUS
<1>2. i = Decoded(spec.type, leg, vex, seg, addr, i.op, <<>>, <<>>, <<>>, <<>>)
  BY <1>1, Zenon DEF OnlyOpcode, AfterPrefixes
<1>3. [i EXCEPT !.op = op] = Decoded(spec.type, leg, vex, seg, addr, op, <<>>, <<>>, <<>>, <<>>)
  BY <1>2 DEF Decoded
<1>4. [i EXCEPT !.op = op].op = op
  BY <1>3 DEF Decoded
<1> QED BY <1>1, <1>3, <1>4, Zenon DEF OnlyOpcode, AfterPrefixes

\* The opcode that the parser decides for, if it is the one written, is all the bytes that were written.
LEMMA OpcodePeeled ==
  ASSUME NEW spec, NEW j, Encoded(spec, j), NEW missing \in BOOLEAN, rest \in Seq(Nat), rest # <<>>,
         instruction.kind = spec.type, LeftOf(rest, missing, FromOpcode(spec, j, AfterIt(missing))),
         spec.type = "legacy" => LegacyOpcode(OpcodeLength) = OpcodeWritten(spec, j)
  PROVE  LeftOf(SubSeq(rest, OpcodeLength + 1, Len(rest)), missing, FromModRM(spec, j, AfterIt(missing)))
<1>1. IsEncoded(spec, j) /\ Fits(spec, j)
  BY DEF Encoded
<1>2. PICK t \in Seq(Nat) : t = FromModRM(spec, j, AfterIt(missing))
  BY <1>1, AfterType, TailsType
<1>3. PICK op \in Nat : op = OpcodeWritten(spec, j) /\ TopOf(op) < 256
  BY <1>1, WrittenOpcode
<1>4. PICK s \in Seq(Nat) : s = EncodeOpcode(spec, j)
  BY <1>1, PartsType
<1>5. LeftOf(rest, missing, s \o t)
  BY <1>2, <1>4, Zenon DEF FromOpcode
<1>6. CASE spec.type = "legacy"
  <2>1. s = OpcodeFrom(op)
    BY <1>1, <1>3, <1>4, <1>6, WrittenOpcode
  <2>2. \A k \in 1..Len(rest) : k <= Len(OpcodeFrom(op)) => rest[k] = OpcodeFrom(op)[k]
    <3>1. \A k \in 1..Len(rest) : rest[k] = (s \o t)[k]
      <4>1. PICK whole : whole = s \o t
        OBVIOUS
      <4>2. LeftOf(rest, missing, whole)
        BY <1>5, <4>1
      <4>3. \A k \in 1..Len(rest) : rest[k] = whole[k]
        BY <4>2, LeftIsShorter
      <4> QED BY <4>1, <4>3
    <3>2. ASSUME NEW k \in 1..Len(rest), k <= Len(s) PROVE (s \o t)[k] = s[k]
      <4>1. k \in 1..Len(s)
        BY <3>2
      <4> QED BY <4>1, Elements
    <3> QED BY <2>1, <3>1, <3>2
  <2>3. LegacyOpcode(OpcodeLength) = op
    BY <1>3, <1>6
  <2>4. OpcodeLength = Len(OpcodeFrom(op)) /\ OpcodeLength <= Len(rest)
    BY <1>3, <1>6, <2>2, <2>3, OpcodeReadBack
  <2>5. Len(s) <= Len(rest)
    BY <2>1, <2>4
  <2>6. LeftOf(SubSeq(rest, Len(s) + 1, Len(rest)), missing, t)
    BY <1>5, <2>5, Peeled
  <2> QED BY <1>2, <2>1, <2>4, <2>6, Zenon
<1>7. CASE spec.type # "legacy"
  <2>1. s = <<op % 256>>
    BY <1>1, <1>3, <1>4, <1>7, WrittenOpcode
  <2>2. OpcodeLength = 1
    BY <1>7 DEF OpcodeLength
  <2>3. PICK low \in Nat : low = op % 256
    BY <1>3
  <2>4. LeftOf(rest, missing, <<low>> \o t)
    BY <1>5, <2>1, <2>3
  <2>5. LeftOf(SubSeq(rest, 2, Len(rest)), missing, t)
    BY <2>4, BytePeeled
  <2>6. 1 + 1 = 2
    OBVIOUS
  <2> QED BY <1>2, <2>2, <2>5, <2>6, Zenon
<1> QED BY <1>6, <1>7

LEMMA OpcodeReads ==
  ASSUME NEW spec, NEW j, Encoded(spec, j), NEW missing \in BOOLEAN, HasRead(spec, j, missing), rest \in Seq(Nat),
         ConsumeOpcode
  PROVE  ReadSoFar(spec, j, missing, phase', rest', instruction', specification')
<1>1. CASE Fail
  BY <1>1, FailReads
<1>2. CASE ~Fail
  <2>1. phase = "opcode" /\ AtOpcode(spec, j, missing, rest, instruction)
    BY DEF ConsumeOpcode, HasRead, ReadSoFar
  <2>2. rest # <<>>
    BY <1>2, Zenon DEF ConsumeOpcode
  <2>3. PICK op, i, n :
          /\ instruction.kind = "legacy" => op = LegacyOpcode(OpcodeLength)
          /\ i = [instruction EXCEPT !.op = op]
          /\ specification' = n /\ instruction' = i
          /\ rest' = SubSeq(rest, OpcodeLength + 1, Len(rest)) /\ phase' = "modrm"
    <3>1. PICK op : op = IF instruction.kind = "legacy" THEN LegacyOpcode(OpcodeLength)
                         ELSE 256 * MapOpcode[instruction.vex.map] + rest[1]
      OBVIOUS
    <3>2. \E i \in {[instruction EXCEPT !.op = op]} :
          \E n \in {GetEncodingSpecification(i, FALSE)} :
            IF n = 0 THEN Fail
            ELSE /\ specification' = n
                 /\ instruction' = i
                 /\ rest' = SubSeq(rest, OpcodeLength + 1, Len(rest))
                 /\ phase' = "modrm"
      BY <1>2, <3>1, ZenonT(40) DEF ConsumeOpcode
    <3>3. instruction.kind = "legacy" => op = LegacyOpcode(OpcodeLength)
      BY <3>1
    <3> QED BY <1>2, <3>2, <3>3, Zenon
  <2>4. instruction.op = 0 /\ instruction.kind = spec.type /\ OnlyOpcode(spec, j, instruction)
    <3>1. instruction = AfterPrefixes(spec, j, 0, <<>>, <<>>, <<>>, <<>>)
      BY <2>1, Zenon DEF AtOpcode, PrefixesOnly, AfterPrefixes
    <3>2. instruction.op = 0 /\ instruction.kind = spec.type
      BY <3>1 DEF AfterPrefixes, Decoded
    <3> QED BY <3>1, <3>2, Zenon DEF OnlyOpcode
  <2>5. OnlyOpcode(spec, j, instruction') /\ instruction'.op = op
    <3>1. OnlyOpcode(spec, j, [instruction EXCEPT !.op = op]) /\ [instruction EXCEPT !.op = op].op = op
      BY <2>4, OpcodeSet, ZenonT(40)
    <3> QED BY <2>3, <3>1, Zenon
  <2>6. ASSUME instruction'.op = OpcodeWritten(spec, j)
        PROVE  LeftOf(rest', missing, FromModRM(spec, j, AfterIt(missing)))
    <3>1. LeftOf(rest, missing, FromOpcode(spec, j, AfterIt(missing)))
      BY <2>1 DEF AtOpcode
    <3>2. spec.type = "legacy" => LegacyOpcode(OpcodeLength) = OpcodeWritten(spec, j)
      BY <2>3, <2>4, <2>5, <2>6, Zenon
    <3>3. LeftOf(SubSeq(rest, OpcodeLength + 1, Len(rest)), missing, FromModRM(spec, j, AfterIt(missing)))
      BY <2>2, <2>4, <3>1, <3>2, OpcodePeeled
    <3> QED BY <2>3, <3>3, Zenon
  <2>7. AtModRM(spec, j, missing, rest', instruction')
    BY <2>5, <2>6, Zenon DEF AtModRM, OnlyOpcode
  <2> QED BY <2>3, <2>7 DEF ReadSoFar
<1> QED BY <1>1, <1>2

SecondIs(r, missing, h, d, t, n) ==
  SubSeq(r, Len(h) + 1, n) = d /\ LeftOf(SubSeq(r, n + 1, Len(r)), missing, t)

\* What is left when two parts are read, and what was read last.
LEMMA SecondPeeled ==
  ASSUME NEW r, NEW missing, NEW h \in Seq(Nat), NEW d \in Seq(Nat), NEW t \in Seq(Nat),
         NEW n \in Nat, n = Len(h) + Len(d), LeftOf(r, missing, (h \o d) \o t), n <= Len(r)
  PROVE  SecondIs(r, missing, h, d, t, n)
<1>1. PICK a \in Seq(Nat) : a = h \o d
  BY Joined
<1>2. PICK lh \in Nat, ld \in Nat, l \in Nat : lh = Len(h) /\ ld = Len(d) /\ l = Len(r) /\ r \in Seq(Nat)
  BY DEF LeftOf
<1>3. Len(a) = n /\ n = lh + ld /\ n <= l
  BY <1>1, <1>2, Elements
<1>4. LeftOf(r, missing, a \o t)
  BY <1>1
<1>5. Len(a) <= Len(r)
  BY <1>2, <1>3
<1>6. LeftOf(SubSeq(r, Len(a) + 1, Len(r)), missing, t) /\ \A k \in 1..Len(a) : r[k] = a[k]
  BY <1>4, <1>5, Peeled
<1>7. \A k \in 1..ld : (h \o d)[lh + k] = d[k]
  BY <1>2, Elements
<1>8. ASSUME NEW k \in 1..ld PROVE r[lh + k] = d[k]
  <2>1. lh + k \in 1..Len(a)
    BY <1>2, <1>3
  <2> QED BY <1>1, <1>6, <1>7, <2>1
<1>9. SubSeq(r, lh + 1, n) = d
  <2> DEFINE s == SubSeq(r, lh + 1, n)
  <2>1. \A k \in (lh + 1)..n : r[k] \in Nat
    BY <1>2, <1>3, SMTT(40)
  <2>2. s \in Seq(Nat) /\ Len(s) = IF lh + 1 <= n THEN n - (lh + 1) + 1 ELSE 0
    BY <1>2, <2>1, SubSeqProperties
  <2>3. \A k \in 1..(n - (lh + 1) + 1) : s[k] = r[lh + 1 + k - 1]
    BY <1>2, <2>1, SubSeqProperties
  <2> HIDE DEF s
  <2>4. Len(s) = ld
    BY <1>2, <1>3, <2>2
  <2>5. ASSUME NEW k \in 1..ld PROVE s[k] = d[k]
    <3>1. s[k] = r[lh + 1 + k - 1] /\ lh + 1 + k - 1 = lh + k
      BY <1>2, <1>3, <2>3
    <3> QED BY <1>8, <3>1
  <2>6. s = d
    BY <1>2, <2>2, <2>4, <2>5, SeqEqual
  <2> QED BY <2>6 DEF s
<1> QED BY <1>2, <1>3, <1>6, <1>9 DEF SecondIs

\* The bytes of a displacement, and the displacement that is read from them.
DispBytes(d, n) == CASE n = 0 -> <<>> [] n = 1 -> <<d % 256>> [] n = 4 -> EmitDWord(d)
DispOf(d, n)    == CASE n = 0 -> 0 [] n = 1 -> SignedByte(d % 256) [] n = 4 -> d

LEMMA DispReadBack ==
  ASSUME NEW d \in Int, NEW n \in {0, 1, 4}, n = 4 => IsDWord(d)
  PROVE  /\ DispBytes(d, n) \in Seq(Nat) /\ Len(DispBytes(d, n)) = n
         /\ Displacement(DispBytes(d, n)) = DispOf(d, n)
<1>1. CASE n = 0
  <2>1. DispBytes(d, n) = <<>> /\ DispOf(d, n) = 0
    BY <1>1 DEF DispBytes, DispOf
  <2>2. Displacement(<<>>) = 0
    BY DEF Displacement
  <2>3. <<>> \in Seq(Nat) /\ Len(<<>>) = 0
    OBVIOUS
  <2> QED BY <1>1, <2>1, <2>2, <2>3
<1>2. CASE n = 1
  <2>1. PICK b \in Nat : b = d % 256
    OBVIOUS
  <2>2. DispBytes(d, n) = <<b>> /\ DispOf(d, n) = SignedByte(b)
    BY <1>2, <2>1 DEF DispBytes, DispOf
  <2>3. <<b>> \in Seq(Nat) /\ Len(<<b>>) = 1
    OBVIOUS
  <2>4. Displacement(<<b>>) = SignedByte(b)
    BY <2>1, ByteReadBack
  <2> QED BY <1>2, <2>2, <2>3, <2>4
<1>3. CASE n = 4
  <2>1. DispBytes(d, n) = EmitDWord(d) /\ DispOf(d, n) = d
    BY <1>3 DEF DispBytes, DispOf
  <2>2. IsDWord(d) /\ Displacement(EmitDWord(d)) = d
    <3>1. IsDWord(d)
      BY <1>3
    <3> QED BY <3>1, DWordReadBack
  <2>3. EmitDWord(d) \in Seq(Nat) /\ Len(EmitDWord(d)) = 4
    <3>1. PICK b1 \in Nat, b2 \in Nat, b3 \in Nat, b4 \in Nat :
            /\ b1 = d % 256 /\ b2 = (d \div 256) % 256
            /\ b3 = (d \div 65536) % 256 /\ b4 = (d \div 16777216) % 256
      BY SMT
    <3>2. EmitDWord(d) = <<b1, b2, b3, b4>>
      BY <3>1, SMT DEF EmitDWord
    <3>3. <<b1, b2, b3, b4>> \in Seq(Nat) /\ Len(<<b1, b2, b3, b4>>) = 4
      BY SMT
    <3> QED BY <3>2, <3>3, SMT
  <2> QED BY <1>3, <2>1, <2>2, <2>3, Zenon
<1> QED BY <1>1, <1>2, <1>3

LEMMA OneElement ==
  ASSUME NEW S, NEW s \in AtMostOne(S), s # <<>>
  PROVE  s = <<s[1]>>
<1>1. s \in Seq(S) /\ Len(s) <= 1
  BY DEF AtMostOne
<1>2. Len(s) \in Nat /\ Len(s) # 0
  BY <1>1, EmptySeq
<1>3. Len(s) = 1
  <2>1. ASSUME NEW n \in Nat, n <= 1, n # 0 PROVE n = 1
    BY <2>1
  <2> QED BY <1>1, <1>2, <2>1, Zenon
<1>4. PICK e \in S : e = s[1]
  <2>1. 1 \in 1..Len(s)
    BY <1>3
  <2> QED BY <1>1, <2>1
<1>5. <<e>> \in Seq(S) /\ Len(<<e>>) = 1 /\ <<e>>[1] = e
  OBVIOUS
<1>6. \A k \in 1..Len(s) : s[k] = <<e>>[k]
  BY <1>3, <1>4, <1>5
<1>7. s = <<e>>
  BY <1>1, <1>3, <1>5, <1>6, SeqEqual
<1> QED BY <1>4, <1>7

\* What the instruction says of an operand in memory or a register.
NumOf(j) == NumModRmDisplacementBytes(ModRmOf(j), SibOf(j))
HeadOf(j) == <<Compose233BitValues(ModRmOf(j).mod, ModRmOf(j).reg, ModRmOf(j).rm)>>
               \o ByteIf(ModRmRequiresSib(ModRmOf(j)), Compose233BitValues(SibOf(j).scale, SibOf(j).index, SibOf(j).base))

LEMMA ModRmWritten ==
  ASSUME NEW spec, NEW j, Encoded(spec, j)
  PROVE  /\ spec.modrm = "NO" => j.modrm = <<>> /\ j.sib = <<>> /\ EncodeModRM(spec, j) = <<>> /\ ModRmRead(j) = <<>>
         /\ spec.modrm # "NO" =>
              /\ EncodeModRM(spec, j) = HeadOf(j) \o DispBytes(ModRmOf(j).disp, NumOf(j))
              /\ ModRmRead(j) = <<[ModRmOf(j) EXCEPT !.disp = DispOf(ModRmOf(j).disp, NumOf(j))]>>
              /\ j.sib = IF ModRmRequiresSib(ModRmOf(j)) THEN <<SibOf(j)>> ELSE <<>>
              /\ SibOf(j) = IF ModRmRequiresSib(ModRmOf(j)) THEN SibOf(j) ELSE DefaultSib
<1>1. ValidateModRM(spec, j) /\ j \in DecodedInstruction
  BY EncodedSpec DEF Encoded, Validate
<1>2. CASE spec.modrm = "NO"
  <2>1. j.modrm = <<>> /\ j.sib = <<>>
    BY <1>1, <1>2 DEF ValidateModRM
  <2>2. EncodeModRM(spec, j) = <<>>
    BY <1>2, Zenon DEF EncodeModRM
  <2>3. ModRmRead(j) = <<>>
    BY <2>1 DEF ModRmRead
  <2> QED BY <1>2, <2>1, <2>2, <2>3
<1>3. CASE spec.modrm # "NO"
  <2>1. j.modrm # <<>> /\ (ModRmRequiresSib(j.modrm[1]) <=> j.sib # <<>>)
    BY <1>1, <1>3 DEF ValidateModRM
  <2>2. ModRmOf(j) = j.modrm[1]
    BY <2>1 DEF ModRmOf
  <2>3. EncodeModRM(spec, j) = HeadOf(j) \o DispBytes(ModRmOf(j).disp, NumOf(j))
    BY <1>3, Zenon DEF EncodeModRM, HeadOf, DispBytes, NumOf
  <2>4. DispRead(j) = DispOf(ModRmOf(j).disp, NumOf(j))
    BY Zenon DEF DispRead, DispOf, NumOf
  <2>5. ModRmRead(j) = <<[ModRmOf(j) EXCEPT !.disp = DispOf(ModRmOf(j).disp, NumOf(j))]>>
    BY <2>1, <2>2, <2>4, Zenon DEF ModRmRead
  <2>6. j.sib \in AtMostOne(Sib)
    BY <1>1 DEF DecodedInstruction
  <2>7. CASE ModRmRequiresSib(ModRmOf(j))
    <3>1. j.sib # <<>>
      BY <2>1, <2>2, <2>7
    <3>2. SibOf(j) = j.sib[1]
      BY <3>1 DEF SibOf
    <3>3. j.sib = <<j.sib[1]>>
      BY <2>6, <3>1, OneElement
    <3> QED BY <1>3, <2>3, <2>5, <2>7, <3>2, <3>3, Zenon
  <2>8. CASE ~ModRmRequiresSib(ModRmOf(j))
    <3>1. j.sib = <<>>
      BY <2>1, <2>2, <2>8
    <3>2. SibOf(j) = DefaultSib
      BY <3>1 DEF SibOf
    <3> QED BY <1>3, <2>3, <2>5, <2>8, <3>1, <3>2, Zenon
  <2> QED BY <2>7, <2>8
<1> QED BY <1>2, <1>3

\* The two bytes, as the parser takes them apart.
LEMMA HeadWritten ==
  ASSUME NEW spec, NEW j, Encoded(spec, j), NEW m, m = ModRmOf(j), NEW s, s = SibOf(j), spec.modrm # "NO",
         NEW byte, byte = Compose233BitValues(m.mod, m.reg, m.rm),
         NEW second, second = Compose233BitValues(s.scale, s.index, s.base)
  PROVE  /\ byte \in Nat /\ ParseModRm(byte) = [m EXCEPT !.disp = 0]
         /\ second \in Nat /\ (j.sib # <<>> => ParseSib(second) = s)
         /\ m.disp \in Int /\ NumOf(j) \in {0, 1, 4} /\ (NumOf(j) = 4 => IsDWord(m.disp))
<1>1. j \in DecodedInstruction /\ ValidateModRM(spec, j) /\ Fits(spec, j)
  BY EncodedSpec DEF Encoded, Validate
<1>2. m \in ModRm /\ s \in Sib
  BY <1>1, ModRmOfType
<1>3. PICK mod \in 0..3, reg \in Nat, rm \in Nat, disp \in Int : m = [mod |-> mod, reg |-> reg, rm |-> rm, disp |-> disp]
  BY <1>2 DEF ModRm
<1>4. reg < 8 /\ rm < 8
  <2>1. j.modrm # <<>>
    BY <1>1 DEF ValidateModRM
  <2>2. m = j.modrm[1] /\ 1 \in DOMAIN j.modrm
    <3>1. j.modrm \in AtMostOne(ModRm)
      BY <1>1 DEF DecodedInstruction
    <3>2. PICK e : e = j.modrm[1] /\ j.modrm = <<e>>
      BY <2>1, <3>1, OneElement
    <3>3. DOMAIN <<e>> = {1}
      OBVIOUS
    <3>4. 1 \in DOMAIN j.modrm
      BY <3>2, <3>3
    <3> QED BY <2>1, <3>4 DEF ModRmOf
  <2>3. j.modrm[1].reg < 8 /\ j.modrm[1].rm < 8
    BY <1>1, <2>2, Zenon DEF Fits
  <2> QED BY <1>3, <2>2, <2>3
<1>5. byte \in Nat /\ ParseModRm(byte) = [m EXCEPT !.disp = 0]
  <2>1. reg \in 0..7 /\ rm \in 0..7
    BY <1>4
  <2>2. byte = Compose233BitValues(mod, reg, rm)
    BY <1>3
  <2>3. byte \in Nat /\ Bits(byte, 6, 8) = mod /\ Bits(byte, 3, 6) = reg /\ Bits(byte, 0, 3) = rm
    BY <1>3, <2>1, <2>2, FieldsReadBack
  <2>4. ParseModRm(byte) = [mod |-> mod, reg |-> reg, rm |-> rm, disp |-> 0]
    BY <2>3, Zenon DEF ParseModRm
  <2> QED BY <1>3, <2>3, <2>4
<1>6. PICK scale \in Nat, index \in Nat, base \in Nat : s = [scale |-> scale, index |-> index, base |-> base]
  BY <1>2 DEF Sib
<1>7. second \in Nat
  <2>1. PICK x \in Nat, y \in Nat, z \in Nat : x = scale % 4 /\ y = index % 8 /\ z = base % 8
    OBVIOUS
  <2>2. second = 64 * x + 8 * y + z
    BY <1>6, <2>1 DEF Compose233BitValues
  <2> QED BY <2>2
<1>8. ASSUME j.sib # <<>> PROVE ParseSib(second) = s
  <2>1. s = j.sib[1] /\ 1 \in DOMAIN j.sib
    <3>1. j.sib \in AtMostOne(Sib)
      BY <1>1 DEF DecodedInstruction
    <3>2. PICK e : e = j.sib[1] /\ j.sib = <<e>>
      BY <1>8, <3>1, OneElement
    <3>3. DOMAIN <<e>> = {1}
      OBVIOUS
    <3>4. 1 \in DOMAIN j.sib
      BY <3>2, <3>3
    <3> QED BY <1>8, <3>4 DEF SibOf
  <2>2. j.sib[1].scale < 4 /\ j.sib[1].index < 8 /\ j.sib[1].base < 8
    BY <1>1, <2>1, Zenon DEF Fits
  <2>3. scale \in 0..3 /\ index \in 0..7 /\ base \in 0..7
    BY <1>6, <2>1, <2>2
  <2>4. second = Compose233BitValues(scale, index, base)
    BY <1>6
  <2>5. Bits(second, 6, 8) = scale /\ Bits(second, 3, 6) = index /\ Bits(second, 0, 3) = base
    BY <2>3, <2>4, FieldsReadBack
  <2> QED BY <1>6, <2>5, Zenon DEF ParseSib
<1>9. m.disp \in Int
  BY <1>3
<1>10. NumOf(j) \in {0, 1, 4}
  <2>1. m.mod \in 0..3
    BY <1>3
  <2> QED BY <2>1 DEF NumOf, NumModRmDisplacementBytes
<1>11. NumOf(j) = 4 => IsDWord(m.disp)
  BY <1>1, Zenon DEF Fits, NumOf
<1> QED BY <1>5, <1>7, <1>8, <1>9, <1>10, <1>11

\* What ConsumeModRmAndSIBIfNeeded takes from the bytes r.
TakesModRm(r, modrm, read, sib, count, disp) ==
  /\ modrm = ParseModRm(r[1])
  /\ read = IF ModRmRequiresSib(modrm) THEN 2 ELSE 1
  /\ ~(Len(r) < read)
  /\ sib = IF read = 2 THEN <<ParseSib(r[2])>> ELSE <<>>
  /\ count = NumModRmDisplacementBytes(modrm, IF read = 2 THEN sib[1] ELSE DefaultSib)
  /\ ~(Len(r) < read + count)
  /\ disp = Displacement(SubSeq(r, read + 1, read + count))

LEMMA HeadIs ==
  ASSUME NEW j, NEW byte \in Nat, byte = Compose233BitValues(ModRmOf(j).mod, ModRmOf(j).reg, ModRmOf(j).rm),
         NEW second \in Nat, second = Compose233BitValues(SibOf(j).scale, SibOf(j).index, SibOf(j).base)
  PROVE  /\ HeadOf(j) \in Seq(Nat) /\ HeadOf(j)[1] = byte
         /\ ModRmRequiresSib(ModRmOf(j)) => Len(HeadOf(j)) = 2 /\ HeadOf(j)[2] = second
         /\ ~ModRmRequiresSib(ModRmOf(j)) => Len(HeadOf(j)) = 1
<1>1. HeadOf(j) = <<byte>> \o (IF ModRmRequiresSib(ModRmOf(j)) THEN <<second>> ELSE <<>>)
  BY Zenon DEF HeadOf, ByteIf
<1>2. PICK one \in Seq(Nat) : one = <<byte>> /\ Len(one) = 1 /\ one[1] = byte
  <2>1. <<byte>> \in Seq(Nat) /\ Len(<<byte>>) = 1 /\ <<byte>>[1] = byte
    OBVIOUS
  <2> QED BY <2>1
<1>3. PICK two \in Seq(Nat) : two = <<second>> /\ Len(two) = 1 /\ two[1] = second
  <2>1. <<second>> \in Seq(Nat) /\ Len(<<second>>) = 1 /\ <<second>>[1] = second
    OBVIOUS
  <2> QED BY <2>1
<1>4. CASE ModRmRequiresSib(ModRmOf(j))
  <2>1. HeadOf(j) = one \o two
    BY <1>1, <1>2, <1>3, <1>4, Zenon
  <2>2. 1 \in 1..Len(one) /\ 1 \in 1..Len(two) /\ 1 + 1 = 2
    BY <1>2, <1>3
  <2>3. one \o two \in Seq(Nat) /\ Len(one \o two) = 2 /\ (one \o two)[1] = byte /\ (one \o two)[Len(one) + 1] = second
    BY <1>2, <1>3, <2>2, Elements
  <2> QED BY <1>2, <1>4, <2>1, <2>2, <2>3, Zenon
<1>5. CASE ~ModRmRequiresSib(ModRmOf(j))
  <2>1. HeadOf(j) = <<byte>> \o <<>>
    BY <1>1, <1>5, Zenon
  <2>2. <<byte>> \o <<>> = <<byte>>
    OBVIOUS
  <2>3. HeadOf(j) = one
    BY <1>2, <2>1, <2>2, Zenon
  <2> QED BY <1>2, <1>5, <2>3
<1> QED BY <1>4, <1>5

TookModRm(spec, j, missing, r, modrm, read, sib, count, disp) ==
  /\ sib = j.sib /\ <<[modrm EXCEPT !.disp = disp]>> = ModRmRead(j)
  /\ LeftOf(SubSeq(r, read + count + 1, Len(r)), missing, FromImmediates(spec, j, AfterIt(missing)))

\* The ModR/M and SIB bytes and the displacement are read as they were written.
LEMMA ModRmReadBack ==
  ASSUME NEW spec, NEW j, Encoded(spec, j), spec.modrm # "NO", NEW missing \in BOOLEAN, NEW r, r # <<>>,
         LeftOf(r, missing, FromModRM(spec, j, AfterIt(missing))),
         NEW modrm, NEW read, NEW sib, NEW count, NEW disp, TakesModRm(r, modrm, read, sib, count, disp)
  PROVE  TookModRm(spec, j, missing, r, modrm, read, sib, count, disp)
<1>1. PICK m, s, byte, second :
        /\ m = ModRmOf(j) /\ s = SibOf(j)
        /\ byte = Compose233BitValues(m.mod, m.reg, m.rm) /\ second = Compose233BitValues(s.scale, s.index, s.base)
  OBVIOUS
<1>2. /\ byte \in Nat /\ ParseModRm(byte) = [m EXCEPT !.disp = 0]
      /\ second \in Nat /\ (j.sib # <<>> => ParseSib(second) = s)
      /\ m.disp \in Int /\ NumOf(j) \in {0, 1, 4} /\ (NumOf(j) = 4 => IsDWord(m.disp))
  BY <1>1, HeadWritten
<1>3. PICK num \in {0, 1, 4} : num = NumOf(j)
  BY <1>2
<1>4. PICK d \in Seq(Nat) : d = DispBytes(m.disp, num) /\ Len(d) = num /\ Displacement(d) = DispOf(m.disp, num)
  BY <1>2, <1>3, DispReadBack
<1>5. PICK h \in Seq(Nat) : h = HeadOf(j) /\ h[1] = byte
                            /\ (ModRmRequiresSib(m) => Len(h) = 2 /\ h[2] = second)
                            /\ (~ModRmRequiresSib(m) => Len(h) = 1)
  BY <1>1, <1>2, HeadIs
<1>6. PICK t \in Seq(Nat) : t = FromImmediates(spec, j, AfterIt(missing))
  BY AfterType, TailsType DEF Encoded
<1>7. /\ EncodeModRM(spec, j) = h \o d
      /\ ModRmRead(j) = <<[m EXCEPT !.disp = DispOf(m.disp, num)]>>
      /\ j.sib = IF ModRmRequiresSib(m) THEN <<s>> ELSE <<>>
      /\ s = IF ModRmRequiresSib(m) THEN s ELSE DefaultSib
  BY <1>1, <1>3, <1>4, <1>5, ModRmWritten, Zenon
<1>8. LeftOf(r, missing, (h \o d) \o t)
  BY <1>6, <1>7, Zenon DEF FromModRM
<1>9. PICK a \in Seq(Nat) : a = h \o d /\ Len(a) = Len(h) + Len(d) /\ \A k \in 1..Len(h) : a[k] = h[k]
  <2>1. h \o d \in Seq(Nat) /\ Len(h \o d) = Len(h) + Len(d) /\ \A k \in 1..Len(h) : (h \o d)[k] = h[k]
    BY Elements
  <2> QED BY <2>1
<1>10. PICK lh \in {1, 2}, ld \in Nat, la \in Nat : lh = Len(h) /\ ld = Len(d) /\ la = Len(a) /\ la = lh + ld
  <2>1. Len(h) \in {1, 2}
    BY <1>5
  <2>2. Len(h) \in Nat /\ Len(d) \in Nat /\ Len(a) \in Nat
    OBVIOUS
  <2> QED BY <1>9, <2>1, <2>2
<1>11. r[1] = byte /\ a # <<>>
  <2>1. 1 \in 1..lh /\ la >= 1
    BY <1>10
  <2>2. a # <<>> /\ a[1] = h[1]
    BY <1>9, <1>10, <2>1
  <2>3. LeftOf(r, missing, a \o t)
    BY <1>8, <1>9, Zenon
  <2>4. r[1] = a[1]
    BY <2>2, <2>3, BeginsAlike
  <2> QED BY <1>5, <2>2, <2>4
<1>12. modrm = [m EXCEPT !.disp = 0] /\ read = IF ModRmRequiresSib(modrm) THEN 2 ELSE 1
  BY <1>2, <1>11, Zenon DEF TakesModRm
<1>13. m \in ModRm
  BY <1>1, EncodedSpec, ModRmOfType DEF Encoded
<1>14. PICK mod, reg, rm, was : m = [mod |-> mod, reg |-> reg, rm |-> rm, disp |-> was]
  BY <1>13 DEF ModRm
<1>15. modrm = [mod |-> mod, reg |-> reg, rm |-> rm, disp |-> 0]
  BY <1>12, <1>14
<1>16. (ModRmRequiresSib(modrm) <=> ModRmRequiresSib(m)) /\ \A x : [modrm EXCEPT !.disp = x] = [m EXCEPT !.disp = x]
  <2>1. modrm.mod = m.mod /\ modrm.rm = m.rm
    BY <1>14, <1>15
  <2>2. ModRmRequiresSib(modrm) <=> ModRmRequiresSib(m)
    BY <2>1, Zenon DEF ModRmRequiresSib
  <2>3. ASSUME NEW x PROVE [modrm EXCEPT !.disp = x] = [m EXCEPT !.disp = x]
    <3>1. [modrm EXCEPT !.disp = x] = [mod |-> mod, reg |-> reg, rm |-> rm, disp |-> x]
      <4>1. PICK none : none = 0
        OBVIOUS
      <4>2. modrm = [mod |-> mod, reg |-> reg, rm |-> rm, disp |-> none]
        BY <1>15, <4>1
      <4> QED BY <4>2, SMTT(40)
    <3>2. [m EXCEPT !.disp = x] = [mod |-> mod, reg |-> reg, rm |-> rm, disp |-> x]
      BY <1>14
    <3> QED BY <3>1, <3>2
  <2> QED BY <2>2, <2>3
<1>17. NumModRmDisplacementBytes(modrm, s) = num
  <2>1. modrm.mod = m.mod /\ modrm.rm = m.rm
    BY <1>14, <1>15
  <2>2. NumModRmDisplacementBytes(modrm, s) = NumModRmDisplacementBytes(m, s)
    BY <2>1, Zenon DEF NumModRmDisplacementBytes
  <2> QED BY <1>1, <1>3, <2>2, Zenon DEF NumOf
<1>18. read = Len(h) /\ sib = j.sib /\ count = num
  <2>1. CASE ModRmRequiresSib(m)
    <3>1. read = 2 /\ ~(Len(r) < 2)
      BY <1>12, <1>16, <2>1 DEF TakesModRm
    <3>2. r[2] = second
      <4>1. PICK whole : whole = a \o t
        OBVIOUS
      <4>2. LeftOf(r, missing, whole)
        BY <1>8, <1>9, <4>1, Zenon
      <4>3. \A k \in 1..Len(r) : r[k] = whole[k]
        BY <4>2, LeftIsShorter
      <4>4. r \in Seq(Nat) /\ \A k \in 1..Len(r) : r[k] = whole[k]
        BY <4>2, <4>3 DEF LeftOf
      <4>5. 2 \in 1..Len(r)
        BY <3>1, <4>4
      <4>6. 2 \in 1..Len(h) /\ 2 \in 1..Len(a)
        <5>1. lh = 2
          BY <1>5, <1>10, <2>1
        <5>2. 2 \in 1..lh /\ 2 \in 1..la
          BY <1>10, <5>1
        <5> QED BY <1>10, <5>2
      <4>7. (a \o t)[2] = a[2] /\ a[2] = h[2]
        BY <1>9, <4>6, Elements
      <4> QED BY <1>5, <2>1, <4>1, <4>4, <4>5, <4>7, Zenon
    <3>3. j.sib = <<s>>
      BY <1>7, <2>1
    <3>4. j.sib # <<>>
      BY <3>3
    <3>5. sib = <<ParseSib(r[2])>>
      BY <3>1 DEF TakesModRm
    <3>6. sib = <<s>>
      BY <1>2, <3>2, <3>4, <3>5, Zenon
    <3>7. sib[1] = s
      BY <3>6
    <3>8. count = NumModRmDisplacementBytes(modrm, s)
      BY <3>1, <3>7, Zenon DEF TakesModRm
    <3> QED BY <1>5, <1>17, <2>1, <3>1, <3>3, <3>6, <3>8, Zenon
  <2>2. CASE ~ModRmRequiresSib(m)
    <3>1. read = 1 /\ read # 2
      <4>1. 1 # 2
        OBVIOUS
      <4> QED BY <1>12, <1>16, <2>2, <4>1, Zenon
    <3>2. j.sib = <<>> /\ s = DefaultSib
      BY <1>7, <2>2, Zenon
    <3>3. sib = <<>> /\ count = NumModRmDisplacementBytes(modrm, DefaultSib)
      BY <3>1, Zenon DEF TakesModRm
    <3> QED BY <1>5, <1>17, <2>2, <3>1, <3>2, <3>3, Zenon
  <2> QED BY <2>1, <2>2
<1>19. PICK n \in Nat : n = Len(h) + Len(d) /\ n = read + count
  <2>1. lh + ld \in Nat /\ read = lh /\ count = ld
    BY <1>4, <1>10, <1>18
  <2> QED BY <1>10, <2>1
<1>20. n <= Len(r)
  <2>1. ~(Len(r) < n) /\ r \in Seq(Nat)
    BY <1>8, <1>19 DEF TakesModRm, LeftOf
  <2> QED BY <2>1
<1>21. SubSeq(r, Len(h) + 1, n) = d /\ LeftOf(SubSeq(r, n + 1, Len(r)), missing, t)
  <2>1. SecondIs(r, missing, h, d, t, n)
    BY <1>8, <1>19, <1>20, SecondPeeled
  <2> QED BY <2>1, Zenon DEF SecondIs
<1>22. disp = DispOf(m.disp, num)
  <2>1. disp = Displacement(SubSeq(r, read + 1, read + count))
    BY DEF TakesModRm
  <2> QED BY <1>4, <1>18, <1>19, <1>21, <2>1, Zenon
<1>23. <<[modrm EXCEPT !.disp = disp]>> = ModRmRead(j)
  BY <1>7, <1>16, <1>22, Zenon
<1> QED BY <1>6, <1>18, <1>19, <1>21, <1>23, Zenon DEF TookModRm

ModRmSet(spec, j, i, sib, modrm) ==
  /\ [i EXCEPT !.sib = sib, !.modrm = modrm] = AfterPrefixes(spec, j, i.op, modrm, sib, <<>>, <<>>)
  /\ [i EXCEPT !.sib = sib, !.modrm = modrm].op = i.op
  /\ [i EXCEPT !.sib = sib, !.modrm = modrm].modrm = modrm

LEMMA ModRmIsSet ==
  ASSUME NEW spec, NEW j, NEW i, OnlyOpcode(spec, j, i), NEW sib, NEW modrm
  PROVE  ModRmSet(spec, j, i, sib, modrm)
<1>1. PICK vex, seg, addr, leg, op : vex = VexRead(spec, j) /\ seg = j.seg /\ addr = j.addr /\ leg = LegRead(j) /\ op = i.op
  OBVIOUS
<1>2. i = Decoded(spec.type, leg, vex, seg, addr, op, <<>>, <<>>, <<>>, <<>>)
  BY <1>1, Zenon DEF OnlyOpcode, AfterPrefixes
<1>3. PICK e : e = [i EXCEPT !.sib = sib]
  OBVIOUS
<1>4. e = Decoded(spec.type, leg, vex, seg, addr, op, <<>>, sib, <<>>, <<>>)
  BY <1>2, <1>3 DEF Decoded
<1>5. PICK f : f = [i EXCEPT !.sib = sib, !.modrm = modrm]
  OBVIOUS
<1>6. f = [e EXCEPT !.modrm = modrm]
  BY <1>3, <1>5
<1>7. f = Decoded(spec.type, leg, vex, seg, addr, op, modrm, sib, <<>>, <<>>)
  BY <1>4, <1>6 DEF Decoded
<1>8. f.op = op /\ f.modrm = modrm
  BY <1>7 DEF Decoded
<1> QED BY <1>1, <1>5, <1>7, <1>8, Zenon DEF ModRmSet, AfterPrefixes

LEMMA ModRmReads ==
  ASSUME NEW spec, NEW j, Encoded(spec, j), NEW missing \in BOOLEAN, HasRead(spec, j, missing),
         ConsumeModRmAndSIBIfNeeded
  PROVE  ReadSoFar(spec, j, missing, phase', rest', instruction', specification')
<1>1. CASE Fail
  BY <1>1, FailReads
<1>2. phase = "modrm" /\ AtModRM(spec, j, missing, rest, instruction)
  BY DEF ConsumeModRmAndSIBIfNeeded, HasRead, ReadSoFar
<1>3. OnlyOpcode(spec, j, instruction)
  BY <1>2, Zenon DEF AtModRM, OnlyOpcode
<1>4. instruction.modrm = <<>>
  <2>1. instruction = AfterPrefixes(spec, j, instruction.op, <<>>, <<>>, <<>>, <<>>)
    BY <1>3 DEF OnlyOpcode
  <2> QED BY <2>1 DEF AfterPrefixes, Decoded
<1>5. CASE Database[specification].spec.modrm = "NO"
  <2>1. Consume(0, instruction, "imm")
    BY <1>5, Zenon DEF ConsumeModRmAndSIBIfNeeded
  <2>2. /\ rest' = SubSeq(rest, 0 + 1, Len(rest)) /\ instruction' = instruction
        /\ phase' = "imm" /\ specification' = specification
    BY <2>1, Zenon DEF Consume
  <2>3. ASSUME Recognizes(spec, j, specification, instruction)
        PROVE  AtImmediates(spec, j, missing, rest', instruction)
    <3>1. spec.modrm = "NO" /\ instruction.op = OpcodeWritten(spec, j)
      BY <1>5, <2>3 DEF Recognizes
    <3>2. j.modrm = <<>> /\ j.sib = <<>> /\ EncodeModRM(spec, j) = <<>> /\ ModRmRead(j) = <<>>
      BY <3>1, ModRmWritten
    <3>3. instruction = ReadTo(spec, j, <<>>, <<>>)
      BY <1>3, <3>1, <3>2, Zenon DEF OnlyOpcode, ReadTo, AfterPrefixes
    <3>4. LeftOf(rest, missing, FromImmediates(spec, j, AfterIt(missing)))
      <4>1. LeftOf(rest, missing, FromModRM(spec, j, AfterIt(missing)))
        BY <1>2, <3>1 DEF AtModRM
      <4>2. PICK t \in Seq(Nat) : t = FromImmediates(spec, j, AfterIt(missing))
        BY AfterType, TailsType DEF Encoded
      <4>3. LeftOf(rest, missing, <<>> \o t)
        BY <3>2, <4>1, <4>2, Zenon DEF FromModRM
      <4> QED BY <4>2, <4>3, NothingPeeled
    <3>5. rest' = rest
      <4>1. rest \in Seq(Nat)
        BY <3>4 DEF LeftOf
      <4> QED BY <2>2, <4>1, KeptWhole, Zenon
    <3> QED BY <3>3, <3>4, <3>5, Zenon DEF AtImmediates
  <2> QED BY <2>2, <2>3 DEF ReadSoFar
<1>6. CASE Database[specification].spec.modrm # "NO" /\ ~Fail
  <2>1. rest # <<>>
    BY <1>6, Zenon DEF ConsumeModRmAndSIBIfNeeded
  <2>2. PICK modrm, read, sib, count, disp, n :
          /\ TakesModRm(rest, modrm, read, sib, count, disp)
          /\ specification' = n /\ phase' = "imm"
          /\ instruction' = [instruction EXCEPT !.sib = sib, !.modrm = <<[modrm EXCEPT !.disp = disp]>>]
          /\ rest' = SubSeq(rest, read + count + 1, Len(rest))
    <3>1. \E modrm \in {ParseModRm(rest[1])} : \E read \in {IF ModRmRequiresSib(modrm) THEN 2 ELSE 1} : ReadsSib(modrm, read)
      BY <1>6, <2>1, Zenon DEF ConsumeModRmAndSIBIfNeeded, ReadsSib, ReadsDisplacement, LooksUp
    <3>2. PICK modrm, read : /\ modrm = ParseModRm(rest[1]) /\ read = IF ModRmRequiresSib(modrm) THEN 2 ELSE 1
                             /\ ReadsSib(modrm, read)
      BY <3>1, Zenon
    <3>3. ~(Len(rest) < read)
      BY <1>6, <3>2, Zenon DEF ReadsSib
    <3>4. PICK sib, count :
            /\ sib = IF read = 2 THEN <<ParseSib(rest[2])>> ELSE <<>>
            /\ count = NumModRmDisplacementBytes(modrm, IF read = 2 THEN sib[1] ELSE DefaultSib)
            /\ ReadsDisplacement(modrm, sib, read, count)
      BY <1>6, <3>2, <3>3, Zenon DEF ReadsSib
    <3>5. ~(Len(rest) < read + count)
      BY <1>6, <3>4, Zenon DEF ReadsDisplacement
    <3>6. PICK disp, i : /\ disp = Displacement(SubSeq(rest, read + 1, read + count))
                         /\ i = [instruction EXCEPT !.sib = sib, !.modrm = <<[modrm EXCEPT !.disp = disp]>>]
                         /\ LooksUp(i, read + count + 1)
      BY <1>6, <3>4, Zenon DEF ReadsDisplacement
    <3>7. TakesModRm(rest, modrm, read, sib, count, disp)
      BY <3>2, <3>3, <3>4, <3>5, <3>6, Zenon DEF TakesModRm
    <3> QED BY <1>6, <3>6, <3>7, Zenon DEF LooksUp
  <2>3. PICK one : one = <<[modrm EXCEPT !.disp = disp]>>
    OBVIOUS
  <2>4. ModRmSet(spec, j, instruction, sib, one)
    BY <1>3, ModRmIsSet
  <2>5. /\ instruction' = AfterPrefixes(spec, j, instruction.op, one, sib, <<>>, <<>>)
        /\ instruction'.op = instruction.op /\ instruction'.modrm = one
    BY <2>2, <2>3, <2>4, Zenon DEF ModRmSet
  <2>6. ASSUME Recognizes(spec, j, specification', instruction')
        PROVE  AtImmediates(spec, j, missing, rest', instruction')
    <3>1. instruction.op = OpcodeWritten(spec, j)
      BY <2>5, <2>6 DEF Recognizes
    <3>2. spec.modrm # "NO"
      <4>1. one # <<>>
        BY <2>3
      <4> QED BY <2>5, <2>6, <4>1, Zenon DEF Recognizes
    <3>3. LeftOf(rest, missing, FromModRM(spec, j, AfterIt(missing)))
      BY <1>2, <3>1 DEF AtModRM
    <3>4. TookModRm(spec, j, missing, rest, modrm, read, sib, count, disp)
      BY <2>1, <2>2, <3>2, <3>3, ModRmReadBack
    <3>5. sib = j.sib /\ one = ModRmRead(j) /\ LeftOf(rest', missing, FromImmediates(spec, j, AfterIt(missing)))
      BY <2>2, <2>3, <3>4, Zenon DEF TookModRm
    <3>6. instruction' = ReadTo(spec, j, <<>>, <<>>)
      BY <2>5, <3>1, <3>5, Zenon DEF ReadTo
    <3> QED BY <3>5, <3>6 DEF AtImmediates
  <2> QED BY <2>2, <2>6 DEF ReadSoFar
<1> QED BY <1>1, <1>5, <1>6

-----------------------------------------------------------------------------
(* Immediate values and code offset are read.                              *)

SumsTo(seq, n, E) == DOMAIN seq = 1..n /\ E[0] = 0 /\ \A k \in 1..n : E[k] = E[k - 1] + seq[k]
SumEquals(seq, v) == FoldLeft(+, 0, seq) = v

\* The fold of + over a sequence is what E adds up to.
LEMMA SumIs ==
  ASSUME NEW seq, NEW n \in Nat, NEW E, SumsTo(seq, n, E)
  PROVE  SumEquals(seq, E[n])
<1>1. DOMAIN seq = 1..n /\ E[0] = 0 /\ \A k \in 1..n : E[k] = E[k - 1] + seq[k]
  BY DEF SumsTo
<1> DEFINE D == DOMAIN seq
           Is(f) == f = [s \in SUBSET D |->
                           IF s = {} THEN 0 ELSE f[s \ {Max(s)}] + seq[Max(s)]]
           h == CHOOSE f : Is(f)
<1>2. FoldLeft(+, 0, seq) = h[D]
  BY DEF FoldLeft, MapThenFoldSet
<1>3. \A f : Is(f) <=> FoldedOver("add", 0, seq, n, f)
  BY <1>1 DEF FoldedOver, Applied
<1> HIDE DEF Is
<1>4. FoldedOver("add", 0, seq, n, h)
  BY <1>3, FoldExists
<1> HIDE DEF h, D
<1>5. PICK it : Steps("add", 0, seq, n, it) /\ it[n] = h[1 .. n]
  BY <1>4, FoldSteps
<1>6. it[0] = 0 /\ \A k \in 1..n : it[k] = it[k - 1] + seq[k]
  BY <1>5 DEF Steps, Applied
<1> DEFINE S == {k \in Nat : k <= n => it[k] = E[k]}
<1>7. 0 \in S
  BY <1>1, <1>6
<1>8. ASSUME NEW k \in Nat, k \in S PROVE k + 1 \in S
  <2> SUFFICES ASSUME k + 1 <= n PROVE it[k + 1] = E[k + 1]
    OBVIOUS
  <2>1. PICK m \in 1..n : m = k + 1 /\ m - 1 = k
    OBVIOUS
  <2>2. it[k] = E[k]
    BY <1>8, <2>1
  <2>3. it[m] = it[m - 1] + seq[m] /\ E[m] = E[m - 1] + seq[m]
    BY <1>1, <1>6
  <2> QED BY <2>1, <2>2, <2>3, Zenon
<1>9. n \in S
  <2> HIDE DEF S
  <2> QED BY <1>7, <1>8, Reaches
<1>10. h[D] = E[n]
  BY <1>1, <1>5, <1>9 DEF D
<1> QED BY <1>2, <1>10, Zenon DEF SumEquals

\* The sums of the beginnings of a sequence.
LEMMA PartialSums ==
  ASSUME NEW seq \in Seq(Nat), NEW n \in Nat, n = Len(seq)
  PROVE  \E E : /\ E[0] = 0 /\ \A k \in 0..n : E[k] \in Nat /\ FoldLeft(+, 0, SubSeq(seq, 1, k)) = E[k]
                /\ \A k \in 1..n : E[k] = E[k - 1] + seq[k]
<1>1. PICK h : FoldedOver("add", 0, seq, n, h)
  BY FoldExists
<1>2. PICK E : Steps("add", 0, seq, n, E)
  BY <1>1, FoldSteps
<1>3. E[0] = 0 /\ \A k \in 1..n : E[k] = E[k - 1] + seq[k]
  BY <1>2 DEF Steps, Applied
<1> DEFINE S == {k \in Nat : k <= n => E[k] \in Nat}
<1>4. 0 \in S
  BY <1>3
<1>5. ASSUME NEW k \in Nat, k \in S PROVE k + 1 \in S
  <2> SUFFICES ASSUME k + 1 <= n PROVE E[k + 1] \in Nat
    OBVIOUS
  <2>1. PICK m \in 1..n : m = k + 1 /\ m - 1 = k
    OBVIOUS
  <2>2. E[k] \in Nat /\ seq[m] \in Nat
    BY <1>5, <2>1
  <2>3. E[m] = E[m - 1] + seq[m]
    BY <1>3
  <2> QED BY <2>1, <2>2, <2>3
<1>6. ASSUME NEW k \in 0..n PROVE E[k] \in Nat
  <2>1. k \in S
    <3>1. k \in Nat
      OBVIOUS
    <3> HIDE DEF S
    <3> QED BY <1>4, <1>5, <3>1, Reaches
  <2> QED BY <2>1
<1>7. ASSUME NEW k \in 0..n PROVE FoldLeft(+, 0, SubSeq(seq, 1, k)) = E[k]
  <2>1. PICK s : s = SubSeq(seq, 1, k)
    OBVIOUS
  <2>2. k \in Nat /\ DOMAIN s = 1..k /\ \A m \in 1..k : s[m] = seq[m]
    BY <2>1
  <2>3. \A m \in 1..k : E[m] = E[m - 1] + s[m]
    <3>1. \A m \in 1..k : m \in 1..n
      OBVIOUS
    <3> QED BY <1>3, <2>2, <3>1, Zenon
  <2>4. FoldLeft(+, 0, s) = E[k]
    <3>1. SumsTo(s, k, E)
      BY <1>3, <2>2, <2>3, Zenon DEF SumsTo
    <3>2. SumEquals(s, E[k])
      BY <2>2, <3>1, SumIs
    <3> QED BY <3>2, Zenon DEF SumEquals
  <2> QED BY <2>1, <2>4, Zenon
<1> QED BY <1>3, <1>6, <1>7

LEMMA SliceIs ==
  ASSUME NEW r \in Seq(Nat), NEW s \in Seq(Nat), NEW p \in Nat, NEW q \in Nat, q = p + Len(s), q <= Len(r),
         \A i \in 1..Len(s) : r[p + i] = s[i]
  PROVE  SubSeq(r, p + 1, q) = s
<1>1. PICK l \in Nat, m \in Nat : l = Len(s) /\ m = Len(r)
  OBVIOUS
<1> DEFINE w == SubSeq(r, p + 1, q)
<1>2. \A k \in (p + 1)..q : r[k] \in Nat
  BY <1>1
<1>3. w \in Seq(Nat) /\ Len(w) = IF p + 1 <= q THEN q - (p + 1) + 1 ELSE 0
  BY <1>2, SubSeqProperties
<1>4. \A k \in 1..(q - (p + 1) + 1) : w[k] = r[p + 1 + k - 1]
  BY <1>2, SubSeqProperties
<1> HIDE DEF w
<1>5. Len(w) = l
  BY <1>1, <1>3
<1>6. ASSUME NEW k \in 1..l PROVE w[k] = s[k]
  <2>1. k \in 1..(q - (p + 1) + 1)
    BY <1>1
  <2>2. p + 1 + k - 1 = p + k
    OBVIOUS
  <2>3. r[p + k] = s[k]
    BY <1>1
  <2> QED BY <1>4, <2>1, <2>3, <2>2, Zenon
<1>7. w = s
  BY <1>1, <1>3, <1>5, <1>6, SeqEqual
<1> QED BY <1>7 DEF w

UpTo(spec, n) == FoldLeft(+, 0, SubSeq(spec.imm, 1, n))
ImmediatesFrom(spec, r) == [n \in DOMAIN spec.imm |-> SubSeq(r, UpTo(spec, n - 1) + 1, UpTo(spec, n))]
TookImmediates(spec, j, missing, r) ==
  /\ ImmediatesFrom(spec, r) = j.imm
  /\ LeftOf(SubSeq(r, UpTo(spec, Len(spec.imm)) + 1, Len(r)), missing, FromCode(spec, j, AfterIt(missing)))

LEMMA ImmediatesReadBack ==
  ASSUME NEW spec, NEW j, Encoded(spec, j), NEW missing, NEW r,
         LeftOf(r, missing, FromImmediates(spec, j, AfterIt(missing))), ~(Len(r) < UpTo(spec, Len(spec.imm)))
  PROVE  TookImmediates(spec, j, missing, r)
<1>1. ValidateImmediateValues(spec, j) /\ j \in DecodedInstruction
  BY EncodedSpec DEF Encoded, Validate
<1>2. PICK seqs \in Seq(Seq(Byte)), N \in Nat : seqs = j.imm /\ N = Len(seqs)
  <2>1. j.imm \in Seq(Seq(Byte))
    BY <1>1, InstructionFields
  <2>2. Len(j.imm) \in Nat
    BY <2>1
  <2> QED BY <2>1, <2>2
<1>3. PICK lens : lens = [n \in DOMAIN seqs |-> Len(seqs[n])] /\ spec.imm = lens
  BY <1>1, <1>2 DEF ValidateImmediateValues
<1>4. \A n \in 1..N : seqs[n] \in Seq(Byte)
  BY <1>2
<1>5. \A n \in 1..N : Len(seqs[n]) \in Nat
  <2>1. \A s \in Seq(Byte) : Len(s) \in Nat
    OBVIOUS
  <2> QED BY <1>4, <2>1, Zenon
<1>6. DOMAIN seqs = 1..N
  BY <1>2
<1>7. lens \in Seq(Nat) /\ Len(lens) = N /\ DOMAIN lens = 1..N /\ \A n \in 1..N : lens[n] = Len(seqs[n])
  <2>1. lens \in [1..N -> Nat] /\ \A n \in 1..N : lens[n] = Len(seqs[n])
    BY <1>3, <1>5, <1>6, Zenon
  <2> QED BY <2>1
<1>8. PICK E : /\ E[0] = 0 /\ \A k \in 0..N : E[k] \in Nat /\ FoldLeft(+, 0, SubSeq(lens, 1, k)) = E[k]
               /\ \A k \in 1..N : E[k] = E[k - 1] + lens[k]
  BY <1>7, PartialSums
<1>9. \A k \in 0..N : E[k] \in Nat /\ UpTo(spec, k) = E[k]
  BY <1>3, <1>8, Zenon DEF UpTo
<1>10. AddsUp(seqs, N, E)
  BY <1>7, <1>8 DEF AddsUp
<1>11. PICK flat \in Seq(Byte) : flat = FlattenSeq(seqs) /\ PartsOf(seqs, E, flat, N)
  BY <1>2, <1>10, FlattenedParts
<1>12. flat \in Seq(Nat)
  BY BytesAreNumbers
<1>13. PICK t \in Seq(Nat) : t = FromCode(spec, j, AfterIt(missing))
  BY AfterType, TailsType DEF Encoded
<1>14. LeftOf(r, missing, flat \o t) /\ r \in Seq(Nat)
  <2>1. LeftOf(r, missing, flat \o t)
    BY <1>2, <1>11, <1>13, Zenon DEF FromImmediates
  <2> QED BY <2>1 DEF LeftOf
<1>15. PICK e \in Nat : e = E[N] /\ e = UpTo(spec, Len(spec.imm)) /\ Len(flat) = e
  <2>1. N \in 0..N
    OBVIOUS
  <2> QED BY <1>3, <1>7, <1>9, <1>11, <2>1 DEF PartsOf
<1>16. Len(flat) <= Len(r)
  <2>1. Len(r) \in Nat /\ ~(Len(r) < e)
    BY <1>14, <1>15
  <2> QED BY <1>15, <2>1
<1>17. LeftOf(SubSeq(r, Len(flat) + 1, Len(r)), missing, t) /\ \A k \in 1..Len(flat) : r[k] = flat[k]
  BY <1>12, <1>14, <1>16, Peeled
<1>18. ASSUME NEW n \in 1..N PROVE SubSeq(r, UpTo(spec, n - 1) + 1, UpTo(spec, n)) = seqs[n]
  <2>1. n \in 0..N /\ n - 1 \in 0..N
    OBVIOUS
  <2>2. PICK p \in Nat, q \in Nat : p = E[n - 1] /\ q = E[n]
    BY <1>9, <2>1
  <2>3. PICK s \in Seq(Nat) : s = seqs[n]
    <3>1. seqs[n] \in Seq(Byte)
      BY <1>4
    <3> QED BY <3>1, BytesAreNumbers
  <2>4. q = p + Len(s)
    BY <1>7, <1>8, <2>2, <2>3
  <2>5. q <= e
    BY <1>11, <1>15, <2>2 DEF PartsOf
  <2>6. q <= Len(r)
    <3>1. Len(r) \in Nat /\ e <= Len(r)
      BY <1>14, <1>15, <1>16
    <3> QED BY <2>5, <3>1
  <2>7. ASSUME NEW i \in 1..Len(s) PROVE r[p + i] = s[i]
    <3>1. flat[p + i] = s[i]
      BY <1>11, <2>2, <2>3 DEF PartsOf
    <3>2. p + i \in 1..e
      BY <2>4, <2>5
    <3> QED BY <1>15, <1>17, <3>1, <3>2
  <2>8. SubSeq(r, p + 1, q) = s
    BY <1>14, <2>4, <2>6, <2>7, SliceIs
  <2>9. UpTo(spec, n - 1) = p /\ UpTo(spec, n) = q
    BY <1>9, <2>1, <2>2
  <2> QED BY <2>3, <2>8, <2>9, Zenon
<1>19. ImmediatesFrom(spec, r) = seqs
  <2>1. ImmediatesFrom(spec, r) = [n \in 1..N |-> seqs[n]]
    BY <1>3, <1>7, <1>18, Zenon DEF ImmediatesFrom
  <2>2. PICK T : T = Seq(Byte)
    OBVIOUS
  <2>3. seqs \in Seq(T)
    BY <1>2, <2>2, Zenon
  <2>4. seqs \in [1..N -> T]
    BY <1>2, <2>3
  <2>5. seqs = [n \in 1..N |-> seqs[n]]
    BY <2>4
  <2> QED BY <2>1, <2>5
<1> QED BY <1>2, <1>13, <1>15, <1>17, <1>19, Zenon DEF TookImmediates

\* What is read behind the ModR/M byte leaves what the instruction was recognized by.
SameFields(i, k) == k.op = i.op /\ k.modrm = i.modrm

LEMMA FieldsKept ==
  ASSUME NEW i, Shaped(i), NEW v
  PROVE  /\ SameFields(i, [i EXCEPT !.imm = v]) /\ SameFields(i, [i EXCEPT !.code = v])
         /\ SameFields(i, [i EXCEPT !.vex.suffix = v])
BY DEF Shaped, NoInstruction, SameFields

LEMMA SameRecognized ==
  ASSUME NEW spec, NEW j, NEW n, NEW i, NEW k, SameFields(i, k), Recognizes(spec, j, n, k)
  PROVE  Recognizes(spec, j, n, i)
BY Zenon DEF Recognizes, SameFields

LEMMA ReadToExcept ==
  ASSUME NEW spec, NEW j, NEW imm, NEW code, NEW was, NEW i, i = ReadTo(spec, j, was, <<>>)
  PROVE  [i EXCEPT !.imm = imm] = ReadTo(spec, j, imm, <<>>) /\ [i EXCEPT !.code = code] = ReadTo(spec, j, was, code)
<1>1. PICK kind, leg, vex, seg, addr, op, modrm, sib :
        /\ kind = spec.type /\ leg = LegRead(j) /\ vex = VexRead(spec, j) /\ seg = j.seg /\ addr = j.addr
        /\ op = OpcodeWritten(spec, j) /\ modrm = ModRmRead(j) /\ sib = j.sib
  OBVIOUS
<1>2. \A a, b : ReadTo(spec, j, a, b) = Decoded(kind, leg, vex, seg, addr, op, modrm, sib, a, b)
  BY <1>1, Zenon DEF ReadTo, AfterPrefixes
<1>3. i = Decoded(kind, leg, vex, seg, addr, op, modrm, sib, was, <<>>)
  BY <1>2
<1>4. [i EXCEPT !.imm = imm] = Decoded(kind, leg, vex, seg, addr, op, modrm, sib, imm, <<>>)
  BY <1>3 DEF Decoded
<1>5. [i EXCEPT !.code = code] = Decoded(kind, leg, vex, seg, addr, op, modrm, sib, was, code)
  BY <1>3 DEF Decoded
<1> QED BY <1>2, <1>4, <1>5, Zenon

LEMMA ImmediatesRead ==
  ASSUME NEW spec, NEW j, Encoded(spec, j), NEW missing, HasRead(spec, j, missing), Shaped(instruction),
         ConsumeImmediateValuesIfNeeded
  PROVE  ReadSoFar(spec, j, missing, phase', rest', instruction', specification')
<1>1. phase = "imm"
  BY DEF ConsumeImmediateValuesIfNeeded
<1>2. CASE Fail
  BY <1>2, FailReads
<1>3. CASE ~Fail
  <2>1. PICK now, total, imm : /\ now = Database[specification].spec /\ total = UpTo(now, Len(now.imm))
                               /\ imm = ImmediatesFrom(now, rest)
    OBVIOUS
  <2>2. ~(Len(rest) < total) /\ Consume(total, [instruction EXCEPT !.imm = imm], "code")
    BY <1>3, <2>1, Zenon DEF ConsumeImmediateValuesIfNeeded, UpTo, ImmediatesFrom
  <2>3. /\ rest' = SubSeq(rest, total + 1, Len(rest)) /\ instruction' = [instruction EXCEPT !.imm = imm]
        /\ phase' = "code" /\ specification' = specification
    BY <2>2, Zenon DEF Consume
  <2>4. ASSUME Recognizes(spec, j, specification', instruction')
        PROVE  AtCode(spec, j, missing, rest', instruction')
    <3>1. Recognizes(spec, j, specification, instruction)
      <4>1. SameFields(instruction, instruction')
        BY <2>3, FieldsKept
      <4> QED BY <2>3, <2>4, <4>1, SameRecognized
    <3>2. now = spec
      BY <2>1, <3>1 DEF Recognizes
    <3>3. /\ instruction = ReadTo(spec, j, <<>>, <<>>)
          /\ LeftOf(rest, missing, FromImmediates(spec, j, AfterIt(missing)))
      BY <1>1, <3>1 DEF HasRead, ReadSoFar, AtImmediates
    <3>4. TookImmediates(spec, j, missing, rest)
      BY <2>1, <2>2, <3>2, <3>3, ImmediatesReadBack
    <3>5. imm = j.imm /\ LeftOf(rest', missing, FromCode(spec, j, AfterIt(missing)))
      BY <2>1, <2>3, <3>2, <3>4, Zenon DEF TookImmediates
    <3>6. instruction' = ReadTo(spec, j, j.imm, <<>>)
      BY <2>3, <3>3, <3>5, ReadToExcept
    <3> QED BY <3>5, <3>6 DEF AtCode
  <2> QED BY <2>3, <2>4 DEF ReadSoFar
<1> QED BY <1>2, <1>3

LEMMA CodeReads ==
  ASSUME NEW spec, NEW j, Encoded(spec, j), NEW missing, HasRead(spec, j, missing), Shaped(instruction),
         ConsumeCodeOffsetIfNeeded
  PROVE  ReadSoFar(spec, j, missing, phase', rest', instruction', specification')
<1>1. phase = "code"
  BY DEF ConsumeCodeOffsetIfNeeded
<1>2. CASE Fail
  BY <1>2, FailReads
<1>3. CASE ~Fail
  <2>1. PICK size, code : size = Database[specification].spec.code /\ code = SubSeq(rest, 1, size)
    OBVIOUS
  <2>2. ~(Len(rest) < size) /\ Consume(size, [instruction EXCEPT !.code = code], "suffix")
    BY <1>3, <2>1, Zenon DEF ConsumeCodeOffsetIfNeeded
  <2>3. /\ rest' = SubSeq(rest, size + 1, Len(rest)) /\ instruction' = [instruction EXCEPT !.code = code]
        /\ phase' = "suffix" /\ specification' = specification
    BY <2>2, Zenon DEF Consume
  <2>4. ASSUME Recognizes(spec, j, specification', instruction')
        PROVE  AtSuffix(spec, j, missing, rest', instruction')
    <3>1. Recognizes(spec, j, specification, instruction)
      <4>1. SameFields(instruction, instruction')
        BY <2>3, FieldsKept
      <4> QED BY <2>3, <2>4, <4>1, SameRecognized
    <3>2. /\ instruction = ReadTo(spec, j, j.imm, <<>>)
          /\ LeftOf(rest, missing, FromCode(spec, j, AfterIt(missing)))
      BY <1>1, <3>1 DEF HasRead, ReadSoFar, AtCode
    <3>3. PICK c \in Seq(Nat) : c = j.code /\ Len(c) = size
      <4>1. ValidateImmediateValues(spec, j) /\ j \in DecodedInstruction
        BY EncodedSpec DEF Encoded, Validate
      <4>2. j.code \in Seq(Byte)
        BY <4>1, InstructionFields
      <4>3. Len(j.code) = size
        BY <2>1, <3>1, <4>1 DEF Recognizes, ValidateImmediateValues
      <4> QED BY <4>2, <4>3, BytesAreNumbers
    <3>4. PICK t \in Seq(Nat) : t = FromSuffix(spec, j, AfterIt(missing))
      BY AfterType, TailsType DEF Encoded
    <3>5. LeftOf(rest, missing, c \o t)
      BY <3>2, <3>3, <3>4, Zenon DEF FromCode
    <3>6. Len(c) <= Len(rest)
      <4>1. Len(rest) \in Nat /\ size \in Nat
        BY <3>3, <3>5 DEF LeftOf
      <4> QED BY <2>2, <3>3, <4>1
    <3>7. LeftOf(SubSeq(rest, Len(c) + 1, Len(rest)), missing, t) /\ SubSeq(rest, 1, Len(c)) = c
      BY <3>5, <3>6, Peeled
    <3>8. code = j.code /\ LeftOf(rest', missing, t)
      BY <2>1, <2>3, <3>3, <3>7, Zenon
    <3>9. instruction' = ReadTo(spec, j, j.imm, j.code)
      BY <2>3, <3>2, <3>8, ReadToExcept
    <3> QED BY <3>4, <3>8, <3>9 DEF AtSuffix
  <2> QED BY <2>3, <2>4 DEF ReadSoFar
<1> QED BY <1>2, <1>3

-----------------------------------------------------------------------------
(* The register behind the immediate values is read.                       *)

\* The encoder writes no register behind the immediate values where the parser reads none.
NoSuffix(spec, j) == EncodeVexSuffix(spec, j) = <<>> /\ j.vex.suffix = 0

LEMMA SuffixOnlyInVex ==
  ASSUME NEW spec, NEW j, Encoded(spec, j), spec.type = "legacy" \/ ~spec.vex.is4
  PROVE  NoSuffix(spec, j)
<1>1. EncodeVexSuffix(spec, j) = <<>>
  BY DEF EncodeVexSuffix, ByteIf
<1>2. j.kind = spec.type /\ spec.type \in {"legacy", "VEX", "EVEX"} /\ ValidateVexSuffix(spec, j)
  BY EncodedSpec DEF Encoded, Fits, Validate
<1>3. CASE spec.type = "legacy"
  <2>1. j.vex = NoVexBits
    BY <1>3 DEF Encoded, Fits
  <2>2. \A e, o : VexOf(e, e, o, o, o, o, o, o, o, o, o, o).suffix = o
    BY DEF VexOf
  <2>3. VexOf("", "", 0, 0, 0, 0, 0, 0, 0, 0, 0, 0).suffix = 0
    BY <2>2, Zenon
  <2>4. j.vex.suffix = 0
    BY <2>1, <2>3, NoVexBitsIs, Zenon
  <2> QED BY <1>1, <2>4, Zenon DEF NoSuffix
<1>4. CASE spec.type = "VEX"
  BY <1>1, <1>2, <1>4 DEF NoSuffix, ValidateVexSuffix
<1>5. CASE spec.type = "EVEX"
  BY <1>1, <1>5 DEF NoSuffix, Encoded, Fits
<1> QED BY <1>2, <1>3, <1>4, <1>5

LEMMA MutableKept ==
  ASSUME NEW i, Shaped(i), NEW v
  PROVE  SameFields(i, [MutableVex(i) EXCEPT !.vex.suffix = v])
<1>1. PICK m : m = MutableVex(i)
  OBVIOUS
<1>2. SameFields(i, m) /\ Shaped(m)
  BY <1>1 DEF MutableVex, SameFields, Shaped, NoInstruction, NoVexBits
<1>3. SameFields(m, [m EXCEPT !.vex.suffix = v])
  BY <1>2, FieldsKept
<1> QED BY <1>1, <1>2, <1>3 DEF SameFields

\* The prefix with the register behind the immediate values.
WithSuffix(spec, j) ==
  Decoded(spec.type, LegRead(j), [VexRead(spec, j) EXCEPT !.suffix = j.vex.suffix], j.seg, j.addr,
          OpcodeWritten(spec, j), ModRmRead(j), j.sib, j.imm, j.code)

LEMMA SuffixAdded ==
  ASSUME NEW spec, NEW j, NEW i, i = ReadTo(spec, j, j.imm, j.code)
  PROVE  /\ [i EXCEPT !.vex.suffix = j.vex.suffix] = WithSuffix(spec, j)
         /\ j.vex \in VexOrEvexPrefix /\ j.vex.suffix = 0 => i = WithSuffix(spec, j)
<1>1. PICK kind, leg, vex, seg, addr, op, modrm, sib, imm, code, s :
        /\ kind = spec.type /\ leg = LegRead(j) /\ vex = VexRead(spec, j) /\ seg = j.seg /\ addr = j.addr
        /\ op = OpcodeWritten(spec, j) /\ modrm = ModRmRead(j) /\ sib = j.sib /\ imm = j.imm /\ code = j.code
        /\ s = j.vex.suffix
  OBVIOUS
<1>2. i = Decoded(kind, leg, vex, seg, addr, op, modrm, sib, imm, code)
  BY <1>1, Zenon DEF ReadTo, AfterPrefixes
<1>3. WithSuffix(spec, j) = Decoded(kind, leg, [vex EXCEPT !.suffix = s], seg, addr, op, modrm, sib, imm, code)
  BY <1>1, Zenon DEF WithSuffix
<1>4. [i EXCEPT !.vex.suffix = s] = Decoded(kind, leg, [vex EXCEPT !.suffix = s], seg, addr, op, modrm, sib, imm, code)
  BY <1>2 DEF Decoded
<1>5. ASSUME j.vex \in VexOrEvexPrefix, s = 0 PROVE [vex EXCEPT !.suffix = s] = vex
  <2>1. PICK v, b : v = j.vex /\ vex = [v EXCEPT !.v = b, !.suffix = 0]
    BY <1>1 DEF VexRead
  <2> QED BY <1>5, <2>1
<1> QED BY <1>1, <1>2, <1>3, <1>4, <1>5

LEMMA SuffixReads ==
  ASSUME NEW spec, NEW j, Encoded(spec, j), NEW missing, HasRead(spec, j, missing), Shaped(instruction),
         ConsumeVexSuffixIfNeeded
  PROVE  ReadSoFar(spec, j, missing, phase', rest', instruction', specification')
<1>1. phase = "suffix"
  BY DEF ConsumeVexSuffixIfNeeded
<1>2. PICK t \in Seq(Nat) : t = AfterIt(missing)
  BY AfterType
<1>3. ASSUME Recognizes(spec, j, specification, instruction)
      PROVE  /\ instruction = ReadTo(spec, j, j.imm, j.code)
             /\ LeftOf(rest, missing, EncodeVexSuffix(spec, j) \o t)
             /\ Database[specification].spec = spec
  BY <1>1, <1>2, <1>3 DEF HasRead, ReadSoFar, AtSuffix, FromSuffix, Recognizes
<1>4. CASE Fail
  BY <1>4, FailReads
<1>5. PICK now : now = Database[specification].spec
  OBVIOUS
<1>6. CASE now.type = "legacy" \/ ~now.vex.is4
  <2>1. Consume(0, instruction, "done")
    BY <1>5, <1>6, Zenon DEF ConsumeVexSuffixIfNeeded
  <2>2. /\ rest' = SubSeq(rest, 0 + 1, Len(rest)) /\ instruction' = instruction
        /\ phase' = "done" /\ specification' = specification
    BY <2>1, Zenon DEF Consume
  <2>3. ASSUME Recognizes(spec, j, specification, instruction)
        PROVE  AtEnd(spec, j, missing, rest', instruction)
    <3>1. NoSuffix(spec, j)
      BY <1>3, <1>5, <1>6, <2>3, SuffixOnlyInVex
    <3>2. LeftOf(rest, missing, t)
      <4>1. LeftOf(rest, missing, <<>> \o t)
        BY <1>3, <2>3, <3>1, Zenon DEF NoSuffix
      <4> QED BY <4>1, NothingPeeled
    <3>3. rest' = rest
      <4>1. rest \in Seq(Nat)
        BY <3>2 DEF LeftOf
      <4> QED BY <2>2, <4>1, KeptWhole, Zenon
    <3>4. instruction = WithSuffix(spec, j)
      <4>1. j.vex \in VexOrEvexPrefix
        BY EncodedSpec, InstructionFields DEF Encoded
      <4> QED BY <1>3, <2>3, <3>1, <4>1, SuffixAdded DEF NoSuffix
    <3> QED BY <1>2, <3>2, <3>3, <3>4, Zenon DEF AtEnd, WithSuffix
  <2> QED BY <2>2, <2>3 DEF ReadSoFar
<1>7. CASE ~Fail /\ ~(now.type = "legacy" \/ ~now.vex.is4)
  <2>1. PICK i : i = [MutableVex(instruction) EXCEPT !.vex.suffix = rest[1]]
    OBVIOUS
  <2>2. rest # <<>> /\ Consume(1, i, "done")
    BY <1>5, <1>7, <2>1, Zenon DEF ConsumeVexSuffixIfNeeded
  <2>3. rest' = SubSeq(rest, 2, Len(rest)) /\ instruction' = i /\ phase' = "done" /\ specification' = specification
    <3>1. specification' = specification
      BY <2>2 DEF Consume
    <3> QED BY <2>2, <3>1, ConsumesOne
  <2>4. ASSUME Recognizes(spec, j, specification', instruction')
        PROVE  AtEnd(spec, j, missing, rest', instruction')
    <3>1. Recognizes(spec, j, specification, instruction)
      <4>1. SameFields(instruction, i)
        BY <2>1, MutableKept
      <4> QED BY <2>3, <2>4, <4>1, SameRecognized
    <3>2. spec.type = "VEX" /\ spec.vex.is4 /\ j.kind = "VEX"
      BY <1>3, <1>5, <1>7, <3>1, EncodedSpec DEF Encoded, Fits
    <3>3. PICK byte \in Nat : byte = j.vex.suffix
      <4>1. j.vex \in VexOrEvexPrefix
        BY EncodedSpec, InstructionFields DEF Encoded
      <4> QED BY <4>1, VexNumbers
    <3>4. EncodeVexSuffix(spec, j) = <<byte>>
      BY <3>2, <3>3 DEF EncodeVexSuffix, ByteIf
    <3>5. LeftOf(rest, missing, <<byte>> \o t)
      BY <1>3, <3>1, <3>4, Zenon
    <3>6. LeftOf(rest', missing, t) /\ rest[1] = byte
      BY <2>2, <2>3, <3>5, BytePeeled
    <3>7. instruction' = WithSuffix(spec, j)
      <4>1. instruction.kind = "VEX"
        BY <1>3, <3>1, <3>2 DEF ReadTo, AfterPrefixes, Decoded
      <4>2. instruction' = [instruction EXCEPT !.vex.suffix = j.vex.suffix]
        BY <2>1, <2>3, <3>3, <3>6, <4>1 DEF MutableVex
      <4> QED BY <1>3, <3>1, <4>2, SuffixAdded
    <3> QED BY <1>2, <3>6, <3>7, Zenon DEF AtEnd, WithSuffix
  <2> QED BY <2>3, <2>4 DEF ReadSoFar
<1> QED BY <1>4, <1>6, <1>7

-----------------------------------------------------------------------------
(* The client's encoding, read back.                                         *)

\* At every step of a call the parser has read the fields of the instruction whose bytes are behind
\* it, and the bytes of the others are in front of it, to the end of the encoding or to the cut.
ReadInv ==
  /\ cut \in BOOLEAN
  /\ ~Parsing => instruction = NoInstruction /\ ~cut
  /\ stage = "foreign" => ~cut
  /\ stage = "encoded" => Validate(SpecOf, instr) /\ bytes = Encode(SpecOf, instr)
  /\ stage = "parse" => Validate(SpecOf, instr)
  /\ stage = "parse" /\ Fits(SpecOf, instr) => HasRead(SpecOf, instr, cut)

LEMMA StepReads ==
  ASSUME ParserInv, NEW spec, NEW j, Encoded(spec, j), NEW missing \in BOOLEAN, HasRead(spec, j, missing), ParserNext
  PROVE  ReadSoFar(spec, j, missing, phase', rest', instruction', specification')
<1>1. Shaped(instruction) /\ (phase \in BeforeLookup => rest \in Seq(Nat))
  BY DEF ParserInv
<1>2. CASE ConsumeSegmentOverridePrefix
  BY <1>1, <1>2, SegmentReads DEF ConsumeSegmentOverridePrefix, BeforeLookup
<1>3. CASE ConsumeAddressSizeOverridePrefix
  BY <1>1, <1>3, AddressReads DEF ConsumeAddressSizeOverridePrefix, BeforeLookup
<1>4. CASE ConsumePrefixes
  BY <1>1, <1>4, PrefixesRead DEF ConsumePrefixes, BeforeLookup
<1>5. CASE ConsumeVexPrefix
  BY <1>1, <1>5, VexReads DEF ConsumeVexPrefix, BeforeLookup
<1>6. CASE ConsumeEvexPrefix
  BY <1>1, <1>6, EvexReads DEF ConsumeEvexPrefix, BeforeLookup
<1>7. CASE AddLockOrRepPrefix
  BY <1>1, <1>7, LockReads DEF AddLockOrRepPrefix, BeforeLookup
<1>8. CASE AddOperandSizeOverridePrefix
  BY <1>1, <1>8, SizeReads DEF AddOperandSizeOverridePrefix, BeforeLookup
<1>9. CASE ParseRexPrefix
  BY <1>1, <1>9, RexReads DEF ParseRexPrefix, BeforeLookup
<1>10. CASE EndOfPrefixes
  BY <1>1, <1>10, EndReads DEF EndOfPrefixes, BeforeLookup
<1>11. CASE ConsumeOpcode
  <2>1. phase = "opcode"
    BY <1>11, Zenon DEF ConsumeOpcode
  <2>2. rest \in Seq(Nat)
    BY <1>1, <2>1 DEF BeforeLookup
  <2> QED BY <1>11, <2>2, OpcodeReads
<1>12. CASE ConsumeModRmAndSIBIfNeeded
  BY <1>12, ModRmReads
<1>13. CASE ConsumeImmediateValuesIfNeeded
  BY <1>1, <1>13, ImmediatesRead
<1>14. CASE ConsumeCodeOffsetIfNeeded
  BY <1>1, <1>14, CodeReads
<1>15. CASE ConsumeVexSuffixIfNeeded
  BY <1>1, <1>15, SuffixReads
<1> QED BY <1>2, <1>3, <1>4, <1>5, <1>6, <1>7, <1>8, <1>9, <1>10, <1>11, <1>12, <1>13, <1>14, <1>15 DEF ParserNext

\* A call begins at the first byte.
LEMMA BeginningReads ==
  ASSUME NEW spec, NEW j, NEW missing, NEW r, LeftOf(r, missing, FromSegment(spec, j, AfterIt(missing))), NEW n
  PROVE  ReadSoFar(spec, j, missing, "prefixes", r, NoInstruction, n)
<1>1. NoInstruction = NoneYet("", FALSE)
  BY DEF NoInstruction, NoneYet, PrefixesOnly, Decoded
<1>2. FALSE \in BOOLEAN
  OBVIOUS
<1>3. AtPrefixes(spec, j, missing, r, NoInstruction)
  BY <1>1, <1>2 DEF AtPrefixes
<1> QED BY <1>3 DEF ReadSoFar

LEMMA Halves ==
  ASSUME NEW s \in Seq(Nat), NEW l \in Nat, l = Len(s), NEW n \in 0..l
  PROVE  SubSeq(s, 1, n) \o SubSeq(s, n + 1, l) = s
<1>1. PICK a : a = SubSeq(s, 1, n)
  OBVIOUS
<1>2. PICK m : m = SubSeq(s, n + 1, l)
  OBVIOUS
<1>3. \A k \in 1..n : s[k] \in Nat
  OBVIOUS
<1>4. \A k \in (n + 1)..l : s[k] \in Nat
  OBVIOUS
<1>5. a \in Seq(Nat) /\ Len(a) = n /\ \A k \in 1..n : a[k] = s[k]
  BY <1>1
<1>6. m \in Seq(Nat) /\ Len(m) = l - n
  BY <1>2
<1>7. ASSUME NEW k \in 1..(l - n) PROVE m[k] = s[n + k]
  <2>1. PICK x : x = SubSeq(s, n + 1, l)
    OBVIOUS
  <2>2. x[k] = s[n + 1 + k - 1]
    BY <2>1, <1>4, SubSeqProperties
  <2>3. n + 1 + k - 1 = n + k
    OBVIOUS
  <2> QED BY <1>2, <2>1, <2>2, <2>3
<1>8. PICK w : w = a \o m
  OBVIOUS
<1>9. w \in Seq(Nat) /\ Len(w) = Len(a) + Len(m)
  BY <1>5, <1>6, <1>8, Elements
<1>10. Len(w) = l
  BY <1>5, <1>6, <1>9
<1>11. (\A k \in 1..Len(a) : w[k] = a[k]) /\ (\A k \in 1..Len(m) : w[Len(a) + k] = m[k])
  BY <1>5, <1>6, <1>8, Elements
<1>12. ASSUME NEW k \in 1..l PROVE w[k] = s[k]
  <2>1. CASE k <= n
    BY <1>5, <1>11, <2>1
  <2>2. CASE ~(k <= n)
    <3>1. PICK h \in 1..(l - n) : k = n + h
      <4>1. k - n \in 1..(l - n) /\ k = n + (k - n)
        BY <2>2
      <4> QED BY <4>1
    <3>2. w[n + h] = m[h]
      BY <1>5, <1>6, <1>11
    <3> QED BY <1>7, <3>1, <3>2
  <2> QED BY <2>1, <2>2
<1>13. w = s
  BY <1>9, <1>10, <1>12, SeqEqual
<1> QED BY <1>1, <1>2, <1>8, <1>13

LEMMA WholeIsLeft ==
  ASSUME NEW spec, NEW j, Encoded(spec, j), NEW all \in Seq(Nat), all = Encode(spec, j)
  PROVE  /\ LeftOf(all \o Following, FALSE, FromSegment(spec, j, AfterIt(FALSE)))
         /\ \A n \in 0..(Len(all) - 1) : LeftOf(SubSeq(all, 1, n), TRUE, FromSegment(spec, j, AfterIt(TRUE)))
<1>1. IsEncoded(spec, j) /\ j.kind = spec.type
  BY DEF Encoded, Fits
<1>2. PICK after \in Seq(Nat) : after = Following
  BY CodecAssumption, BytesAreNumbers
<1>3. LeftOf(all \o Following, FALSE, FromSegment(spec, j, AfterIt(FALSE)))
  <2>1. all \o after = FromSegment(spec, j, after)
    BY <1>1, WholeEncoding
  <2>2. PICK whole \in Seq(Nat) : whole = all \o after
    BY Joined
  <2>3. whole \o <<>> = whole /\ <<>> \in Seq(Nat)
    BY <2>2, ConcatEmptySeq
  <2>4. LeftOf(whole, FALSE, whole)
    BY <2>3 DEF LeftOf
  <2> QED BY <1>2, <2>1, <2>2, <2>4, Zenon DEF AfterIt
<1>4. ASSUME NEW n \in 0..(Len(all) - 1)
      PROVE  LeftOf(SubSeq(all, 1, n), TRUE, FromSegment(spec, j, AfterIt(TRUE)))
  <2>1. all = FromSegment(spec, j, <<>>)
    <3>1. PICK none \in Seq(Nat) : none = <<>>
      <4>1. <<>> \in Seq(Nat)
        OBVIOUS
      <4> QED BY <4>1, Zenon
    <3>2. all \o none = FromSegment(spec, j, none)
      BY <1>1, WholeEncoding
    <3>3. all \o <<>> = all
      BY ConcatEmptySeq
    <3> QED BY <3>1, <3>2, <3>3, Zenon
  <2>2. PICK l \in Nat : l = Len(all)
    OBVIOUS
  <2>3. PICK a \in Seq(Nat), m \in Seq(Nat) : /\ a = SubSeq(all, 1, n) /\ Len(a) = n
                                              /\ m = SubSeq(all, n + 1, l) /\ Len(m) = l - n
    <3>1. SubSeq(all, 1, n) \in Seq(Nat) /\ Len(SubSeq(all, 1, n)) = n
      BY <2>2
    <3>2. SubSeq(all, n + 1, l) \in Seq(Nat) /\ Len(SubSeq(all, n + 1, l)) = l - n
      BY <2>2
    <3> QED BY <3>1, <3>2
  <2>4. a \o m = all
    <3>1. n \in 0..l
      BY <2>2
    <3> QED BY <2>2, <2>3, <3>1, Halves, Zenon
  <2>5. m # <<>>
    <3>1. l - n # 0
      BY <2>2
    <3> QED BY <2>3, <3>1
  <2>6. LeftOf(a, TRUE, all)
    BY <2>4, <2>5 DEF LeftOf
  <2> QED BY <2>1, <2>3, <2>6, Zenon DEF AfterIt
<1> QED BY <1>3, <1>4

LEMMA ReadInit == CodecInit => ReadInv
<1> SUFFICES ASSUME CodecInit PROVE ReadInv
  OBVIOUS
<1>1. cut = FALSE /\ stage \in {"assign", "foreign"}
  BY DEF CodecInit
<1>2. instruction = NoInstruction
  BY DEF CodecInit, ParserInit
<1> QED BY <1>1, <1>2 DEF ReadInv

\* A step between two calls, of which the parser holds nothing yet.
LEMMA ReadClient ==
  ASSUME ReadInv, ClientInv, ParserInv, ~Parsing, AssignRegister \/ AssignMemory \/ EncodeInstruction
  PROVE  ReadInv'
<1>1. instruction = NoInstruction /\ cut = FALSE
  BY DEF ReadInv
<1>2. CASE AssignRegister \/ AssignMemory
  <2>1. stage = "assign" /\ stage' = stage /\ cut' = cut /\ instruction' = instruction
    BY <1>2, ZenonT(40) DEF AssignRegister, AssignMemory, Assign, parserVars
  <2> QED BY <1>1, <2>1 DEF ReadInv
<1>3. CASE EncodeInstruction
  <2>1. cut' = cut /\ instruction' = instruction /\ SpecOf' = SpecOf /\ instr' = instr
    BY <1>3 DEF EncodeInstruction, parserVars, SpecOf
  <2>2. CASE Validate(SpecOf, instr)
    <3>1. stage' = "encoded" /\ bytes' = Encode(SpecOf, instr)
      BY <1>3, <2>2, Zenon DEF EncodeInstruction
    <3>2. Validate(SpecOf, instr)' /\ Encode(SpecOf, instr)' = Encode(SpecOf, instr)
      BY <2>1, <2>2, Zenon
    <3> QED BY <1>1, <2>1, <3>1, <3>2 DEF ReadInv
  <2>3. CASE ~Validate(SpecOf, instr)
    <3>1. stage' = "rejected"
      BY <1>3, <2>3, Zenon DEF EncodeInstruction
    <3> QED BY <1>1, <2>1, <3>1 DEF ReadInv
  <2> QED BY <2>2, <2>3
<1> QED BY <1>2, <1>3

LEMMA ClientEncoded ==
  ASSUME ClientInv, Validate(SpecOf, instr), Fits(SpecOf, instr)
  PROVE  Encoded(SpecOf, instr)
BY DEF ClientInv, SpecOf, Encoded, IsEncoded

LEMMA ReadBegins ==
  ASSUME ReadInv, ClientInv, ParserInv, ParseAll \/ ParseCut
  PROVE  ReadInv'
<1>1. /\ stage = "encoded" /\ stage' = "parse" /\ instruction' = instruction /\ phase' = phase
      /\ specification' = specification /\ entry' = entry /\ instr' = instr
  BY DEF ParseAll, ParseCut
<1>2. instruction = NoInstruction /\ Validate(SpecOf, instr) /\ bytes = Encode(SpecOf, instr)
  BY <1>1 DEF ReadInv, Parsing
<1>3. phase = "prefixes" /\ bytes \in Seq(Nat)
  BY <1>1 DEF ParserInv, Parsing
<1>4. cut' \in BOOLEAN
  BY DEF ParseAll, ParseCut
<1>5. SpecOf' = SpecOf
  BY <1>1 DEF SpecOf
<1>6. ASSUME Fits(SpecOf, instr) PROVE LeftOf(rest', cut', FromSegment(SpecOf, instr, AfterIt(cut')))
  <2>1. Encoded(SpecOf, instr)
    BY <1>2, <1>6, ClientEncoded
  <2>2. /\ LeftOf(bytes \o Following, FALSE, FromSegment(SpecOf, instr, AfterIt(FALSE)))
        /\ \A n \in 0..(Len(bytes) - 1) : LeftOf(SubSeq(bytes, 1, n), TRUE, FromSegment(SpecOf, instr, AfterIt(TRUE)))
    BY <1>2, <1>3, <2>1, WholeIsLeft
  <2>3. CASE ParseAll
    <3>1. cut' = FALSE /\ rest' = bytes \o Following
      BY <2>3 DEF ParseAll
    <3> QED BY <2>2, <3>1, Zenon
  <2>4. CASE ParseCut
    <3>1. cut' = TRUE /\ \E n \in 0..(Len(bytes) - 1) : rest' = SubSeq(bytes, 1, n)
      BY <2>4, Zenon DEF ParseCut
    <3> QED BY <2>2, <3>1, Zenon
  <2> QED BY <2>3, <2>4
<1>7. Fits(SpecOf, instr) => ReadSoFar(SpecOf, instr, cut', "prefixes", rest', NoInstruction, specification)
  BY <1>6, BeginningReads
<1>8. (Fits(SpecOf, instr) => HasRead(SpecOf, instr, cut))'
  BY <1>1, <1>2, <1>3, <1>5, <1>7, Zenon DEF HasRead
<1>9. Validate(SpecOf, instr)'
  BY <1>1, <1>2, <1>5, Zenon
<1> QED BY <1>1, <1>4, <1>8, <1>9 DEF ReadInv, Parsing

LEMMA ReadParse ==
  ASSUME ReadInv, ClientInv, ParserInv, Parse
  PROVE  ReadInv'
<1>1. Parsing /\ ParserNext /\ UNCHANGED clientVars
  BY DEF Parse
<1>2. cut' = cut /\ stage' = stage /\ entry' = entry /\ instr' = instr /\ bytes' = bytes
  BY <1>1 DEF clientVars
<1>3. SpecOf' = SpecOf
  BY <1>2 DEF SpecOf
<1>4. CASE stage = "foreign"
  BY <1>2, <1>4 DEF ReadInv, Parsing
<1>5. CASE stage = "parse"
  <2>1. Validate(SpecOf, instr) /\ cut \in BOOLEAN
    BY <1>5 DEF ReadInv
  <2>2. ASSUME Fits(SpecOf, instr)
        PROVE  ReadSoFar(SpecOf, instr, cut, phase', rest', instruction', specification')
    <3>1. HasRead(SpecOf, instr, cut)
      BY <1>5, <2>2 DEF ReadInv
    <3>2. Encoded(SpecOf, instr)
      BY <2>1, <2>2, ClientEncoded
    <3> QED BY <1>1, <2>1, <3>1, <3>2, StepReads
  <2>3. (Fits(SpecOf, instr) => HasRead(SpecOf, instr, cut))'
    BY <1>2, <1>3, <2>2, Zenon DEF HasRead
  <2>4. Validate(SpecOf, instr)'
    BY <1>2, <1>3, <2>1, Zenon
  <2> QED BY <1>2, <1>5, <2>1, <2>3, <2>4 DEF ReadInv, Parsing
<1> QED BY <1>1, <1>4, <1>5 DEF Parsing

LEMMA ReadNext == ReadInv /\ ClientInv /\ ParserInv /\ [CodecNext]_vars => ReadInv'
<1> SUFFICES ASSUME ReadInv, ClientInv, ParserInv, [CodecNext]_vars PROVE ReadInv'
  OBVIOUS
<1>1. CASE AssignRegister \/ AssignMemory \/ EncodeInstruction
  <2>1. ~Parsing
    BY <1>1, ZenonT(40) DEF AssignRegister, AssignMemory, Assign, EncodeInstruction, Parsing
  <2> QED BY <1>1, <2>1, ReadClient
<1>2. CASE ParseAll \/ ParseCut
  BY <1>2, ReadBegins
<1>3. CASE Parse
  BY <1>3, ReadParse
<1>4. CASE UNCHANGED vars
  <2>1. /\ cut' = cut /\ stage' = stage /\ entry' = entry /\ instr' = instr /\ bytes' = bytes
        /\ rest' = rest /\ instruction' = instruction /\ specification' = specification /\ phase' = phase
    BY <1>4 DEF vars, clientVars, parserVars
  <2>2. SpecOf' = SpecOf
    BY <2>1 DEF SpecOf
  <2>3. (Fits(SpecOf, instr) => HasRead(SpecOf, instr, cut))' = (Fits(SpecOf, instr) => HasRead(SpecOf, instr, cut))
    BY <2>1, <2>2, Zenon DEF HasRead
  <2>4. Validate(SpecOf, instr)' = Validate(SpecOf, instr) /\ Encode(SpecOf, instr)' = Encode(SpecOf, instr)
    BY <2>1, <2>2, Zenon
  <2> QED BY <2>1, <2>3, <2>4 DEF ReadInv, Parsing
<1> QED BY <1>1, <1>2, <1>3, <1>4 DEF CodecNext, HasReturned

-----------------------------------------------------------------------------
(* What was read is the instruction that was encoded, in its canonical form. *)

VOf(spec, v) == IF (spec.type # "legacy" /\ spec.vex.usage = "NOT_USED") /\ v = 0 THEN IF spec.type = "VEX" THEN 15 ELSE 31 ELSE v

LEMMA CanonicalIs ==
  ASSUME NEW spec, NEW kind, NEW leg, NEW vex, NEW seg, NEW addr, NEW op, NEW modrm, NEW sib, NEW imm, NEW code,
         NEW d, d = Decoded(kind, leg, vex, seg, addr, op, modrm, sib, imm, code)
  PROVE  Canonical(spec, d) =
           Decoded(kind, [leg EXCEPT !.hasrex = FALSE], [vex EXCEPT !.v = VOf(spec, vex.v)], seg, addr,
                   OpcodeWritten(spec, d), ModRmRead(d), sib, imm, code)
<1>1. PICK v, o, mr : v = VOf(spec, vex.v) /\ o = OpcodeWritten(spec, d) /\ mr = ModRmRead(d)
  OBVIOUS
<1>2. d.leg = leg /\ d.vex = vex
  BY DEF Decoded
<1>3. Canonical(spec, d) = [d EXCEPT !.leg.hasrex = FALSE, !.op = o, !.modrm = mr, !.vex.v = v]
  <2>1. Canonical(spec, d) =
          [d EXCEPT !.leg.hasrex = FALSE, !.op = IF @ = 0 THEN OpcodeOf(spec) ELSE @,
                    !.modrm = IF @ = <<>> THEN @ ELSE <<[ModRmOf(d) EXCEPT !.disp = DispRead(d)]>>,
                    !.vex.v = VOf(spec, @)]
    BY Zenon DEF Canonical, DispRead, VOf
  <2>2. o = IF d.op = 0 THEN OpcodeOf(spec) ELSE d.op
    BY <1>1 DEF OpcodeWritten
  <2>3. mr = IF d.modrm = <<>> THEN d.modrm ELSE <<[ModRmOf(d) EXCEPT !.disp = DispRead(d)]>>
    BY <1>1 DEF ModRmRead, ModRmOf
  <2>4. v = VOf(spec, d.vex.v)
    BY <1>1, <1>2
  <2> QED BY <2>1, <2>2, <2>3, <2>4, Zenon
<1>4. PICK e1 : e1 = [d EXCEPT !.leg.hasrex = FALSE]
  OBVIOUS
<1>5. e1 = Decoded(kind, [leg EXCEPT !.hasrex = FALSE], vex, seg, addr, op, modrm, sib, imm, code)
  BY <1>4 DEF Decoded
<1>6. PICK g : g = [leg EXCEPT !.hasrex = FALSE]
  OBVIOUS
<1>7. PICK e2 : e2 = [e1 EXCEPT !.op = o]
  OBVIOUS
<1>8. e2 = Decoded(kind, g, vex, seg, addr, o, modrm, sib, imm, code)
  BY <1>5, <1>6, <1>7 DEF Decoded
<1>9. PICK e3 : e3 = [e2 EXCEPT !.modrm = mr]
  OBVIOUS
<1>10. e3 = Decoded(kind, g, vex, seg, addr, o, mr, sib, imm, code)
  BY <1>8, <1>9 DEF Decoded
<1>11. PICK e4 : e4 = [e3 EXCEPT !.vex.v = v]
  OBVIOUS
<1>12. e4 = Decoded(kind, g, [vex EXCEPT !.v = v], seg, addr, o, mr, sib, imm, code)
  BY <1>10, <1>11 DEF Decoded
<1>13. Canonical(spec, d) = e4
  BY <1>3, <1>4, <1>7, <1>9, <1>11, Zenon
<1> QED BY <1>1, <1>6, <1>12, <1>13, Zenon

LEMMA ItsOwnFields ==
  ASSUME NEW j \in DecodedInstruction
  PROVE  j = Decoded(j.kind, j.leg, j.vex, j.seg, j.addr, j.op, j.modrm, j.sib, j.imm, j.code)
BY DEF DecodedInstruction, Decoded

\* The REX prefix without bits is none.
LEMMA LegCanonical ==
  ASSUME NEW j, j.leg \in LegacyPrefixes
  PROVE  [LegRead(j) EXCEPT !.hasrex = FALSE] = [j.leg EXCEPT !.hasrex = FALSE]
<1>1. PICK rex, hasrex, lock, osz : j.leg = [rex |-> rex, hasrex |-> hasrex, lock |-> lock, osz |-> osz]
  BY DEF LegacyPrefixes
<1>2. PICK b, no : b = (rex # NoRex) /\ no = FALSE
  OBVIOUS
<1>3. LegRead(j) = [rex |-> rex, hasrex |-> b, lock |-> lock, osz |-> osz]
  BY <1>1, <1>2 DEF LegRead
<1>4. \A x, y : [[rex |-> rex, hasrex |-> x, lock |-> lock, osz |-> osz] EXCEPT !.hasrex = y]
                 = [rex |-> rex, hasrex |-> y, lock |-> lock, osz |-> osz]
  OBVIOUS
<1>5. [[rex |-> rex, hasrex |-> b, lock |-> lock, osz |-> osz] EXCEPT !.hasrex = no]
        = [[rex |-> rex, hasrex |-> hasrex, lock |-> lock, osz |-> osz] EXCEPT !.hasrex = no]
  BY <1>4, ZenonT(40)
<1> QED BY <1>1, <1>2, <1>3, <1>5, Zenon

\* An operand that is not used is read as the complement of zero, whichever way it was written.
Unused(spec, v) == IF spec.type # "legacy" /\ spec.vex.usage = "NOT_USED" THEN IF spec.type = "VEX" THEN 15 ELSE 31 ELSE v

LEMMA UnusedAlike ==
  ASSUME NEW spec, NEW j, Encoded(spec, j)
  PROVE  VOf(spec, Unused(spec, j.vex.v)) = VOf(spec, j.vex.v)
<1>1. PICK v \in Nat : v = j.vex.v
  <2>1. j.vex \in VexOrEvexPrefix
    BY EncodedSpec, InstructionFields DEF Encoded
  <2> QED BY <2>1, VexNumbers
<1>2. spec.type \in {"legacy", "VEX", "EVEX"}
  BY EncodedSpec DEF Encoded
<1>3. CASE ~(spec.type # "legacy" /\ spec.vex.usage = "NOT_USED")
  BY <1>1, <1>3 DEF Unused, VOf
<1>4. CASE spec.type = "VEX" /\ spec.vex.usage = "NOT_USED"
  <2>1. ValidateVexRegisterOperandBits(spec, v)
    BY <1>1, <1>4, EncodedSpec DEF Encoded, Validate, ValidatePrefix, ValidateVexPrefix, ValidateVexFields
  <2>2. v = 0 \/ v = 15
    BY <1>4, <2>1 DEF ValidateVexRegisterOperandBits
  <2> QED BY <1>1, <1>4, <2>2 DEF Unused, VOf
<1>5. CASE spec.type = "EVEX" /\ spec.vex.usage = "NOT_USED"
  <2>1. v = 31
    BY <1>1, <1>5 DEF Encoded, Fits
  <2> QED BY <1>1, <1>5, <2>1 DEF Unused, VOf
<1> QED BY <1>2, <1>3, <1>4, <1>5

VexAlike(spec, j, vex) == [vex EXCEPT !.v = VOf(spec, vex.v)] = [j.vex EXCEPT !.v = VOf(spec, j.vex.v)]

LEMMA VexWithV ==
  ASSUME NEW pfx, NEW map, NEW nb, NEW nr, NEW nx, NEW w, NEW v, NEW len, NEW suffix, NEW z, NEW bc, NEW aaa,
         NEW d, d = VexOf(pfx, map, nb, nr, nx, w, v, len, suffix, z, bc, aaa), NEW x
  PROVE  [d EXCEPT !.v = x] = VexOf(pfx, map, nb, nr, nx, w, x, len, suffix, z, bc, aaa)
BY DEF VexOf

LEMMA VexCanonical ==
  ASSUME NEW spec, NEW j, Encoded(spec, j), NEW vex, vex = [VexRead(spec, j) EXCEPT !.suffix = j.vex.suffix]
  PROVE  VexAlike(spec, j, vex)
<1>1. PICK d, u, x : /\ d = j.vex /\ u = Unused(spec, d.v) /\ x = VOf(spec, d.v)
                     /\ d \in VexOrEvexPrefix
  <2>1. j.vex \in VexOrEvexPrefix
    BY EncodedSpec, InstructionFields DEF Encoded
  <2> QED BY <2>1
<1>2. PICK pfx, map, nb, nr, nx, w, v, len, suffix, z, bc, aaa :
        d = VexOf(pfx, map, nb, nr, nx, w, v, len, suffix, z, bc, aaa)
  BY <1>1, VexIsItsFields
<1>3. d.suffix = suffix
  BY <1>2 DEF VexOf
<1>4. PICK read : read = VexRead(spec, j)
  OBVIOUS
<1>5. PICK none : none = 0
  OBVIOUS
<1>6. read = [d EXCEPT !.v = u, !.suffix = none]
  BY <1>1, <1>4, <1>5 DEF VexRead, Unused
<1>7. PICK a : a = [d EXCEPT !.v = u]
  OBVIOUS
<1>8. a = VexOf(pfx, map, nb, nr, nx, w, u, len, suffix, z, bc, aaa)
  BY <1>2, <1>7 DEF VexOf
<1>9. read = VexOf(pfx, map, nb, nr, nx, w, u, len, none, z, bc, aaa)
  <2>1. read = [a EXCEPT !.suffix = none]
    BY <1>6, <1>7, Zenon
  <2> QED BY <1>8, <2>1 DEF VexOf
<1>10. vex = VexOf(pfx, map, nb, nr, nx, w, u, len, suffix, z, bc, aaa)
  BY <1>1, <1>3, <1>4, <1>9 DEF VexOf
<1>11. vex.v = u
  BY <1>10 DEF VexOf
<1>12. VOf(spec, vex.v) = x
  BY <1>1, <1>11, UnusedAlike
<1>13. [vex EXCEPT !.v = x] = VexOf(pfx, map, nb, nr, nx, w, x, len, suffix, z, bc, aaa)
  <2>1. PICK g : g = vex
    OBVIOUS
  <2>2. g = VexOf(pfx, map, nb, nr, nx, w, u, len, suffix, z, bc, aaa)
    BY <1>10, <2>1
  <2>3. [g EXCEPT !.v = x] = VexOf(pfx, map, nb, nr, nx, w, x, len, suffix, z, bc, aaa)
    BY <2>2, VexWithV
  <2> QED BY <2>1, <2>3, Zenon
<1>14. [d EXCEPT !.v = x] = VexOf(pfx, map, nb, nr, nx, w, x, len, suffix, z, bc, aaa)
  BY <1>2, VexWithV
<1> QED BY <1>1, <1>12, <1>13, <1>14, Zenon DEF VexAlike

LEMMA OpcodeCanonical ==
  ASSUME NEW spec, NEW j, NEW i, i.op = OpcodeWritten(spec, j)
  PROVE  OpcodeWritten(spec, i) = OpcodeWritten(spec, j)
BY DEF OpcodeWritten

\* A displacement that was read is one of its width.
LEMMA ModRmCanonical ==
  ASSUME NEW spec, NEW j, Encoded(spec, j), NEW i, i.modrm = ModRmRead(j), i.sib = j.sib
  PROVE  ModRmRead(i) = ModRmRead(j)
<1>1. j \in DecodedInstruction
  BY EncodedSpec DEF Encoded
<1>2. CASE j.modrm = <<>>
  BY <1>2 DEF ModRmRead
<1>3. CASE j.modrm # <<>>
  <2>1. PICK m \in ModRm : m = j.modrm[1]
    <3>1. j.modrm \in AtMostOne(ModRm)
      BY <1>1 DEF DecodedInstruction
    <3> QED BY <1>3, <3>1, AtMostOneIs
  <2>2. PICK d : d = DispRead(j)
    OBVIOUS
  <2>3. PICK k : k = [m EXCEPT !.disp = d]
    OBVIOUS
  <2>4. i.modrm = <<k>>
    BY <1>3, <2>1, <2>2, <2>3 DEF ModRmRead
  <2>5. i.modrm # <<>> /\ i.modrm[1] = k
    BY <2>4
  <2>6. ModRmOf(i) = k /\ ModRmOf(j) = m /\ SibOf(i) = SibOf(j)
    BY <1>3, <2>1, <2>5 DEF ModRmOf, SibOf
  <2>7. m.mod \in 0..3 /\ m.disp \in Int /\ k.mod = m.mod /\ k.rm = m.rm /\ k.disp = d
    BY <2>3 DEF ModRm
  <2>8. PICK n : n = NumModRmDisplacementBytes(m, SibOf(j))
    OBVIOUS
  <2>9. NumModRmDisplacementBytes(k, SibOf(j)) = n
    BY <2>7, <2>8 DEF NumModRmDisplacementBytes
  <2>10. n \in {0, 1, 4}
    BY <2>7, <2>8 DEF NumModRmDisplacementBytes
  <2>11. d = CASE n = 0 -> 0 [] n = 1 -> SignedByte(m.disp % 256) [] n = 4 -> m.disp
    BY <2>2, <2>6, <2>8, Zenon DEF DispRead
  <2>12. DispRead(i) = CASE n = 0 -> 0 [] n = 1 -> SignedByte(d % 256) [] n = 4 -> d
    BY <2>6, <2>7, <2>8, <2>9, Zenon DEF DispRead
  <2>13. DispRead(i) = d
    <3>1. CASE n = 0
      BY <2>11, <2>12, <3>1
    <3>2. CASE n = 1
      <4>1. PICK b : b = SignedByte(m.disp % 256)
        OBVIOUS
      <4>2. SignedByte(b % 256) = b
        BY <2>7, <4>1, ByteReadBack, ZenonT(40)
      <4> QED BY <2>11, <2>12, <3>2, <4>1, <4>2
    <3>3. CASE n = 4
      BY <2>11, <2>12, <3>3
    <3> QED BY <2>10, <3>1, <3>2, <3>3
  <2>14. [k EXCEPT !.disp = d] = k
    BY <2>3
  <2> QED BY <2>4, <2>5, <2>13, <2>14 DEF ModRmRead
<1> QED BY <1>2, <1>3

LEMMA CanonicalAlike ==
  ASSUME NEW spec, NEW j, Encoded(spec, j), NEW i, i = WithSuffix(spec, j)
  PROVE  Canonical(spec, i) = Canonical(spec, j)
<1>1. j \in DecodedInstruction /\ j.kind = spec.type
  BY EncodedSpec DEF Encoded, Fits
<1>2. PICK leg, vex : leg = LegRead(j) /\ vex = [VexRead(spec, j) EXCEPT !.suffix = j.vex.suffix]
  OBVIOUS
<1>3. i = Decoded(spec.type, leg, vex, j.seg, j.addr, OpcodeWritten(spec, j), ModRmRead(j), j.sib, j.imm, j.code)
  BY <1>2, Zenon DEF WithSuffix
<1>4. i.op = OpcodeWritten(spec, j) /\ i.modrm = ModRmRead(j) /\ i.sib = j.sib
  BY <1>3, DecodedFields
<1>5. Canonical(spec, i) =
        Decoded(spec.type, [leg EXCEPT !.hasrex = FALSE], [vex EXCEPT !.v = VOf(spec, vex.v)], j.seg, j.addr,
                OpcodeWritten(spec, i), ModRmRead(i), j.sib, j.imm, j.code)
  BY <1>3, CanonicalIs
<1>6. Canonical(spec, j) =
        Decoded(j.kind, [j.leg EXCEPT !.hasrex = FALSE], [j.vex EXCEPT !.v = VOf(spec, j.vex.v)], j.seg, j.addr,
                OpcodeWritten(spec, j), ModRmRead(j), j.sib, j.imm, j.code)
  BY <1>1, ItsOwnFields, CanonicalIs
<1>7. [leg EXCEPT !.hasrex = FALSE] = [j.leg EXCEPT !.hasrex = FALSE]
  <2>1. j.leg \in LegacyPrefixes
    BY <1>1, InstructionFields
  <2> QED BY <1>2, <2>1, LegCanonical
<1>8. [vex EXCEPT !.v = VOf(spec, vex.v)] = [j.vex EXCEPT !.v = VOf(spec, j.vex.v)]
  <2>1. VexAlike(spec, j, vex)
    BY <1>2, VexCanonical
  <2> QED BY <2>1, Zenon DEF VexAlike
<1>9. OpcodeWritten(spec, i) = OpcodeWritten(spec, j) /\ ModRmRead(i) = ModRmRead(j)
  BY <1>4, OpcodeCanonical, ModRmCanonical
<1> QED BY <1>1, <1>5, <1>6, <1>7, <1>8, <1>9, Zenon

\* At every step of a call that parses an encoding of its own the parser has read the fields that
\* are behind it and has the bytes of the others in front of it, over any database.
THEOREM ReadInvariance == CodecSpec => []ReadInv
<1>1. CodecInit => ReadInv
  BY ReadInit
<1>2. ReadInv /\ ClientInv /\ ParserInv /\ [CodecNext]_vars => ReadInv'
  BY ReadNext
<1> QED BY <1>1, <1>2, ParserInvariance, PTL DEF CodecSpec

\* The fields of the instruction fit in their bits, and the lookups in the database found its
\* specification.
ReadBack == Fits(SpecOf, instr) /\ Recognizes(SpecOf, instr, specification, instruction)

LEMMA AtTheEnd ==
  ASSUME ReadInv, ClientInv, stage = "parse", phase = "done", ReadBack
  PROVE  ~cut /\ rest = Following /\ Canonical(SpecOf, instruction) = Canonical(SpecOf, instr)
<1>1. cut \in BOOLEAN /\ Validate(SpecOf, instr) /\ HasRead(SpecOf, instr, cut)
  BY DEF ReadInv, ReadBack
<1>2. AtEnd(SpecOf, instr, cut, rest, instruction)
  BY <1>1 DEF HasRead, ReadSoFar, ReadBack
<1>3. LeftOf(rest, cut, AfterIt(cut)) /\ instruction = WithSuffix(SpecOf, instr)
  BY <1>2 DEF AtEnd, WithSuffix
<1>4. Encoded(SpecOf, instr)
  BY <1>1, ClientEncoded DEF ReadBack
<1>5. ~cut
  <2> SUFFICES ASSUME cut PROVE FALSE
    OBVIOUS
  <2>1. LeftOf(rest, TRUE, <<>>)
    BY <1>1, <1>3 DEF AfterIt
  <2>2. Len(rest) < Len(<<>>) /\ rest \in Seq(Nat)
    <3>1. TRUE \in BOOLEAN
      OBVIOUS
    <3> QED BY <2>1, <3>1, LeftIsShorter
  <2> QED BY <2>2
<1>6. rest = Following
  <2>1. LeftOf(rest, FALSE, Following)
    BY <1>1, <1>3, <1>5 DEF AfterIt
  <2>2. FALSE \in BOOLEAN
    OBVIOUS
  <2> QED BY <2>1, <2>2, LeftIsShorter
<1> QED BY <1>3, <1>4, <1>5, <1>6, CanonicalAlike

\* ConsumeBinaryEncoding reads back what EncodeInstruction wrote, whatever the instruction, the
\* specification, the database and the bytes that follow: each prefix, the opcode, ModR/M, SIB,
\* displacement, immediate values and code offset, and not one byte more.
THEOREM EncodingsAreReadBack == CodecSpec => [](phase = "done" /\ ReadBack => RoundTrip)
<1>1. ReadInv /\ ClientInv => (phase = "done" /\ ReadBack => RoundTrip)
  BY AtTheEnd DEF RoundTrip, ReadBack, Recognizes
<1> QED BY <1>1, ReadInvariance, ParserInvariance, PTL

\* An encoding of which the end is missing is never read back as the instruction it was made of,
\* wherever it was cut.
THEOREM CutEncodingsAreRefused == CodecSpec => [](ReadBack => TruncatedIsRefused)
<1>1. ReadInv /\ ClientInv => (ReadBack => TruncatedIsRefused)
  <2> SUFFICES ASSUME ReadInv, ClientInv, ReadBack, cut, phase = "done" PROVE FALSE
    BY DEF TruncatedIsRefused
  <2>1. stage = "parse"
    BY DEF ReadInv, Parsing
  <2> QED BY <2>1, AtTheEnd
<1> QED BY <1>1, ReadInvariance, ParserInvariance, PTL

-----------------------------------------------------------------------------
(* What the database must be for the lookups to find the specification: a    *)
(* condition on the database and the instruction, of which the parser has    *)
(* seen nothing yet.                                                         *)

\* The first n bytes are an opcode that the loop over its bytes arrives at and finds.
OpcodeIn(spec, j, code, n) ==
  /\ \A m \in 1..(n - 1) : IsLegacyOpcodePrefix(OpcodeNumber(code, m))
  /\ GetEncodingSpecification(AfterPrefixes(spec, j, OpcodeNumber(code, n), <<>>, <<>>, <<>>, <<>>), FALSE) # 0
LongestOpcode(spec, j, code, l) ==
  /\ l = 1 \/ OpcodeIn(spec, j, code, l)
  /\ \A n \in (l + 1)..4 : n <= Len(code) => ~OpcodeIn(spec, j, code, n)
\* The specifications that the two lookups return.
ByOpcode(spec, j) ==
  GetEncodingSpecification(AfterPrefixes(spec, j, OpcodeWritten(spec, j), <<>>, <<>>, <<>>, <<>>), FALSE)
ByModRm(spec, j) == GetEncodingSpecification(ReadTo(spec, j, <<>>, <<>>), TRUE)

\* The opcode of the instruction is the longest that its bytes and those behind it begin with, or in
\* its map with VEX and EVEX, and each lookup returns the specification, or one that has a ModR/M
\* byte as well as it.
IsFound(spec, j) ==
  /\ spec.type = "legacy" => LongestOpcode(spec, j, FromOpcode(spec, j, Following), Len(EncodeOpcode(spec, j)))
  /\ spec.type # "legacy" => OpcodeWritten(spec, j) = 256 * MapOpcode[j.vex.map] + (OpcodeWritten(spec, j) % 256)
  /\ ByOpcode(spec, j) # 0
  /\ Database[ByOpcode(spec, j)].spec.modrm = "NO" <=> spec.modrm = "NO"
  /\ spec.modrm = "NO" => Database[ByOpcode(spec, j)].spec = spec
  /\ spec.modrm # "NO" => ByModRm(spec, j) # 0 /\ Database[ByModRm(spec, j)].spec = spec

\* A call that ends with it: no step fails, and each lookup returns what IsFound says.
FoundSoFar(spec, j, p, r, i, n) ==
  /\ p # "error"
  /\ p = "legacy" => r # <<>>
  /\ p = "modrm" => i.op = OpcodeWritten(spec, j) /\ n = ByOpcode(spec, j)
  /\ p \in {"imm", "code", "suffix", "done"} => Recognizes(spec, j, n, i)
HasFound(spec, j) == FoundSoFar(spec, j, phase, rest, instruction, specification)

\* All the bytes are there.
LEMMA AllLeft ==
  ASSUME NEW r, NEW t, LeftOf(r, FALSE, t)
  PROVE  r = t /\ r \in Seq(Nat)
<1>1. FALSE \in BOOLEAN
  OBVIOUS
<1> QED BY <1>1, LeftIsShorter

LEMMA LongerTail ==
  ASSUME NEW a \in Seq(Nat), NEW t \in Seq(Nat), t # <<>>
  PROVE  a \o t # <<>>
<1>1. PICK s : s = a \o t
  OBVIOUS
<1>2. s \in Seq(Nat) /\ Len(s) = Len(a) + Len(t)
  BY <1>1, Elements
<1>3. Len(a) \in Nat /\ Len(t) \in Nat /\ Len(t) # 0
  OBVIOUS
<1>4. Len(s) # 0
  BY <1>2, <1>3
<1>5. s # <<>>
  BY <1>4
<1> QED BY <1>1, <1>5

\* The opcode has one to three bytes.
LEMMA OpcodeLasts ==
  ASSUME NEW spec, NEW j, Encoded(spec, j)
  PROVE  /\ EncodeOpcode(spec, j) \in Seq(Nat) /\ EncodeOpcode(spec, j) # <<>> /\ Len(EncodeOpcode(spec, j)) \in 1..3
         /\ spec.type = "legacy" =>
              \A code : (\A k \in 1..Len(EncodeOpcode(spec, j)) : code[k] = EncodeOpcode(spec, j)[k]) =>
                OpcodeNumber(code, Len(EncodeOpcode(spec, j))) = OpcodeWritten(spec, j)
<1>1. IsEncoded(spec, j) /\ Fits(spec, j)
  BY DEF Encoded
<1>2. PICK s \in Seq(Nat) : s = EncodeOpcode(spec, j)
  BY <1>1, PartsType
<1>3. PICK op \in Nat : op = OpcodeWritten(spec, j) /\ TopOf(op) < 256
  BY <1>1, WrittenOpcode
<1>4. CASE spec.type # "legacy"
  <2>1. PICK low \in Nat : low = op % 256
    BY <1>3
  <2>2. s = <<low>>
    BY <1>1, <1>2, <1>3, <1>4, <2>1, WrittenOpcode
  <2>3. s # <<>> /\ Len(s) = 1 /\ 1 \in 1..3
    BY <2>2
  <2> QED BY <1>2, <1>4, <2>3
<1>5. CASE spec.type = "legacy"
  <2>1. s = OpcodeFrom(op)
    BY <1>1, <1>2, <1>3, <1>5, WrittenOpcode
  <2>2. CASE OpcodeFrom(op) = <<op>> /\ op < 256
    <3>1. Len(s) = 1 /\ s # <<>> /\ s[1] = op /\ 1 \in 1..3
      BY <2>1, <2>2
    <3>2. ASSUME NEW code, \A k \in 1..Len(s) : code[k] = s[k] PROVE OpcodeNumber(code, Len(s)) = op
      <4>1. code[1] = op
        BY <3>1, <3>2
      <4> QED BY <3>1, <4>1 DEF OpcodeNumber
    <3> QED BY <1>2, <1>3, <3>1, <3>2, Zenon
  <2>3. CASE \E b1, b2 \in Nat : OpcodeFrom(op) = <<b1, b2>> /\ b1 >= 1 /\ op = 256 * b1 + b2
    <3>1. PICK b1 \in Nat, b2 \in Nat : s = <<b1, b2>> /\ op = 256 * b1 + b2
      BY <2>1, <2>3
    <3>2. Len(s) = 2 /\ s # <<>> /\ s[1] = b1 /\ s[2] = b2 /\ 2 \in 1..3
      BY <3>1
    <3>3. ASSUME NEW code, \A k \in 1..Len(s) : code[k] = s[k] PROVE OpcodeNumber(code, Len(s)) = op
      <4>1. code[1] = b1 /\ code[2] = b2
        BY <3>2, <3>3
      <4> QED BY <3>1, <3>2, <4>1 DEF OpcodeNumber
    <3> QED BY <1>2, <1>3, <3>2, <3>3, Zenon
  <2>4. CASE \E b1, b2, b3 \in Nat :
               OpcodeFrom(op) = <<b1, b2, b3>> /\ b1 >= 1 /\ op = 256 * (256 * b1 + b2) + b3
    <3>1. PICK b1 \in Nat, b2 \in Nat, b3 \in Nat : s = <<b1, b2, b3>> /\ op = 256 * (256 * b1 + b2) + b3
      BY <2>1, <2>4
    <3>2. Len(s) = 3 /\ s # <<>> /\ s[1] = b1 /\ s[2] = b2 /\ s[3] = b3 /\ 3 \in 1..3
      BY <3>1
    <3>3. ASSUME NEW code, \A k \in 1..Len(s) : code[k] = s[k] PROVE OpcodeNumber(code, Len(s)) = op
      <4>1. code[1] = b1 /\ code[2] = b2 /\ code[3] = b3
        BY <3>2, <3>3
      <4> QED BY <3>1, <3>2, <4>1 DEF OpcodeNumber
    <3> QED BY <1>2, <1>3, <3>2, <3>3, Zenon
  <2> QED BY <1>3, <2>2, <2>3, <2>4, OpcodeFromIs
<1> QED BY <1>4, <1>5

\* Up to the opcode there is always a byte.
LEMMA SomethingLeft ==
  ASSUME NEW spec, NEW j, Encoded(spec, j), NEW after \in Seq(Nat)
  PROVE  /\ FromOpcode(spec, j, after) # <<>> /\ FromOperandSize(spec, j, after) # <<>>
         /\ FromLockOrRep(spec, j, after) # <<>> /\ FromRex(spec, j, after) # <<>>
         /\ FromPrefix(spec, j, after) # <<>> /\ FromAddress(spec, j, after) # <<>>
         /\ FromSegment(spec, j, after) # <<>>
<1>1. IsEncoded(spec, j) /\ Fits(spec, j) /\ spec.type \in {"legacy", "VEX", "EVEX"}
  BY EncodedSpec DEF Encoded
<1>2. /\ FromModRM(spec, j, after) \in Seq(Nat) /\ FromOpcode(spec, j, after) \in Seq(Nat)
      /\ FromOperandSize(spec, j, after) \in Seq(Nat) /\ FromLockOrRep(spec, j, after) \in Seq(Nat)
      /\ FromRex(spec, j, after) \in Seq(Nat) /\ FromPrefix(spec, j, after) \in Seq(Nat)
      /\ FromAddress(spec, j, after) \in Seq(Nat)
  BY <1>1, TailsType
<1>3. FromOpcode(spec, j, after) # <<>>
  <2>1. EncodeOpcode(spec, j) # <<>> /\ EncodeOpcode(spec, j) \in Seq(Nat)
    BY OpcodeLasts
  <2>2. PICK s \in Seq(Nat), t \in Seq(Nat) : s = EncodeOpcode(spec, j) /\ t = FromModRM(spec, j, after) /\ s # <<>>
    BY <1>2, <2>1
  <2>3. PICK c \in Seq(Nat) : c = s \o t
    BY Joined
  <2>4. c # <<>>
    <3>1. Len(c) = Len(s) + Len(t) /\ Len(s) \in Nat /\ Len(t) \in Nat /\ Len(s) # 0
      BY <2>2, <2>3, Elements
    <3>2. Len(c) # 0
      BY <3>1
    <3> QED BY <3>2
  <2> QED BY <2>2, <2>3, <2>4, Zenon DEF FromOpcode
<1>4. FromOperandSize(spec, j, after) # <<>>
  BY <1>1, <1>2, <1>3, PartsType, LongerTail DEF FromOperandSize
<1>5. FromLockOrRep(spec, j, after) # <<>>
  BY <1>1, <1>2, <1>4, PartsType, LongerTail DEF FromLockOrRep
<1>6. FromRex(spec, j, after) # <<>>
  BY <1>1, <1>2, <1>5, PartsType, LongerTail DEF FromRex
<1>7. FromPrefix(spec, j, after) # <<>>
  <2>1. CASE spec.type = "legacy"
    BY <1>6, <2>1 DEF FromPrefix
  <2>2. CASE spec.type = "VEX"
    <3>1. FromPrefix(spec, j, after) = EncodeVexPrefix(spec, j) \o FromOpcode(spec, j, after)
      BY <2>2 DEF FromPrefix
    <3>2. EncodeVexPrefix(spec, j) \in Seq(Nat)
      BY <1>1, <2>2, PartsType
    <3> QED BY <1>2, <1>3, <3>1, <3>2, LongerTail
  <2>3. CASE spec.type = "EVEX"
    <3>1. FromPrefix(spec, j, after) = EncodeEvexPrefix(spec, j) \o FromOpcode(spec, j, after)
      BY <2>3 DEF FromPrefix
    <3>2. EncodeEvexPrefix(spec, j) \in Seq(Nat)
      BY <1>1, <2>3, PartsType
    <3> QED BY <1>2, <1>3, <3>1, <3>2, LongerTail
  <2> QED BY <1>1, <2>1, <2>2, <2>3
<1>8. FromAddress(spec, j, after) # <<>>
  BY <1>1, <1>2, <1>7, PartsType, LongerTail DEF FromAddress
<1>9. FromSegment(spec, j, after) # <<>>
  BY <1>1, <1>2, <1>8, PartsType, LongerTail DEF FromSegment
<1> QED BY <1>3, <1>4, <1>5, <1>6, <1>7, <1>8, <1>9


-----------------------------------------------------------------------------
(* No step fails while the prefixes are read.                              *)

\* The two loops end with the legacy prefixes: no other prefix is behind them.
LEMMA LoopIsOver ==
  ASSUME NEW spec, NEW j, Encoded(spec, j), NEW missing, HasRead(spec, j, missing), rest # <<>>,
         rest[1] \in SegmentBytes \cup {AddressSizeOverrideByte}
  PROVE  phase # "legacy"
<1> SUFFICES ASSUME phase = "legacy" PROVE FALSE
  OBVIOUS
<1>1. spec.type = "legacy" /\ AtLegacy(spec, j, missing, rest, instruction)
  BY DEF HasRead, ReadSoFar
<1>2. FirstIsRex(rest) \/ FirstIsLock(rest) \/ FirstIsSize(rest) \/ FirstIsOpcode(rest)
  BY <1>1, LegacyNext, FirstOfLegacy DEF Encoded
<1> QED BY <1>2, FirstsDiffer

LEMMA NoFailEarly ==
  ASSUME NEW spec, NEW j, Encoded(spec, j), HasRead(spec, j, FALSE),
         ConsumeSegmentOverridePrefix \/ ConsumeAddressSizeOverridePrefix
  PROVE  FoundSoFar(spec, j, phase', rest', instruction', specification')
<1>1. phase \in {"prefixes", "legacy"} /\ rest # <<>> /\ rest[1] \in SegmentBytes \cup {AddressSizeOverrideByte}
  BY DEF ConsumeSegmentOverridePrefix, ConsumeAddressSizeOverridePrefix, NextIs
<1>2. phase' = phase
  BY DEF ConsumeSegmentOverridePrefix, ConsumeAddressSizeOverridePrefix, Consume
<1>3. phase = "prefixes"
  BY <1>1, LoopIsOver
<1> QED BY <1>2, <1>3 DEF FoundSoFar

LEMMA NoFailPrefixes ==
  ASSUME NEW spec, NEW j, Encoded(spec, j), HasRead(spec, j, FALSE), ConsumePrefixes
  PROVE  FoundSoFar(spec, j, phase', rest', instruction', specification')
<1>1. AtPrefixes(spec, j, FALSE, rest, instruction)
  BY DEF ConsumePrefixes, HasRead, ReadSoFar
<1>2. PICK s \in BOOLEAN, a \in BOOLEAN :
        LeftOf(rest, FALSE, IF a THEN FromPrefix(spec, j, AfterIt(FALSE))
                            ELSE IF s THEN FromAddress(spec, j, AfterIt(FALSE)) ELSE FromSegment(spec, j, AfterIt(FALSE)))
  BY <1>1 DEF AtPrefixes
<1>3. rest # <<>> /\ rest \in Seq(Nat)
  <2>1. PICK after \in Seq(Nat) : after = AfterIt(FALSE)
    BY AfterType
  <2>2. /\ FromPrefix(spec, j, after) # <<>> /\ FromAddress(spec, j, after) # <<>>
        /\ FromSegment(spec, j, after) # <<>>
    BY SomethingLeft
  <2>3. PICK t : /\ t = IF a THEN FromPrefix(spec, j, after)
                        ELSE IF s THEN FromAddress(spec, j, after) ELSE FromSegment(spec, j, after)
                 /\ LeftOf(rest, FALSE, t)
    BY <1>2, <2>1
  <2>4. t # <<>>
    BY <2>2, <2>3
  <2>5. rest = t /\ rest \in Seq(Nat)
    BY <2>3, AllLeft
  <2> QED BY <2>4, <2>5, Zenon
<1>4. PICK next : next \in {"vex", "evex", "legacy"} /\ Consume(0, instruction, next)
  BY DEF ConsumePrefixes
<1>5. rest' = rest /\ phase' = next
  BY <1>3, <1>4, ConsumesNone
<1> QED BY <1>3, <1>4, <1>5 DEF FoundSoFar

LEMMA NoFailVex ==
  ASSUME NEW spec, NEW j, Encoded(spec, j), HasRead(spec, j, FALSE), ConsumeVexPrefix
  PROVE  FoundSoFar(spec, j, phase', rest', instruction', specification')
<1>1. IsEncoded(spec, j) /\ Fits(spec, j) /\ phase = "vex"
  BY DEF Encoded, ConsumeVexPrefix
<1>2. spec.type = "VEX" /\ LeftOf(rest, FALSE, FromPrefix(spec, j, AfterIt(FALSE)))
  BY <1>1 DEF HasRead, ReadSoFar, AtVex
<1>3. PICK s \in Seq(Nat), t \in Seq(Nat) : s = EncodeVexPrefix(spec, j) /\ t = FromOpcode(spec, j, AfterIt(FALSE))
  BY <1>1, <1>2, PartsType, AfterType, TailsType
<1>4. rest = s \o t
  BY <1>2, <1>3, AllLeft DEF FromPrefix
<1>5. IsShortVexOf(s, VexRead(spec, j)) \/ IsLongVexOf(s, VexRead(spec, j))
  BY <1>1, <1>2, <1>3, VexReadBack
<1>6. (\E b \in Nat : s = <<197, b>>) \/ (\E b, c \in Nat : s = <<196, b, c>>)
  BY <1>5, Zenon DEF IsShortVexOf, IsLongVexOf
<1>7. Len(s) \in Nat /\ Len(t) \in Nat /\ 1 \in 1..Len(s) /\ Len(s) >= IF s[1] = 196 THEN 3 ELSE 2
  <2>1. ASSUME NEW b, s = <<197, b>> PROVE Len(s) = 2 /\ s[1] = 197
    BY <2>1
  <2>2. ASSUME NEW b, NEW c, s = <<196, b, c>> PROVE Len(s) = 3 /\ s[1] = 196
    BY <2>2
  <2>3. (Len(s) = 2 /\ s[1] = 197) \/ (Len(s) = 3 /\ s[1] = 196)
    BY <1>6, <2>1, <2>2, Zenon
  <2>4. CASE Len(s) = 2 /\ s[1] = 197
    <3>1. s[1] # 196 /\ 1 \in 1..2 /\ 2 >= 2
      BY <2>4
    <3> QED BY <2>4, <3>1
  <2>5. CASE Len(s) = 3 /\ s[1] = 196
    BY <2>5
  <2> QED BY <2>3, <2>4, <2>5
<1>8. Len(rest) = Len(s) + Len(t) /\ rest[1] = s[1]
  BY <1>4, <1>7, Elements
<1>9. ~(Len(rest) < (IF rest[1] = 196 THEN 3 ELSE 2))
  BY <1>7, <1>8
<1>10. phase' = "opcode"
  BY <1>9, Zenon DEF ConsumeVexPrefix, Consume
<1> QED BY <1>10 DEF FoundSoFar

LEMMA NoFailEvex ==
  ASSUME NEW spec, NEW j, Encoded(spec, j), HasRead(spec, j, FALSE), ConsumeEvexPrefix
  PROVE  FoundSoFar(spec, j, phase', rest', instruction', specification')
<1>1. IsEncoded(spec, j) /\ Fits(spec, j) /\ phase = "evex"
  BY DEF Encoded, ConsumeEvexPrefix
<1>2. spec.type = "EVEX" /\ LeftOf(rest, FALSE, FromPrefix(spec, j, AfterIt(FALSE)))
  BY <1>1 DEF HasRead, ReadSoFar, AtVex
<1>3. PICK s \in Seq(Nat), t \in Seq(Nat) : s = EncodeEvexPrefix(spec, j) /\ t = FromOpcode(spec, j, AfterIt(FALSE))
  BY <1>1, <1>2, PartsType, AfterType, TailsType
<1>4. rest = s \o t
  BY <1>2, <1>3, AllLeft DEF FromPrefix
<1>5. PICK b \in Nat, c \in Nat, d \in Nat : s = <<98, b, c, d>> /\ Bits(b, 2, 4) = 0 /\ Bit(c, 2) # 0
  BY <1>1, <1>2, <1>3, EvexReadBack DEF IsEvexOf
<1>6. Len(s) = 4 /\ s[2] = b /\ s[3] = c /\ 2 \in 1..Len(s) /\ 3 \in 1..Len(s) /\ Len(t) \in Nat
  BY <1>5
<1>7. Len(rest) = Len(s) + Len(t) /\ rest[2] = b /\ rest[3] = c
  BY <1>4, <1>6, Elements
<1>8. ~(Len(rest) < 4)
  BY <1>6, <1>7
<1>9. phase' = "opcode"
  BY <1>5, <1>7, <1>8, Zenon DEF ConsumeEvexPrefix, Consume
<1> QED BY <1>9 DEF FoundSoFar

LEMMA LegFields ==
  ASSUME NEW leg, NEW seg, NEW addr, NEW d, d = LegacyOnly(leg, seg, addr)
  PROVE  d.leg = leg
BY DEF LegacyOnly, PrefixesOnly, Decoded

LEMMA NoFailRex ==
  ASSUME NEW spec, NEW j, Encoded(spec, j), HasRead(spec, j, FALSE), ParseRexPrefix
  PROVE  FoundSoFar(spec, j, phase', rest', instruction', specification')
<1>1. phase = "legacy" /\ rest # <<>> /\ rest[1] \in 64..79
  BY DEF ParseRexPrefix, NextIs
<1>2. RexIsNext(spec, j, FALSE, rest, instruction) /\ j.leg.osz \in BOOLEAN
  BY <1>1, LegacyLoop, EncodedFields DEF Encoded
<1>3. instruction.leg.hasrex = FALSE
  <2>1. instruction = LegacyOnly(LegAfter(j, FALSE, FALSE, FALSE), j.seg, j.addr)
    BY <1>2, Zenon DEF RexIsNext, LegacySoFar, LegacyOnly
  <2>2. LegAfter(j, FALSE, FALSE, FALSE).hasrex = FALSE
    BY DEF LegAfter
  <2>3. instruction.leg = LegAfter(j, FALSE, FALSE, FALSE)
    <3>1. PICK leg, seg, addr : leg = LegAfter(j, FALSE, FALSE, FALSE) /\ seg = j.seg /\ addr = j.addr
      OBVIOUS
    <3>2. instruction = LegacyOnly(leg, seg, addr)
      BY <2>1, <3>1
    <3> QED BY <3>1, <3>2, LegFields
  <2> QED BY <2>2, <2>3, Zenon
<1>4. PICK i : Consume(1, i, "legacy")
  BY <1>3, Zenon DEF ParseRexPrefix
<1>5. rest' = SubSeq(rest, 2, Len(rest)) /\ phase' = "legacy"
  BY <1>4, ConsumesOne
<1>6. rest' = FromLockOrRep(spec, j, AfterIt(FALSE))
  BY <1>2, <1>5, AllLeft DEF RexIsNext, NextOf
<1>7. rest' # <<>>
  BY <1>6, AfterType, SomethingLeft
<1> QED BY <1>5, <1>7 DEF FoundSoFar

LEMMA NoFailLock ==
  ASSUME NEW spec, NEW j, Encoded(spec, j), HasRead(spec, j, FALSE), AddLockOrRepPrefix
  PROVE  FoundSoFar(spec, j, phase', rest', instruction', specification')
<1>1. phase = "legacy" /\ rest # <<>> /\ rest[1] \in DOMAIN LockOrRepOf
  BY DEF AddLockOrRepPrefix, NextIs
<1>2. LockIsNext(spec, j, FALSE, rest, instruction) /\ j.leg.osz \in BOOLEAN
  BY <1>1, LegacyLoop, EncodedFields DEF Encoded
<1>3. instruction.leg.lock = ""
  <2>1. instruction = LegacyOnly(LegAfter(j, TRUE, FALSE, FALSE), j.seg, j.addr)
    BY <1>2, Zenon DEF LockIsNext, LegacySoFar, LegacyOnly
  <2>2. LegAfter(j, TRUE, FALSE, FALSE).lock = ""
    BY DEF LegAfter
  <2>3. instruction.leg = LegAfter(j, TRUE, FALSE, FALSE)
    <3>1. PICK leg, seg, addr : leg = LegAfter(j, TRUE, FALSE, FALSE) /\ seg = j.seg /\ addr = j.addr
      OBVIOUS
    <3>2. instruction = LegacyOnly(leg, seg, addr)
      BY <2>1, <3>1
    <3> QED BY <3>1, <3>2, LegFields
  <2> QED BY <2>2, <2>3, Zenon
<1>4. PICK i : Consume(1, i, "legacy")
  BY <1>3, Zenon DEF AddLockOrRepPrefix
<1>5. rest' = SubSeq(rest, 2, Len(rest)) /\ phase' = "legacy"
  BY <1>4, ConsumesOne
<1>6. rest' = FromOperandSize(spec, j, AfterIt(FALSE))
  BY <1>2, <1>5, AllLeft DEF LockIsNext, NextOf
<1>7. rest' # <<>>
  BY <1>6, AfterType, SomethingLeft
<1> QED BY <1>5, <1>7 DEF FoundSoFar

LEMMA NoFailSize ==
  ASSUME NEW spec, NEW j, Encoded(spec, j), HasRead(spec, j, FALSE), AddOperandSizeOverridePrefix
  PROVE  FoundSoFar(spec, j, phase', rest', instruction', specification')
<1>1. phase = "legacy" /\ rest # <<>> /\ rest[1] = OperandSizeOverrideByte
  BY DEF AddOperandSizeOverridePrefix, NextIs
<1>2. SizeIsNext(spec, j, FALSE, rest, instruction)
  BY <1>1, LegacyLoop
<1>3. PICK i : Consume(1, i, "legacy")
  BY Zenon DEF AddOperandSizeOverridePrefix
<1>4. rest' = SubSeq(rest, 2, Len(rest)) /\ phase' = "legacy"
  BY <1>3, ConsumesOne
<1>5. rest' = FromOpcode(spec, j, AfterIt(FALSE))
  BY <1>2, <1>4, AllLeft DEF SizeIsNext, NextOf
<1>6. rest' # <<>>
  BY <1>5, AfterType, SomethingLeft
<1> QED BY <1>4, <1>6 DEF FoundSoFar

LEMMA NoFailEnd ==
  ASSUME NEW spec, NEW j, HasFound(spec, j), EndOfPrefixes
  PROVE  FoundSoFar(spec, j, phase', rest', instruction', specification')
<1>1. rest # <<>>
  BY DEF HasFound, FoundSoFar, EndOfPrefixes
<1>2. phase' = "opcode"
  BY <1>1, Zenon DEF EndOfPrefixes, Consume
<1> QED BY <1>2 DEF FoundSoFar

-----------------------------------------------------------------------------
(* Each lookup finds what IsFound says.                                    *)

\* The instruction when the opcode is read.
BeforeOpcode(spec, j) == AfterPrefixes(spec, j, 0, <<>>, <<>>, <<>>, <<>>)

LEMMA OpcodePut ==
  ASSUME NEW spec, NEW j, instruction = BeforeOpcode(spec, j), NEW op
  PROVE  [instruction EXCEPT !.op = op] = AfterPrefixes(spec, j, op, <<>>, <<>>, <<>>, <<>>)
<1>1. instruction.op = 0
  BY DEF BeforeOpcode, AfterPrefixes, Decoded
<1>2. OnlyOpcode(spec, j, instruction)
  BY <1>1, Zenon DEF OnlyOpcode, BeforeOpcode
<1>3. OnlyOpcode(spec, j, [instruction EXCEPT !.op = op]) /\ [instruction EXCEPT !.op = op].op = op
  BY <1>2, OpcodeSet
<1> QED BY <1>3, Zenon DEF OnlyOpcode

\* The loop over the bytes of an opcode tests what OpcodeIn says of them.
LEMMA LoopTests ==
  ASSUME NEW spec, NEW j, instruction = BeforeOpcode(spec, j), rest \in Seq(Nat), NEW n \in 1..4, n <= Len(rest)
  PROVE  Reached(n) /\ Found(n) <=> OpcodeIn(spec, j, rest, n)
<1>1. \A m \in 1..n : LegacyOpcode(m) = OpcodeNumber(rest, m)
  <2>1. ASSUME NEW m \in 1..n PROVE LegacyOpcode(m) = OpcodeNumber(rest, m)
    <3>1. m \in 1..4 /\ m <= Len(rest)
      BY <2>1
    <3> QED BY <3>1, LegacyOpcodeIs
  <2> QED BY <2>1
<1>2. Reached(n) <=> \A m \in 1..(n - 1) : IsLegacyOpcodePrefix(OpcodeNumber(rest, m))
  <2>1. 1..(n - 1) \subseteq 1..n
    OBVIOUS
  <2> QED BY <1>1, <2>1, Zenon DEF Reached
<1>3. Found(n) <=> GetEncodingSpecification(AfterPrefixes(spec, j, OpcodeNumber(rest, n), <<>>, <<>>, <<>>, <<>>), FALSE) # 0
  <2>1. n \in 1..n
    OBVIOUS
  <2>2. [instruction EXCEPT !.op = LegacyOpcode(n)] = AfterPrefixes(spec, j, OpcodeNumber(rest, n), <<>>, <<>>, <<>>, <<>>)
    <3>1. PICK op : op = LegacyOpcode(n)
      OBVIOUS
    <3>2. [instruction EXCEPT !.op = op] = AfterPrefixes(spec, j, op, <<>>, <<>>, <<>>, <<>>)
      BY OpcodePut
    <3> QED BY <1>1, <2>1, <3>1, <3>2, Zenon
  <2> QED BY <2>2, Zenon DEF Found
<1> QED BY <1>2, <1>3, Zenon DEF OpcodeIn

LEMMA LongestIsFound ==
  ASSUME NEW spec, NEW j, instruction = BeforeOpcode(spec, j), instruction.kind = "legacy", rest \in Seq(Nat),
         NEW l \in 1..3, l <= Len(rest), LongestOpcode(spec, j, rest, l)
  PROVE  OpcodeLength = l
<1>1. PICK last \in 1..4 : last = Min({Len(rest), MaxOpcodeBytes}) /\ \A n \in 1..4 : n <= last <=> n <= Len(rest)
  <2> DEFINE S == {Len(rest), MaxOpcodeBytes}
  <2>1. S \in SUBSET Nat /\ S # {} /\ Len(rest) \in S /\ 4 \in S /\ \A x \in S : x = Len(rest) \/ x = 4
    BY DEF MaxOpcodeBytes
  <2>2. Min(S) \in S /\ \A x \in S : Min(S) <= x
    <3> HIDE DEF S
    <3> QED BY <2>1, LeastExists DEF Min
  <2>3. PICK m \in Nat : m = Min(S) /\ m <= Len(rest) /\ m <= 4 /\ (m = Len(rest) \/ m = 4)
    <3> HIDE DEF S
    <3> QED BY <2>1, <2>2
  <2>4. m \in 1..4 /\ \A n \in 1..4 : n <= m <=> n <= Len(rest)
    <3>1. Len(rest) \in Nat
      OBVIOUS
    <3> HIDE DEF S
    <3> QED BY <2>3, <3>1
  <2> QED BY <2>3, <2>4 DEF S
<1>2. \A n \in 2..4 : n \in OpcodesFound(2) <=> n <= Len(rest) /\ OpcodeIn(spec, j, rest, n)
  <2>1. ASSUME NEW n \in 2..4 PROVE n \in OpcodesFound(2) <=> n <= Len(rest) /\ OpcodeIn(spec, j, rest, n)
    <3>1. n \in 1..4 /\ (n <= last <=> n <= Len(rest))
      BY <1>1, <2>1
    <3>2. n <= Len(rest) => (Reached(n) /\ Found(n) <=> OpcodeIn(spec, j, rest, n))
      BY <3>1, LoopTests
    <3>3. n \in OpcodesFound(2) <=> n \in 2..last /\ Reached(n) /\ Found(n)
      BY <1>1 DEF OpcodesFound
    <3>4. n \in 2..last <=> n <= last
      BY <1>1, <2>1
    <3> QED BY <3>1, <3>2, <3>3, <3>4, Zenon
  <2> QED BY <2>1
<1>3. \A n \in OpcodesFound(2) : n \in 2..4
  <2>1. \A n \in OpcodesFound(2) : n \in 2..last
    BY <1>1 DEF OpcodesFound
  <2>2. ASSUME NEW n \in 2..last PROVE n \in 2..4
    BY <1>1
  <2> QED BY <2>1, <2>2, Zenon
<1>4. PICK S \in SUBSET (0..4) : S = OpcodesFound(2) \cup {1}
  <2>1. OpcodesFound(2) \cup {1} \in SUBSET (0..4)
    BY <1>3
  <2> QED BY <2>1
<1>5. l \in S
  <2>1. CASE l = 1
    BY <1>4, <2>1
  <2>2. CASE l # 1
    <3>1. l \in 2..4 /\ OpcodeIn(spec, j, rest, l)
      BY <2>2 DEF LongestOpcode
    <3> QED BY <1>2, <1>4, <3>1
  <2> QED BY <2>1, <2>2
<1>6. \A n \in S : n <= l
  <2>1. SUFFICES ASSUME NEW n \in S, n > l PROVE FALSE
    BY <1>4
  <2>2. n \in OpcodesFound(2) /\ n \in 2..4 /\ n \in (l + 1)..4
    BY <1>3, <1>4, <2>1
  <2>3. n <= Len(rest) /\ OpcodeIn(spec, j, rest, n)
    BY <1>2, <2>2
  <2> QED BY <2>2, <2>3 DEF LongestOpcode
<1>7. Max(S) \in S /\ \A y \in S : Max(S) >= y
  BY <1>4, <1>5, MaxOfFew
<1>8. Max(S) = l
  <2>1. PICK m \in 0..4 : m = Max(S) /\ m <= l /\ m >= l
    BY <1>5, <1>6, <1>7
  <2> QED BY <2>1
<1> QED BY <1>4, <1>8, Zenon DEF OpcodeLength

\* The number ConsumeOpcode computes, and that it is the opcode the encoder wrote.
Consumed(op) == op = IF instruction.kind = "legacy" THEN LegacyOpcode(OpcodeLength)
                     ELSE 256 * MapOpcode[instruction.vex.map] + rest[1]
IsTheOpcode(spec, j, op) ==
  op = OpcodeWritten(spec, j) /\ (spec.type # "legacy" => instruction.vex.map \in DOMAIN MapSelectBits)

\* The whole opcode is read as the opcode that was written.
LEMMA OpcodeIsWritten ==
  ASSUME NEW spec, NEW j, Encoded(spec, j), IsFound(spec, j), instruction = BeforeOpcode(spec, j), rest \in Seq(Nat),
         Len(EncodeOpcode(spec, j)) <= Len(rest),
         \A k \in 1..Len(EncodeOpcode(spec, j)) : rest[k] = EncodeOpcode(spec, j)[k],
         spec.type = "legacy" => LongestOpcode(spec, j, rest, Len(EncodeOpcode(spec, j))),
         NEW op, Consumed(op)
  PROVE  IsTheOpcode(spec, j, op)
<1> USE DEF Consumed, IsTheOpcode
<1>1. IsEncoded(spec, j) /\ Fits(spec, j) /\ spec.type \in {"legacy", "VEX", "EVEX"}
  BY EncodedSpec DEF Encoded
<1>2. instruction.kind = spec.type /\ instruction.vex = VexRead(spec, j)
  BY DEF BeforeOpcode, AfterPrefixes, Decoded
<1>3. CASE spec.type = "legacy"
  <2>1. PICK l \in 1..3 : l = Len(EncodeOpcode(spec, j)) /\ l <= Len(rest) /\ LongestOpcode(spec, j, rest, l)
    BY <1>3, OpcodeLasts
  <2>2. OpcodeLength = l
    BY <1>2, <1>3, <2>1, LongestIsFound
  <2>3. LegacyOpcode(l) = OpcodeNumber(rest, l)
    <3>1. l \in 1..4
      OBVIOUS
    <3> QED BY <2>1, <3>1, LegacyOpcodeIs
  <2>4. OpcodeNumber(rest, l) = OpcodeWritten(spec, j)
    BY <1>3, <2>1, OpcodeLasts
  <2> QED BY <1>2, <1>3, <2>2, <2>3, <2>4, Zenon
<1>4. CASE spec.type # "legacy"
  <2>1. j.vex \in VexOrEvexPrefix /\ j.vex.map \in Maps
    BY <1>1, <1>4, ValidVex
  <2>2. instruction.vex.map = j.vex.map
    <3>1. PICK v, vex : v = OperandRead(spec, j.vex.v) /\ vex = j.vex
      OBVIOUS
    <3>2. instruction.vex = VexWithOperand(vex, v)
      BY <1>2, <2>1, <3>1, VexReadIs
    <3>3. VexWithOperand(vex, v).map = vex.map
      BY DEF VexWithOperand, VexOf
    <3> QED BY <3>1, <3>2, <3>3, Zenon
  <2>3. rest[1] = OpcodeWritten(spec, j) % 256
    <3>1. EncodeOpcode(spec, j) = <<OpcodeWritten(spec, j) % 256>>
      BY <1>1, <1>4, WrittenOpcode
    <3>2. PICK low : low = OpcodeWritten(spec, j) % 256
      OBVIOUS
    <3>3. 1 \in 1..Len(<<low>>) /\ <<low>>[1] = low
      OBVIOUS
    <3> QED BY <3>1, <3>2, <3>3, Zenon
  <2>4. OpcodeWritten(spec, j) = 256 * MapOpcode[j.vex.map] + (OpcodeWritten(spec, j) % 256)
    BY <1>4, Zenon DEF IsFound
  <2>5. op = 256 * MapOpcode[j.vex.map] + (OpcodeWritten(spec, j) % 256)
    BY <1>2, <1>4, <2>2, <2>3, Zenon
  <2>6. j.vex.map \in DOMAIN MapSelectBits
    BY <2>1 DEF MapSelectBits, Maps
  <2> QED BY <2>2, <2>4, <2>5, <2>6, Zenon
<1> QED BY <1>3, <1>4

LEMMA NoFailOpcode ==
  ASSUME NEW spec, NEW j, Encoded(spec, j), IsFound(spec, j), HasRead(spec, j, FALSE), ConsumeOpcode
  PROVE  FoundSoFar(spec, j, phase', rest', instruction', specification')
<1>1. IsEncoded(spec, j) /\ Fits(spec, j) /\ spec.type \in {"legacy", "VEX", "EVEX"}
  BY EncodedSpec DEF Encoded
<1>2. instruction = BeforeOpcode(spec, j) /\ LeftOf(rest, FALSE, FromOpcode(spec, j, AfterIt(FALSE)))
  BY Zenon DEF ConsumeOpcode, HasRead, ReadSoFar, AtOpcode, PrefixesOnly, BeforeOpcode, AfterPrefixes
<1>3. rest = FromOpcode(spec, j, Following) /\ rest \in Seq(Nat) /\ rest # <<>>
  <2>1. AfterIt(FALSE) = Following /\ Following \in Seq(Nat)
    BY AfterType DEF AfterIt
  <2>2. rest = FromOpcode(spec, j, Following) /\ rest \in Seq(Nat)
    BY <1>2, <2>1, AllLeft
  <2> QED BY <2>1, <2>2, SomethingLeft
<1>4. PICK s \in Seq(Nat), t \in Seq(Nat) : /\ s = EncodeOpcode(spec, j) /\ t = FromModRM(spec, j, Following)
                                            /\ Len(s) \in 1..3
  <2>1. Following \in Seq(Nat)
    BY AfterType DEF AfterIt
  <2> QED BY <1>1, <2>1, OpcodeLasts, TailsType
<1>5. rest = s \o t
  BY <1>3, <1>4, Zenon DEF FromOpcode
<1>6. /\ Len(s) <= Len(rest) /\ \A k \in 1..Len(s) : rest[k] = s[k]
  <2>1. Len(rest) = Len(s) + Len(t) /\ Len(s) \in Nat /\ Len(t) \in Nat
    BY <1>5, Elements
  <2> QED BY <1>5, <2>1, Elements
<1>7. spec.type = "legacy" => LongestOpcode(spec, j, rest, Len(s))
  BY <1>3, <1>4 DEF IsFound
<1>8. PICK op : op = IF instruction.kind = "legacy" THEN LegacyOpcode(OpcodeLength)
                     ELSE 256 * MapOpcode[instruction.vex.map] + rest[1]
  OBVIOUS
<1>9. op = OpcodeWritten(spec, j) /\ (spec.type # "legacy" => instruction.vex.map \in DOMAIN MapSelectBits)
  <2>1. /\ Len(EncodeOpcode(spec, j)) <= Len(rest)
        /\ \A k \in 1..Len(EncodeOpcode(spec, j)) : rest[k] = EncodeOpcode(spec, j)[k]
        /\ spec.type = "legacy" => LongestOpcode(spec, j, rest, Len(EncodeOpcode(spec, j)))
    BY <1>4, <1>6, <1>7, Zenon
  <2>2. instruction = BeforeOpcode(spec, j) /\ rest \in Seq(Nat)
    BY <1>2, <1>3, Zenon
  <2>3. IsTheOpcode(spec, j, op)
    <3>1. Consumed(op)
      BY <1>8 DEF Consumed
    <3> QED BY <2>1, <2>2, <3>1, OpcodeIsWritten, Zenon
  <2> QED BY <2>3, Zenon DEF IsTheOpcode
<1>10. PICK i : i = [instruction EXCEPT !.op = op] /\ i = AfterPrefixes(spec, j, op, <<>>, <<>>, <<>>, <<>>) /\ i.op = op
  <2>1. [instruction EXCEPT !.op = op] = AfterPrefixes(spec, j, op, <<>>, <<>>, <<>>, <<>>)
    BY <1>2, OpcodePut
  <2>2. PICK i : i = AfterPrefixes(spec, j, op, <<>>, <<>>, <<>>, <<>>)
    OBVIOUS
  <2>3. i.op = op
    BY <2>2 DEF AfterPrefixes, Decoded
  <2> QED BY <2>1, <2>2, <2>3, Zenon
<1>11. GetEncodingSpecification(i, FALSE) = ByOpcode(spec, j) /\ ByOpcode(spec, j) # 0
  <2>1. ByOpcode(spec, j) # 0
    BY DEF IsFound
  <2> QED BY <1>9, <1>10, <2>1, Zenon DEF ByOpcode
<1>12. ~(instruction.kind # "legacy" /\ instruction.vex.map \notin DOMAIN MapSelectBits)
  <2>1. instruction.kind = spec.type
    BY <1>2 DEF BeforeOpcode, AfterPrefixes, Decoded
  <2> QED BY <1>9, <2>1
<1>13. specification' = ByOpcode(spec, j) /\ instruction' = i /\ phase' = "modrm"
  <2>1. PICK length : /\ length = OpcodeLength
                      /\ \E x \in {[instruction EXCEPT !.op = IF instruction.kind = "legacy" THEN LegacyOpcode(length)
                                                              ELSE 256 * MapOpcode[instruction.vex.map] + rest[1]]} :
                         \E n \in {GetEncodingSpecification(x, FALSE)} :
                           IF n = 0 THEN Fail
                           ELSE /\ specification' = n
                                /\ instruction' = x
                                /\ rest' = SubSeq(rest, length + 1, Len(rest))
                                /\ phase' = "modrm"
    BY <1>3, <1>12, Zenon DEF ConsumeOpcode
  <2>2. op = IF instruction.kind = "legacy" THEN LegacyOpcode(length)
             ELSE 256 * MapOpcode[instruction.vex.map] + rest[1]
    BY <1>8, <2>1, Zenon
  <2>3. PICK x : /\ x = [instruction EXCEPT !.op = op]
                 /\ \E n \in {GetEncodingSpecification(x, FALSE)} :
                      IF n = 0 THEN Fail
                      ELSE /\ specification' = n
                           /\ instruction' = x
                           /\ rest' = SubSeq(rest, length + 1, Len(rest))
                           /\ phase' = "modrm"
    BY <2>1, <2>2, Zenon
  <2> QED BY <1>10, <1>11, <2>3, Zenon
<1> QED BY <1>9, <1>10, <1>13, Zenon DEF FoundSoFar

\* With all the bytes there, the ModR/M byte and what it says follows is there.
SibReadFrom(r, read)            == IF read = 2 THEN <<ParseSib(r[2])>> ELSE <<>>
CountReadFrom(r, read, modrm)   == NumModRmDisplacementBytes(modrm, IF read = 2 THEN SibReadFrom(r, read)[1] ELSE DefaultSib)
IsThere(r, modrm, read) == r # <<>> /\ ~(Len(r) < read) /\ ~(Len(r) < read + CountReadFrom(r, read, modrm))

LEMMA ModRmIsThere ==
  ASSUME NEW spec, NEW j, Encoded(spec, j), spec.modrm # "NO", NEW r, r = FromModRM(spec, j, Following),
         NEW modrm, modrm = ParseModRm(r[1]), NEW read, read = IF ModRmRequiresSib(modrm) THEN 2 ELSE 1
  PROVE  IsThere(r, modrm, read)
<1>1. PICK m, s, byte, second :
        /\ m = ModRmOf(j) /\ s = SibOf(j)
        /\ byte = Compose233BitValues(m.mod, m.reg, m.rm) /\ second = Compose233BitValues(s.scale, s.index, s.base)
  OBVIOUS
<1>2. /\ byte \in Nat /\ ParseModRm(byte) = [m EXCEPT !.disp = 0]
      /\ second \in Nat /\ (j.sib # <<>> => ParseSib(second) = s)
      /\ m.disp \in Int /\ NumOf(j) \in {0, 1, 4} /\ (NumOf(j) = 4 => IsDWord(m.disp))
  BY <1>1, HeadWritten
<1>3. PICK num \in {0, 1, 4} : num = NumOf(j)
  BY <1>2
<1>4. PICK d \in Seq(Nat) : d = DispBytes(m.disp, num) /\ Len(d) = num
  BY <1>2, <1>3, DispReadBack
<1>5. PICK h \in Seq(Nat) : h = HeadOf(j) /\ h[1] = byte
                            /\ (ModRmRequiresSib(m) => Len(h) = 2 /\ h[2] = second)
                            /\ (~ModRmRequiresSib(m) => Len(h) = 1)
  BY <1>1, <1>2, HeadIs
<1>6. PICK t \in Seq(Nat) : t = FromImmediates(spec, j, Following)
  <2>1. Following \in Seq(Nat)
    BY AfterType DEF AfterIt
  <2> QED BY <2>1, TailsType DEF Encoded
<1>7. /\ EncodeModRM(spec, j) = h \o d
      /\ j.sib = IF ModRmRequiresSib(m) THEN <<s>> ELSE <<>>
      /\ s = IF ModRmRequiresSib(m) THEN s ELSE DefaultSib
  BY <1>1, <1>3, <1>4, <1>5, ModRmWritten, Zenon
<1>8. r = (h \o d) \o t
  BY <1>6, <1>7, Zenon DEF FromModRM
<1>9. PICK a \in Seq(Nat) : a = h \o d /\ Len(a) = Len(h) + num /\ \A k \in 1..Len(h) : a[k] = h[k]
  <2>1. h \o d \in Seq(Nat) /\ Len(h \o d) = Len(h) + Len(d) /\ \A k \in 1..Len(h) : (h \o d)[k] = h[k]
    BY Elements
  <2> QED BY <1>4, <2>1
<1>10. PICK lh \in {1, 2}, lt \in Nat : /\ lh = Len(h) /\ Len(r) = lh + num + lt
                                        /\ \A k \in 1..lh : r[k] = h[k]
  <2>1. PICK lh \in {1, 2}, lt \in Nat, la \in Nat : lh = Len(h) /\ lt = Len(t) /\ la = Len(a) /\ la = lh + num
    <3>1. Len(h) \in {1, 2} /\ Len(t) \in Nat /\ Len(a) \in Nat
      BY <1>5
    <3> QED BY <1>9, <3>1
  <2>2. Len(a \o t) = la + lt /\ \A k \in 1..la : (a \o t)[k] = a[k]
    <3>1. Len(a \o t) = Len(a) + Len(t) /\ \A k \in 1..Len(a) : (a \o t)[k] = a[k]
      BY Elements
    <3> QED BY <2>1, <3>1
  <2>3. \A k \in 1..lh : k \in 1..la
    BY <2>1
  <2>4. r = a \o t
    BY <1>8, <1>9, Zenon
  <2>5. Len(r) = lh + num + lt
    BY <2>1, <2>2, <2>4
  <2>6. \A k \in 1..lh : r[k] = h[k]
    BY <1>9, <2>1, <2>2, <2>3, <2>4, Zenon
  <2> QED BY <2>1, <2>5, <2>6
<1>11. r[1] = byte
  <2>1. 1 \in 1..lh
    OBVIOUS
  <2> QED BY <1>5, <1>10, <2>1
<1>12. modrm = [m EXCEPT !.disp = 0]
  BY <1>2, <1>11
<1>13. m \in ModRm
  BY <1>1, EncodedSpec, ModRmOfType DEF Encoded
<1>14. modrm.mod = m.mod /\ modrm.rm = m.rm
  BY <1>12, <1>13 DEF ModRm
<1>15. (ModRmRequiresSib(modrm) <=> ModRmRequiresSib(m)) /\ NumModRmDisplacementBytes(modrm, s) = num
  <2>1. ModRmRequiresSib(modrm) <=> ModRmRequiresSib(m)
    BY <1>14, Zenon DEF ModRmRequiresSib
  <2>2. NumModRmDisplacementBytes(modrm, s) = NumModRmDisplacementBytes(m, s)
    BY <1>14, Zenon DEF NumModRmDisplacementBytes
  <2> QED BY <1>1, <1>3, <2>1, <2>2, Zenon DEF NumOf
<1>16. read = lh /\ CountReadFrom(r, read, modrm) = num
  <2>1. CASE ModRmRequiresSib(m)
    <3>1. read = 2 /\ lh = 2
      BY <1>5, <1>10, <1>15, <2>1
    <3>2. r[2] = second
      <4>1. 2 \in 1..lh
        BY <3>1
      <4> QED BY <1>5, <1>10, <2>1, <4>1
    <3>3. j.sib = <<s>>
      BY <1>7, <2>1
    <3>4. j.sib # <<>>
      BY <3>3
    <3>5. SibReadFrom(r, read) = <<s>>
      BY <1>2, <3>1, <3>2, <3>4, Zenon DEF SibReadFrom
    <3>6. SibReadFrom(r, read)[1] = s
      BY <3>5
    <3>7. CountReadFrom(r, read, modrm) = NumModRmDisplacementBytes(modrm, s)
      BY <3>1, <3>6, Zenon DEF CountReadFrom
    <3> QED BY <1>15, <3>1, <3>7
  <2>2. CASE ~ModRmRequiresSib(m)
    <3>1. read = 1 /\ lh = 1 /\ read # 2
      BY <1>5, <1>10, <1>15, <2>2
    <3>2. s = DefaultSib
      BY <1>7, <2>2, Zenon
    <3>3. CountReadFrom(r, read, modrm) = NumModRmDisplacementBytes(modrm, DefaultSib)
      BY <3>1, Zenon DEF CountReadFrom
    <3> QED BY <1>15, <3>1, <3>2, <3>3
  <2> QED BY <2>1, <2>2
<1>17. r # <<>>
  <2>1. Len(r) # 0
    BY <1>10
  <2> QED BY <2>1
<1>18. ~(Len(r) < read) /\ ~(Len(r) < read + CountReadFrom(r, read, modrm))
  BY <1>10, <1>16
<1> QED BY <1>17, <1>18 DEF IsThere

LEMMA NoFailModRm ==
  ASSUME NEW spec, NEW j, Encoded(spec, j), IsFound(spec, j), HasRead(spec, j, FALSE), HasFound(spec, j),
         ConsumeModRmAndSIBIfNeeded
  PROVE  FoundSoFar(spec, j, phase', rest', instruction', specification')
<1>1. /\ phase = "modrm" /\ AtModRM(spec, j, FALSE, rest, instruction)
      /\ instruction.op = OpcodeWritten(spec, j) /\ specification = ByOpcode(spec, j)
  BY DEF ConsumeModRmAndSIBIfNeeded, HasRead, ReadSoFar, HasFound, FoundSoFar
<1>2. OnlyOpcode(spec, j, instruction)
  BY <1>1, Zenon DEF AtModRM, OnlyOpcode
<1>3. Database[specification].spec.modrm = "NO" <=> spec.modrm = "NO"
  BY <1>1, Zenon DEF IsFound
<1>4. CASE spec.modrm = "NO"
  <2>1. Consume(0, instruction, "imm")
    BY <1>3, <1>4, Zenon DEF ConsumeModRmAndSIBIfNeeded
  <2>2. instruction' = instruction /\ phase' = "imm" /\ specification' = specification
    BY <2>1, Zenon DEF Consume
  <2>3. Database[specification].spec = spec
    BY <1>1, <1>4, Zenon DEF IsFound
  <2>4. instruction.modrm = <<>>
    <3>1. instruction = AfterPrefixes(spec, j, instruction.op, <<>>, <<>>, <<>>, <<>>)
      BY <1>2 DEF OnlyOpcode
    <3> QED BY <3>1 DEF AfterPrefixes, Decoded
  <2> QED BY <1>1, <2>2, <2>3, <2>4 DEF FoundSoFar, Recognizes
<1>5. CASE spec.modrm # "NO"
  <2>1. LeftOf(rest, FALSE, FromModRM(spec, j, AfterIt(FALSE)))
    BY <1>1 DEF AtModRM
  <2>2. rest = FromModRM(spec, j, Following)
    BY <2>1, AllLeft DEF AfterIt
  <2>3. PICK modrm, read : modrm = ParseModRm(rest[1]) /\ read = IF ModRmRequiresSib(modrm) THEN 2 ELSE 1
    OBVIOUS
  <2>4. IsThere(rest, modrm, read)
    BY <1>5, <2>2, <2>3, ModRmIsThere
  <2>5. PICK sib, count : sib = SibReadFrom(rest, read) /\ count = CountReadFrom(rest, read, modrm)
    OBVIOUS
  <2>6. /\ sib = IF read = 2 THEN <<ParseSib(rest[2])>> ELSE <<>>
        /\ count = NumModRmDisplacementBytes(modrm, IF read = 2 THEN sib[1] ELSE DefaultSib)
        /\ rest # <<>> /\ ~(Len(rest) < read) /\ ~(Len(rest) < read + count)
    BY <2>4, <2>5, Zenon DEF IsThere, SibReadFrom, CountReadFrom
  <2>7. PICK disp, one : disp = Displacement(SubSeq(rest, read + 1, read + count)) /\ one = <<[modrm EXCEPT !.disp = disp]>>
    OBVIOUS
  <2>8. TakesModRm(rest, modrm, read, sib, count, disp)
    BY <2>3, <2>6, <2>7, Zenon DEF TakesModRm
  <2>9. TookModRm(spec, j, FALSE, rest, modrm, read, sib, count, disp)
    BY <1>5, <2>1, <2>6, <2>8, ModRmReadBack
  <2>10. sib = j.sib /\ one = ModRmRead(j)
    BY <2>7, <2>9, Zenon DEF TookModRm
  <2>11. PICK i : i = [instruction EXCEPT !.sib = sib, !.modrm = one] /\ i = ReadTo(spec, j, <<>>, <<>>) /\ i.op = instruction.op
    <3>1. ModRmSet(spec, j, instruction, sib, one)
      BY <1>2, ModRmIsSet
    <3> QED BY <1>1, <2>10, <3>1, Zenon DEF ModRmSet, ReadTo
  <2>12. GetEncodingSpecification(i, TRUE) = ByModRm(spec, j) /\ ByModRm(spec, j) # 0 /\ Database[ByModRm(spec, j)].spec = spec
    BY <1>5, <2>11, Zenon DEF ByModRm, IsFound
  <2>13. \E x \in {ParseModRm(rest[1])} : \E y \in {IF ModRmRequiresSib(x) THEN 2 ELSE 1} : ReadsSib(x, y)
    BY <1>3, <1>5, <2>6, Zenon DEF ConsumeModRmAndSIBIfNeeded, ReadsSib, ReadsDisplacement, LooksUp
  <2>14. ReadsSib(modrm, read)
    BY <2>3, <2>13, Zenon
  <2>15. ReadsDisplacement(modrm, sib, read, count)
    BY <2>6, <2>14, Zenon DEF ReadsSib
  <2>16. LooksUp(i, read + count + 1)
    <3>1. PICK x : /\ \E y \in {[instruction EXCEPT !.sib = sib, !.modrm = <<[modrm EXCEPT !.disp = x]>>]} :
                        LooksUp(y, read + count + 1)
                   /\ x = disp
      BY <2>6, <2>7, <2>15, Zenon DEF ReadsDisplacement
    <3>2. <<[modrm EXCEPT !.disp = x]>> = one
      BY <2>7, <3>1, Zenon
    <3> QED BY <2>11, <3>1, <3>2, Zenon
  <2>17. specification' = ByModRm(spec, j) /\ instruction' = i /\ phase' = "imm"
    BY <2>12, <2>16, Zenon DEF LooksUp
  <2> QED BY <1>1, <1>5, <2>11, <2>12, <2>17, Zenon DEF FoundSoFar, Recognizes
<1> QED BY <1>4, <1>5

\* The immediate values have the sizes that the specification says.
LEMMA ImmediatesFill ==
  ASSUME NEW spec, NEW j, Encoded(spec, j)
  PROVE  UpTo(spec, Len(spec.imm)) = Len(FlattenSeq(j.imm))
<1>1. ValidateImmediateValues(spec, j) /\ j \in DecodedInstruction
  BY EncodedSpec DEF Encoded, Validate
<1>2. PICK seqs \in Seq(Seq(Byte)), N \in Nat : seqs = j.imm /\ N = Len(seqs)
  <2>1. j.imm \in Seq(Seq(Byte))
    BY <1>1, InstructionFields
  <2>2. Len(j.imm) \in Nat
    BY <2>1
  <2> QED BY <2>1, <2>2
<1>3. PICK lens : lens = [n \in DOMAIN seqs |-> Len(seqs[n])] /\ spec.imm = lens
  BY <1>1, <1>2 DEF ValidateImmediateValues
<1>4. \A n \in 1..N : Len(seqs[n]) \in Nat
  <2>1. \A s \in Seq(Byte) : Len(s) \in Nat
    OBVIOUS
  <2>2. \A n \in 1..N : seqs[n] \in Seq(Byte)
    BY <1>2
  <2> QED BY <2>1, <2>2, Zenon
<1>5. DOMAIN seqs = 1..N
  BY <1>2
<1>6. lens \in Seq(Nat) /\ Len(lens) = N /\ DOMAIN lens = 1..N /\ \A n \in 1..N : lens[n] = Len(seqs[n])
  <2>1. lens \in [1..N -> Nat] /\ \A n \in 1..N : lens[n] = Len(seqs[n])
    BY <1>3, <1>4, <1>5, Zenon
  <2> QED BY <2>1
<1>7. PICK E : /\ E[0] = 0 /\ \A k \in 0..N : E[k] \in Nat /\ FoldLeft(+, 0, SubSeq(lens, 1, k)) = E[k]
               /\ \A k \in 1..N : E[k] = E[k - 1] + lens[k]
  BY <1>6, PartialSums
<1>8. AddsUp(seqs, N, E)
  BY <1>6, <1>7 DEF AddsUp
<1>9. Len(FlattenSeq(seqs)) = E[N]
  <2>1. PartsOf(seqs, E, FlattenSeq(seqs), N)
    BY <1>2, <1>8, FlattenedParts
  <2> QED BY <2>1 DEF PartsOf
<1>10. UpTo(spec, Len(spec.imm)) = E[N]
  <2>1. N \in 0..N
    OBVIOUS
  <2> QED BY <1>3, <1>6, <1>7, <2>1, Zenon DEF UpTo
<1> QED BY <1>2, <1>9, <1>10, Zenon

LEMMA StillRecognized ==
  ASSUME NEW spec, NEW j, NEW n, NEW i, NEW k, SameFields(i, k), Recognizes(spec, j, n, i)
  PROVE  Recognizes(spec, j, n, k)
BY Zenon DEF Recognizes, SameFields

LEMMA EnoughLeft ==
  ASSUME NEW a \in Seq(Nat), NEW t \in Seq(Nat), NEW r, r = a \o t
  PROVE  ~(Len(r) < Len(a))
<1>1. Len(a \o t) = Len(a) + Len(t)
  BY Elements
<1>2. PICK la \in Nat, lt \in Nat : la = Len(a) /\ lt = Len(t)
  OBVIOUS
<1>3. Len(r) = la + lt
  BY <1>1, <1>2
<1> QED BY <1>2, <1>3

LEMMA NoFailImmediates ==
  ASSUME NEW spec, NEW j, Encoded(spec, j), HasRead(spec, j, FALSE), HasFound(spec, j), Shaped(instruction),
         ConsumeImmediateValuesIfNeeded
  PROVE  FoundSoFar(spec, j, phase', rest', instruction', specification')
<1>1. phase = "imm" /\ Recognizes(spec, j, specification, instruction)
  BY DEF ConsumeImmediateValuesIfNeeded, HasFound, FoundSoFar
<1>2. LeftOf(rest, FALSE, FromImmediates(spec, j, AfterIt(FALSE))) /\ Database[specification].spec = spec
  BY <1>1 DEF HasRead, ReadSoFar, AtImmediates, Recognizes
<1>3. PICK flat \in Seq(Nat), t \in Seq(Nat) : flat = FlattenSeq(j.imm) /\ t = FromCode(spec, j, AfterIt(FALSE))
  BY AfterType, TailsType, PartsType DEF Encoded
<1>4. rest = flat \o t
  BY <1>2, <1>3, AllLeft DEF FromImmediates
<1>5. ~(Len(rest) < UpTo(spec, Len(spec.imm)))
  <2>1. UpTo(spec, Len(spec.imm)) = Len(flat)
    BY <1>3, ImmediatesFill
  <2> QED BY <1>4, <2>1, EnoughLeft
<1>6. PICK total, imm : total = UpTo(spec, Len(spec.imm)) /\ imm = ImmediatesFrom(spec, rest)
  OBVIOUS
<1>7. Consume(total, [instruction EXCEPT !.imm = imm], "code")
  BY <1>2, <1>5, <1>6, Zenon DEF ConsumeImmediateValuesIfNeeded, UpTo, ImmediatesFrom
<1>8. instruction' = [instruction EXCEPT !.imm = imm] /\ phase' = "code" /\ specification' = specification
  BY <1>7, Zenon DEF Consume
<1>9. SameFields(instruction, instruction')
  BY <1>8, FieldsKept
<1>10. Recognizes(spec, j, specification', instruction')
  BY <1>1, <1>8, <1>9, StillRecognized
<1> QED BY <1>8, <1>10 DEF FoundSoFar

LEMMA NoFailCode ==
  ASSUME NEW spec, NEW j, Encoded(spec, j), HasRead(spec, j, FALSE), HasFound(spec, j), Shaped(instruction),
         ConsumeCodeOffsetIfNeeded
  PROVE  FoundSoFar(spec, j, phase', rest', instruction', specification')
<1>1. phase = "code" /\ Recognizes(spec, j, specification, instruction)
  BY DEF ConsumeCodeOffsetIfNeeded, HasFound, FoundSoFar
<1>2. LeftOf(rest, FALSE, FromCode(spec, j, AfterIt(FALSE))) /\ Database[specification].spec = spec
  BY <1>1 DEF HasRead, ReadSoFar, AtCode, Recognizes
<1>3. PICK c \in Seq(Nat), t \in Seq(Nat) : c = j.code /\ t = FromSuffix(spec, j, AfterIt(FALSE))
  BY AfterType, TailsType, PartsType DEF Encoded
<1>4. rest = c \o t
  BY <1>2, <1>3, AllLeft DEF FromCode
<1>5. Len(c) = spec.code
  <2>1. ValidateImmediateValues(spec, j)
    BY EncodedSpec DEF Encoded, Validate
  <2> QED BY <1>3, <2>1 DEF ValidateImmediateValues
<1>6. ~(Len(rest) < spec.code)
  BY <1>4, <1>5, EnoughLeft
<1>7. PICK code : code = SubSeq(rest, 1, spec.code)
  OBVIOUS
<1>8. Consume(spec.code, [instruction EXCEPT !.code = code], "suffix")
  BY <1>2, <1>6, <1>7, Zenon DEF ConsumeCodeOffsetIfNeeded
<1>9. instruction' = [instruction EXCEPT !.code = code] /\ phase' = "suffix" /\ specification' = specification
  BY <1>8, Zenon DEF Consume
<1>10. SameFields(instruction, instruction')
  BY <1>9, FieldsKept
<1>11. Recognizes(spec, j, specification', instruction')
  BY <1>1, <1>9, <1>10, StillRecognized
<1> QED BY <1>9, <1>11 DEF FoundSoFar

LEMMA NoFailSuffix ==
  ASSUME NEW spec, NEW j, Encoded(spec, j), HasRead(spec, j, FALSE), HasFound(spec, j), Shaped(instruction),
         ConsumeVexSuffixIfNeeded
  PROVE  FoundSoFar(spec, j, phase', rest', instruction', specification')
<1>1. phase = "suffix" /\ Recognizes(spec, j, specification, instruction)
  BY DEF ConsumeVexSuffixIfNeeded, HasFound, FoundSoFar
<1>2. LeftOf(rest, FALSE, FromSuffix(spec, j, AfterIt(FALSE))) /\ Database[specification].spec = spec
  BY <1>1 DEF HasRead, ReadSoFar, AtSuffix, Recognizes
<1>3. CASE spec.type = "legacy" \/ ~spec.vex.is4
  <2>1. Consume(0, instruction, "done")
    BY <1>2, <1>3, Zenon DEF ConsumeVexSuffixIfNeeded
  <2>2. instruction' = instruction /\ phase' = "done" /\ specification' = specification
    BY <2>1, Zenon DEF Consume
  <2> QED BY <1>1, <2>2 DEF FoundSoFar
<1>4. CASE ~(spec.type = "legacy" \/ ~spec.vex.is4)
  <2>1. spec.type = "VEX" /\ spec.vex.is4 /\ j.kind = "VEX"
    BY <1>4, EncodedSpec DEF Encoded, Fits
  <2>2. PICK byte \in Nat : byte = j.vex.suffix
    <3>1. j.vex \in VexOrEvexPrefix
      BY EncodedSpec, InstructionFields DEF Encoded
    <3> QED BY <3>1, VexNumbers
  <2>3. PICK s \in Seq(Nat), t \in Seq(Nat) : s = <<byte>> /\ s # <<>> /\ t = AfterIt(FALSE)
    <3>1. <<byte>> \in Seq(Nat) /\ <<byte>> # <<>>
      OBVIOUS
    <3> QED BY <3>1, AfterType
  <2>4. EncodeVexSuffix(spec, j) = s
    BY <2>1, <2>2, <2>3 DEF EncodeVexSuffix, ByteIf
  <2>5. rest = s \o t
    BY <1>2, <2>3, <2>4, AllLeft DEF FromSuffix
  <2>6. rest # <<>>
    <3>1. ~(Len(rest) < Len(s)) /\ Len(s) = 1
      BY <2>3, <2>5, EnoughLeft
    <3>2. rest = <<>> => Len(rest) = 0
      OBVIOUS
    <3> QED BY <3>1, <3>2
  <2>7. PICK i : i = [MutableVex(instruction) EXCEPT !.vex.suffix = rest[1]]
    OBVIOUS
  <2>8. Consume(1, i, "done")
    BY <1>2, <1>4, <2>6, <2>7, Zenon DEF ConsumeVexSuffixIfNeeded
  <2>9. instruction' = i /\ phase' = "done" /\ specification' = specification
    BY <2>8, Zenon DEF Consume
  <2>10. SameFields(instruction, i)
    BY <2>7, MutableKept
  <2>11. Recognizes(spec, j, specification', instruction')
    BY <1>1, <2>9, <2>10, StillRecognized
  <2> QED BY <2>9, <2>11 DEF FoundSoFar
<1> QED BY <1>3, <1>4

LEMMA StepFinds ==
  ASSUME ParserInv, NEW spec, NEW j, Encoded(spec, j), IsFound(spec, j), HasRead(spec, j, FALSE), HasFound(spec, j),
         ParserNext
  PROVE  FoundSoFar(spec, j, phase', rest', instruction', specification')
<1>1. Shaped(instruction)
  BY DEF ParserInv
<1>2. CASE ConsumeSegmentOverridePrefix \/ ConsumeAddressSizeOverridePrefix
  BY <1>2, NoFailEarly
<1>3. CASE ConsumePrefixes
  BY <1>3, NoFailPrefixes
<1>4. CASE ConsumeVexPrefix
  BY <1>4, NoFailVex
<1>5. CASE ConsumeEvexPrefix
  BY <1>5, NoFailEvex
<1>6. CASE AddLockOrRepPrefix
  BY <1>6, NoFailLock
<1>7. CASE AddOperandSizeOverridePrefix
  BY <1>7, NoFailSize
<1>8. CASE ParseRexPrefix
  BY <1>8, NoFailRex
<1>9. CASE EndOfPrefixes
  BY <1>9, NoFailEnd
<1>10. CASE ConsumeOpcode
  BY <1>10, NoFailOpcode
<1>11. CASE ConsumeModRmAndSIBIfNeeded
  BY <1>11, NoFailModRm
<1>12. CASE ConsumeImmediateValuesIfNeeded
  BY <1>1, <1>12, NoFailImmediates
<1>13. CASE ConsumeCodeOffsetIfNeeded
  BY <1>1, <1>13, NoFailCode
<1>14. CASE ConsumeVexSuffixIfNeeded
  BY <1>1, <1>14, NoFailSuffix
<1> QED BY <1>2, <1>3, <1>4, <1>5, <1>6, <1>7, <1>8, <1>9, <1>10, <1>11, <1>12, <1>13, <1>14 DEF ParserNext

\* At every step of a call over a whole encoding nothing has failed, and the lookups that are behind
\* it have found the specification.
FoundInv == stage = "parse" /\ ~cut /\ Fits(SpecOf, instr) /\ IsFound(SpecOf, instr) => HasFound(SpecOf, instr)

LEMMA NotParsedYet ==
  ASSUME AssignRegister \/ AssignMemory \/ EncodeInstruction
  PROVE  stage' # "parse"
<1>1. CASE AssignRegister \/ AssignMemory
  BY <1>1, ZenonT(40) DEF AssignRegister, AssignMemory, Assign
<1>2. CASE EncodeInstruction
  <2>1. stage' \in {"encoded", "rejected"}
    BY <1>2, Zenon DEF EncodeInstruction
  <2> QED BY <2>1
<1> QED BY <1>1, <1>2

LEMMA FoundInit == CodecInit => FoundInv
<1> SUFFICES ASSUME CodecInit PROVE FoundInv
  OBVIOUS
<1>1. stage \in {"assign", "foreign"}
  BY DEF CodecInit
<1> QED BY <1>1 DEF FoundInv

LEMMA FoundBegins ==
  ASSUME ParserInv, ParseAll \/ ParseCut
  PROVE  FoundInv'
<1>1. stage = "encoded" /\ phase' = phase
  BY DEF ParseAll, ParseCut
<1>2. phase' = "prefixes"
  BY <1>1 DEF ParserInv, Parsing
<1>3. HasFound(SpecOf, instr)'
  BY <1>2 DEF HasFound, FoundSoFar
<1> QED BY <1>3 DEF FoundInv

LEMMA FoundParse ==
  ASSUME ReadInv, ClientInv, ParserInv, FoundInv, Parse
  PROVE  FoundInv'
<1>1. ParserNext /\ UNCHANGED clientVars
  BY DEF Parse
<1>2. cut' = cut /\ stage' = stage /\ entry' = entry /\ instr' = instr
  BY <1>1 DEF clientVars
<1>3. SpecOf' = SpecOf
  BY <1>2 DEF SpecOf
<1>4. ASSUME stage = "parse", ~cut, Fits(SpecOf, instr), IsFound(SpecOf, instr)
      PROVE  FoundSoFar(SpecOf, instr, phase', rest', instruction', specification')
  <2>1. cut = FALSE /\ HasRead(SpecOf, instr, cut) /\ Validate(SpecOf, instr)
    BY <1>4 DEF ReadInv
  <2>2. HasFound(SpecOf, instr) /\ HasRead(SpecOf, instr, FALSE)
    BY <1>4, <2>1 DEF FoundInv
  <2>3. Encoded(SpecOf, instr)
    BY <1>4, <2>1, ClientEncoded
  <2> QED BY <1>1, <1>4, <2>2, <2>3, StepFinds
<1>5. /\ Fits(SpecOf, instr)' = Fits(SpecOf, instr) /\ IsFound(SpecOf, instr)' = IsFound(SpecOf, instr)
      /\ HasFound(SpecOf, instr)' = FoundSoFar(SpecOf, instr, phase', rest', instruction', specification')
  BY <1>2, <1>3, Zenon DEF HasFound
<1> QED BY <1>2, <1>4, <1>5, Zenon DEF FoundInv

LEMMA FoundNext == ReadInv /\ ClientInv /\ ParserInv /\ FoundInv /\ [CodecNext]_vars => FoundInv'
<1> SUFFICES ASSUME ReadInv, ClientInv, ParserInv, FoundInv, [CodecNext]_vars PROVE FoundInv'
  OBVIOUS
<1>1. CASE AssignRegister \/ AssignMemory \/ EncodeInstruction
  <2>1. stage' # "parse"
    BY <1>1, NotParsedYet
  <2> QED BY <2>1 DEF FoundInv
<1>2. CASE ParseAll \/ ParseCut
  BY <1>2, FoundBegins
<1>3. CASE Parse
  BY <1>3, FoundParse
<1>4. CASE UNCHANGED vars
  <2>1. /\ cut' = cut /\ stage' = stage /\ entry' = entry /\ instr' = instr
        /\ rest' = rest /\ instruction' = instruction /\ specification' = specification /\ phase' = phase
    BY <1>4 DEF vars, clientVars, parserVars
  <2>2. SpecOf' = SpecOf
    BY <2>1 DEF SpecOf
  <2>3. /\ Fits(SpecOf, instr)' = Fits(SpecOf, instr) /\ IsFound(SpecOf, instr)' = IsFound(SpecOf, instr)
        /\ HasFound(SpecOf, instr)' = HasFound(SpecOf, instr)
    BY <2>1, <2>2, Zenon DEF HasFound
  <2> QED BY <2>1, <2>3, Zenon DEF FoundInv
<1> QED BY <1>1, <1>2, <1>3, <1>4 DEF CodecNext, HasReturned

\* A call over the encoding of an instruction whose opcode is the longest its bytes begin with, and
\* whose opcode and ModR/M byte the database has for its specification, never fails.
THEOREM EncodingsAreFound == CodecSpec => []FoundInv
<1>1. CodecInit => FoundInv
  BY FoundInit
<1>2. ReadInv /\ ClientInv /\ ParserInv /\ FoundInv /\ [CodecNext]_vars => FoundInv'
  BY FoundNext
<1> QED BY <1>1, <1>2, ReadInvariance, ParserInvariance, PTL DEF CodecSpec

\* ConsumeBinaryEncoding parses the encoding of such an instruction back to it, whatever the bytes that
\* follow: it does not fail, and what it returns is the instruction.
THEOREM EncodingsRoundTrip == CodecSpec => [](Fits(SpecOf, instr) /\ IsFound(SpecOf, instr) => RoundTrip)
<1>1. ReadInv /\ ClientInv /\ FoundInv => (Fits(SpecOf, instr) /\ IsFound(SpecOf, instr) => RoundTrip)
  <2> SUFFICES ASSUME ReadInv, ClientInv, FoundInv, Fits(SpecOf, instr), IsFound(SpecOf, instr),
                      stage = "parse", ~cut, phase \in {"done", "error"}
               PROVE  /\ phase = "done" /\ rest = Following /\ Database[specification].spec = SpecOf
                      /\ Canonical(SpecOf, instruction) = Canonical(SpecOf, instr)
    BY DEF RoundTrip
  <2>1. phase = "done" /\ Recognizes(SpecOf, instr, specification, instruction)
    BY DEF FoundInv, HasFound, FoundSoFar
  <2>2. rest = Following /\ Canonical(SpecOf, instruction) = Canonical(SpecOf, instr)
    BY <2>1, AtTheEnd DEF ReadBack
  <2> QED BY <2>1, <2>2 DEF Recognizes
<1> QED BY <1>1, EncodingsAreFound, ReadInvariance, ParserInvariance, PTL

-----------------------------------------------------------------------------
(* Encodings that end too early.                                           *)

\* A loop that reads only a beginning of the opcode finds no opcode in it, or, one byte before its
\* end, one that has a ModR/M byte, which is not there.
ShorterAt(spec, j, n) ==
  GetEncodingSpecification(AfterPrefixes(spec, j, OpcodeNumber(EncodeOpcode(spec, j), n), <<>>, <<>>, <<>>, <<>>), FALSE)
NoShorter(spec, j) ==
  spec.type = "legacy" => \A n \in 1..(Len(EncodeOpcode(spec, j)) - 1) :
    \/ ShorterAt(spec, j, n) = 0
    \/ n = Len(EncodeOpcode(spec, j)) - 1 /\ Database[ShorterAt(spec, j, n)].spec.modrm # "NO"

\* A call over an encoding that ends too early: the lookups find the specification, or nothing is left
\* for a ModR/M byte.
CutSoFar(spec, j, p, r, i, n) ==
  /\ p = "modrm" => \/ i.op = OpcodeWritten(spec, j) /\ n = ByOpcode(spec, j)
                    \/ r = <<>> /\ Database[n].spec.modrm # "NO"
  /\ p \in {"imm", "code", "suffix", "done"} => Recognizes(spec, j, n, i)

LEMMA NumberAlike ==
  ASSUME NEW a, NEW b, NEW n \in 1..4, \A k \in 1..n : a[k] = b[k]
  PROVE  OpcodeNumber(a, n) = OpcodeNumber(b, n)
<1>1. a[1] = b[1] /\ (n >= 2 => a[2] = b[2]) /\ (n >= 3 => a[3] = b[3]) /\ (n >= 4 => a[4] = b[4])
  OBVIOUS
<1>2. CASE n = 1
  BY <1>1, <1>2 DEF OpcodeNumber
<1>3. CASE n = 2
  BY <1>1, <1>3 DEF OpcodeNumber
<1>4. CASE n = 3
  BY <1>1, <1>4 DEF OpcodeNumber
<1>5. CASE n = 4
  BY <1>1, <1>5 DEF OpcodeNumber
<1> QED BY <1>2, <1>3, <1>4, <1>5

LEMMA OpcodeInAlike ==
  ASSUME NEW spec, NEW j, NEW a, NEW b, NEW n \in 1..4, \A k \in 1..n : a[k] = b[k]
  PROVE  OpcodeIn(spec, j, a, n) <=> OpcodeIn(spec, j, b, n)
<1>1. \A m \in 1..n : OpcodeNumber(a, m) = OpcodeNumber(b, m)
  <2>1. ASSUME NEW m \in 1..n PROVE OpcodeNumber(a, m) = OpcodeNumber(b, m)
    <3>1. m \in 1..4 /\ \A k \in 1..m : k \in 1..n
      BY <2>1
    <3> QED BY <3>1, NumberAlike
  <2> QED BY <2>1
<1>2. n \in 1..n /\ \A m \in 1..(n - 1) : m \in 1..n
  OBVIOUS
<1> QED BY <1>1, <1>2, Zenon DEF OpcodeIn

IsProlonged(u, after, v) == u \in Seq(Nat) /\ v = u \o after

LEMMA ProlongedBy ==
  ASSUME NEW s \in Seq(Nat), NEW t, NEW after \in Seq(Nat), NEW long, IsProlonged(t, after, long),
         NEW u, u = s \o t, NEW v, v = s \o long
  PROVE  IsProlonged(u, after, v)
<1>1. t \in Seq(Nat) /\ long = t \o after
  BY DEF IsProlonged
<1>2. u \in Seq(Nat)
  BY <1>1, Joined
<1>3. (s \o t) \o after = s \o (t \o after)
  BY <1>1, ConcatAssociative, SMTT(40)
<1> QED BY <1>1, <1>2, <1>3 DEF IsProlonged

\* What follows an instruction comes behind the bytes of it.
LEMMA Prolonged ==
  ASSUME NEW spec, NEW j, IsEncoded(spec, j), NEW none \in Seq(Nat), none = <<>>, NEW after \in Seq(Nat)
  PROVE  FromOpcode(spec, j, after) = FromOpcode(spec, j, none) \o after
<1>1. PICK a \in Seq(Nat), b \in Seq(Nat), c \in Seq(Nat), d \in Seq(Nat), e \in Seq(Nat) :
        /\ a = EncodeOpcode(spec, j) /\ b = EncodeModRM(spec, j) /\ c = FlattenSeq(j.imm) /\ d = j.code
        /\ e = EncodeVexSuffix(spec, j)
  BY PartsType
<1>2. PICK u1, v1, u2, v2, u3, v3, u4, v4, u5, v5 :
        /\ u1 = FromSuffix(spec, j, none) /\ v1 = FromSuffix(spec, j, after)
        /\ u2 = FromCode(spec, j, none) /\ v2 = FromCode(spec, j, after)
        /\ u3 = FromImmediates(spec, j, none) /\ v3 = FromImmediates(spec, j, after)
        /\ u4 = FromModRM(spec, j, none) /\ v4 = FromModRM(spec, j, after)
        /\ u5 = FromOpcode(spec, j, none) /\ v5 = FromOpcode(spec, j, after)
  OBVIOUS
<1>3. u1 = e \o none /\ v1 = e \o after
  BY <1>1, <1>2, Zenon DEF FromSuffix
<1>4. u2 = d \o u1 /\ v2 = d \o v1
  BY <1>1, <1>2, Zenon DEF FromCode
<1>5. u3 = c \o u2 /\ v3 = c \o v2
  BY <1>1, <1>2, Zenon DEF FromImmediates
<1>6. u4 = b \o u3 /\ v4 = b \o v3
  BY <1>1, <1>2, Zenon DEF FromModRM
<1>7. u5 = a \o u4 /\ v5 = a \o v4
  BY <1>1, <1>2, Zenon DEF FromOpcode
<1>8. IsProlonged(u1, after, v1)
  <2>1. e \o <<>> = e
    BY ConcatEmptySeq
  <2> QED BY <1>3, <2>1 DEF IsProlonged
<1>9. IsProlonged(u2, after, v2)
  BY <1>4, <1>8, ProlongedBy
<1>10. IsProlonged(u3, after, v3)
  BY <1>5, <1>9, ProlongedBy
<1>11. IsProlonged(u4, after, v4)
  BY <1>6, <1>10, ProlongedBy
<1>12. IsProlonged(u5, after, v5)
  BY <1>7, <1>11, ProlongedBy
<1> QED BY <1>2, <1>12 DEF IsProlonged

\* The step that reads the opcode, if it does not fail.
LEMMA OpcodeTaken ==
  ASSUME ConsumeOpcode, ~Fail, NEW op,
         op = IF instruction.kind = "legacy" THEN LegacyOpcode(OpcodeLength)
              ELSE 256 * MapOpcode[instruction.vex.map] + rest[1],
         NEW i, i = [instruction EXCEPT !.op = op]
  PROVE  /\ rest # <<>> /\ GetEncodingSpecification(i, FALSE) # 0
         /\ specification' = GetEncodingSpecification(i, FALSE)
         /\ instruction' = i /\ phase' = "modrm" /\ rest' = SubSeq(rest, OpcodeLength + 1, Len(rest))
<1>1. ~(rest = <<>> \/ (instruction.kind # "legacy" /\ instruction.vex.map \notin DOMAIN MapSelectBits))
  BY Zenon DEF ConsumeOpcode
<1>2. PICK length : /\ length = OpcodeLength
                    /\ \E x \in {[instruction EXCEPT !.op = IF instruction.kind = "legacy" THEN LegacyOpcode(length)
                                                            ELSE 256 * MapOpcode[instruction.vex.map] + rest[1]]} :
                       \E n \in {GetEncodingSpecification(x, FALSE)} :
                         IF n = 0 THEN Fail
                         ELSE /\ specification' = n
                              /\ instruction' = x
                              /\ rest' = SubSeq(rest, length + 1, Len(rest))
                              /\ phase' = "modrm"
  BY <1>1, Zenon DEF ConsumeOpcode
<1>3. op = IF instruction.kind = "legacy" THEN LegacyOpcode(length)
           ELSE 256 * MapOpcode[instruction.vex.map] + rest[1]
  BY <1>2, Zenon
<1>4. PICK x : /\ x = [instruction EXCEPT !.op = op]
               /\ \E n \in {GetEncodingSpecification(x, FALSE)} :
                    IF n = 0 THEN Fail
                    ELSE /\ specification' = n
                         /\ instruction' = x
                         /\ rest' = SubSeq(rest, length + 1, Len(rest))
                         /\ phase' = "modrm"
  BY <1>2, <1>3, Zenon
<1> QED BY <1>1, <1>2, <1>4, ZenonT(40)

\* The bytes that are left are those of the opcode, or the beginning of it.
LEMMA OpcodeLeft ==
  ASSUME NEW spec, NEW j, IsEncoded(spec, j), Fits(spec, j), IsFound(spec, j), LeftOf(rest, TRUE, FromOpcode(spec, j, <<>>)),
         NEW s \in Seq(Nat), s = EncodeOpcode(spec, j)
  PROVE  /\ rest \in Seq(Nat) /\ \A k \in 1..Len(s) : k <= Len(rest) => rest[k] = s[k]
         /\ spec.type = "legacy" /\ Len(s) <= Len(rest) => LongestOpcode(spec, j, rest, Len(s))
<1>1. PICK none \in Seq(Nat), after \in Seq(Nat) : none = <<>> /\ after = Following
  <2>1. <<>> \in Seq(Nat) /\ Following \in Seq(Nat)
    BY AfterType DEF AfterIt
  <2> QED BY <2>1
<1>2. PICK w, full : w = FromOpcode(spec, j, none) /\ full = FromOpcode(spec, j, after)
  OBVIOUS
<1>3. w \in Seq(Nat) /\ full \in Seq(Nat) /\ full = w \o after
  BY <1>1, <1>2, TailsType, Prolonged, ZenonT(40)
<1>4. LeftOf(rest, TRUE, w)
  BY <1>1, <1>2, Zenon
<1>5. rest \in Seq(Nat) /\ Len(rest) <= Len(w) /\ \A k \in 1..Len(rest) : rest[k] = w[k]
  <2>1. TRUE \in BOOLEAN
    OBVIOUS
  <2> QED BY <1>4, <2>1, LeftIsShorter, ZenonT(40)
<1>6. Len(full) = Len(w) + Len(after) /\ \A k \in 1..Len(w) : full[k] = w[k]
  BY <1>3, Elements
<1>7. PICK l \in Nat, lw \in Nat, lf \in Nat : l = Len(rest) /\ lw = Len(w) /\ lf = Len(full) /\ l <= lw /\ l <= lf
  <2>1. Len(rest) \in Nat /\ Len(w) \in Nat /\ Len(after) \in Nat
    BY <1>3, <1>5
  <2>2. Len(full) \in Nat /\ Len(rest) <= Len(full)
    BY <1>5, <1>6, <2>1
  <2> QED BY <1>5, <2>1, <2>2
<1>8. \A k \in 1..l : rest[k] = full[k] /\ rest[k] = w[k]
  <2>1. \A k \in 1..l : k \in 1..lw
    BY <1>7
  <2> QED BY <1>5, <1>6, <1>7, <2>1, Zenon
<1>9. \A k \in 1..Len(s) : k <= Len(rest) => rest[k] = s[k]
  <2>1. PICK t \in Seq(Nat) : t = FromModRM(spec, j, none)
    BY TailsType
  <2>2. w = s \o t
    BY <1>2, <2>1, Zenon DEF FromOpcode
  <2>3. \A k \in 1..Len(s) : w[k] = s[k]
    BY <2>2, Elements
  <2>4. ASSUME NEW k \in 1..Len(s), k <= l PROVE k \in 1..l
    <3>1. Len(s) \in Nat
      OBVIOUS
    <3> QED BY <2>4, <3>1
  <2> QED BY <1>7, <1>8, <2>3, <2>4
<1>10. ASSUME spec.type = "legacy", Len(s) <= Len(rest) PROVE LongestOpcode(spec, j, rest, Len(s))
  <2>1. PICK m \in 1..3 : m = Len(s) /\ m <= l
    BY <1>7, <1>10, OpcodeLasts DEF Encoded
  <2>2. LongestOpcode(spec, j, full, m)
    BY <1>1, <1>2, <1>10, <2>1 DEF IsFound
  <2>3. \A n \in 1..4 : n <= l => (OpcodeIn(spec, j, rest, n) <=> OpcodeIn(spec, j, full, n))
    <3>1. ASSUME NEW n \in 1..4, n <= l PROVE OpcodeIn(spec, j, rest, n) <=> OpcodeIn(spec, j, full, n)
      <4>1. \A k \in 1..n : k \in 1..l
        BY <3>1
      <4> QED BY <1>8, <4>1, OpcodeInAlike
    <3> QED BY <3>1
  <2>4. m = 1 \/ OpcodeIn(spec, j, rest, m)
    <3>1. m \in 1..4
      OBVIOUS
    <3> QED BY <2>1, <2>2, <2>3, <3>1, Zenon DEF LongestOpcode
  <2>5. ASSUME NEW n \in (m + 1)..4, n <= Len(rest) PROVE ~OpcodeIn(spec, j, rest, n)
    <3>1. n \in 1..4 /\ n <= l /\ n <= lf
      BY <1>7, <2>5
    <3>2. ~OpcodeIn(spec, j, full, n)
      BY <1>7, <2>2, <3>1 DEF LongestOpcode
    <3> QED BY <2>3, <3>1, <3>2
  <2>6. LongestOpcode(spec, j, rest, m)
    BY <2>4, <2>5 DEF LongestOpcode
  <2> QED BY <2>1, <2>6
<1> QED BY <1>5, <1>9, <1>10

LEMMA CutOpcode ==
  ASSUME NEW spec, NEW j, Encoded(spec, j), IsFound(spec, j), NoShorter(spec, j), HasRead(spec, j, TRUE), ConsumeOpcode
  PROVE  CutSoFar(spec, j, phase', rest', instruction', specification')
<1>1. CASE Fail
  BY <1>1 DEF Fail, CutSoFar
<1>2. CASE ~Fail
  <2>1. IsEncoded(spec, j) /\ Fits(spec, j) /\ spec.type \in {"legacy", "VEX", "EVEX"}
    BY EncodedSpec DEF Encoded
  <2>2. instruction = BeforeOpcode(spec, j) /\ LeftOf(rest, TRUE, FromOpcode(spec, j, <<>>))
    BY Zenon DEF ConsumeOpcode, HasRead, ReadSoFar, AtOpcode, PrefixesOnly, BeforeOpcode, AfterPrefixes, AfterIt
  <2>3. PICK s \in Seq(Nat) : s = EncodeOpcode(spec, j) /\ Len(s) \in 1..3
    BY OpcodeLasts
  <2>4. /\ rest \in Seq(Nat) /\ \A k \in 1..Len(s) : k <= Len(rest) => rest[k] = s[k]
        /\ spec.type = "legacy" /\ Len(s) <= Len(rest) => LongestOpcode(spec, j, rest, Len(s))
    BY <2>1, <2>2, <2>3, OpcodeLeft
  <2>5. PICK op : op = IF instruction.kind = "legacy" THEN LegacyOpcode(OpcodeLength)
                       ELSE 256 * MapOpcode[instruction.vex.map] + rest[1]
    OBVIOUS
  <2>6. PICK i : i = [instruction EXCEPT !.op = op] /\ i = AfterPrefixes(spec, j, op, <<>>, <<>>, <<>>, <<>>) /\ i.op = op
    <3>1. [instruction EXCEPT !.op = op] = AfterPrefixes(spec, j, op, <<>>, <<>>, <<>>, <<>>)
      BY <2>2, OpcodePut
    <3>2. PICK i : i = AfterPrefixes(spec, j, op, <<>>, <<>>, <<>>, <<>>)
      OBVIOUS
    <3>3. i.op = op
      BY <3>2 DEF AfterPrefixes, Decoded
    <3> QED BY <3>1, <3>2, <3>3, Zenon
  <2>7. /\ rest # <<>> /\ GetEncodingSpecification(i, FALSE) # 0
        /\ specification' = GetEncodingSpecification(i, FALSE)
        /\ instruction' = i /\ phase' = "modrm" /\ rest' = SubSeq(rest, OpcodeLength + 1, Len(rest))
    BY <1>2, <2>5, <2>6, OpcodeTaken
  <2>8. PICK l \in 1..3, r \in Nat : l = Len(s) /\ r = Len(rest) /\ r >= 1
    <3>1. Len(rest) \in Nat /\ Len(rest) # 0
      BY <2>4, <2>7
    <3> QED BY <2>3, <3>1
  <2>9. CASE l <= r
    <3>1. op = OpcodeWritten(spec, j)
      <4>1. /\ Len(EncodeOpcode(spec, j)) <= Len(rest)
            /\ \A k \in 1..Len(EncodeOpcode(spec, j)) : rest[k] = EncodeOpcode(spec, j)[k]
            /\ spec.type = "legacy" => LongestOpcode(spec, j, rest, Len(EncodeOpcode(spec, j)))
        <5>1. Len(s) <= Len(rest) /\ \A k \in 1..Len(s) : rest[k] = s[k]
          BY <2>4, <2>8, <2>9
        <5>2. spec.type = "legacy" => LongestOpcode(spec, j, rest, Len(s))
          BY <2>4, <5>1
        <5> QED BY <2>3, <5>1, <5>2, Zenon
      <4>2. Consumed(op)
        BY <2>5 DEF Consumed
      <4>3. IsTheOpcode(spec, j, op)
        BY <2>2, <2>4, <4>1, <4>2, OpcodeIsWritten, Zenon
      <4> QED BY <4>3 DEF IsTheOpcode
    <3>2. GetEncodingSpecification(i, FALSE) = ByOpcode(spec, j)
      BY <2>6, <3>1, Zenon DEF ByOpcode
    <3>3. i.op = OpcodeWritten(spec, j) /\ phase' = "modrm" /\ "modrm" \notin {"imm", "code", "suffix", "done"}
      BY <2>6, <2>7, <3>1
    <3> QED BY <2>7, <3>2, <3>3, Zenon DEF CutSoFar
  <2>10. CASE ~(l <= r)
    <3>1. spec.type = "legacy"
      <4>1. SUFFICES ASSUME spec.type # "legacy" PROVE FALSE
        OBVIOUS
      <4>2. s = <<OpcodeWritten(spec, j) % 256>>
        BY <2>1, <2>3, <4>1, WrittenOpcode
      <4>3. Len(s) = 1
        BY <4>2
      <4> QED BY <2>8, <2>10, <4>3
    <3>2. instruction.kind = "legacy"
      BY <2>2, <3>1 DEF BeforeOpcode, AfterPrefixes, Decoded
    <3>3. PICK n \in 1..4 : n = OpcodeLength
      BY <2>4, <2>7, OpcodeLengthType
    <3>4. n <= r
      <4>1. CASE n = 1
        BY <2>8, <4>1
      <4>2. CASE n > 1
        BY <2>4, <2>7, <2>8, <3>2, <3>3, <4>2, OpcodeFoundIs
      <4> QED BY <4>1, <4>2
    <3>5. op = OpcodeNumber(rest, n)
      <4>1. LegacyOpcode(n) = OpcodeNumber(rest, n)
        BY <2>4, <2>8, <3>4, LegacyOpcodeIs
      <4> QED BY <2>5, <3>2, <3>3, <4>1, Zenon
    <3>6. OpcodeNumber(rest, n) = OpcodeNumber(s, n)
      <4>1. \A k \in 1..n : k \in 1..Len(s) /\ k <= Len(rest)
        BY <2>8, <2>10, <3>4
      <4>2. \A k \in 1..n : rest[k] = s[k]
        BY <2>4, <4>1
      <4> QED BY <4>2, NumberAlike
    <3>7. GetEncodingSpecification(i, FALSE) = ShorterAt(spec, j, n)
      BY <2>3, <2>6, <3>5, <3>6, Zenon DEF ShorterAt
    <3>8. n \in 1..(l - 1)
      BY <2>10, <3>4
    <3>9. n = l - 1 /\ Database[ShorterAt(spec, j, n)].spec.modrm # "NO"
      BY <2>3, <2>7, <2>8, <3>1, <3>7, <3>8 DEF NoShorter
    <3>10. rest' = <<>>
      <4>1. r = n
        BY <2>10, <3>4, <3>9
      <4>2. rest' = SubSeq(rest, n + 1, n)
        BY <2>7, <2>8, <3>3, <4>1
      <4>3. SubSeq(rest, n + 1, n) = <<>>
        BY <2>4
      <4> QED BY <4>2, <4>3
    <3>11. phase' = "modrm" /\ "modrm" \notin {"imm", "code", "suffix", "done"}
      BY <2>7
    <3> QED BY <2>7, <3>7, <3>9, <3>10, <3>11, Zenon DEF CutSoFar
  <2> QED BY <2>9, <2>10
<1> QED BY <1>1, <1>2

\* The step that reads the ModR/M byte, if it does not fail.
ReadsTo(i, n) == /\ n # 0 /\ specification' = n /\ instruction' = i /\ phase' = "imm"
LEMMA ModRmTaken ==
  ASSUME ConsumeModRmAndSIBIfNeeded, ~Fail, Database[specification].spec.modrm # "NO"
  PROVE  /\ rest # <<>>
         /\ \E modrm, read, sib, count, disp, i :
              /\ TakesModRm(rest, modrm, read, sib, count, disp)
              /\ i = [instruction EXCEPT !.sib = sib, !.modrm = <<[modrm EXCEPT !.disp = disp]>>]
              /\ ReadsTo(i, GetEncodingSpecification(i, TRUE))
              /\ rest' = SubSeq(rest, read + count + 1, Len(rest))
<1>1. rest # <<>>
  BY Zenon DEF ConsumeModRmAndSIBIfNeeded
<1>2. \E modrm \in {ParseModRm(rest[1])} : \E read \in {IF ModRmRequiresSib(modrm) THEN 2 ELSE 1} : ReadsSib(modrm, read)
  BY <1>1, Zenon DEF ConsumeModRmAndSIBIfNeeded, ReadsSib, ReadsDisplacement, LooksUp
<1>3. PICK modrm, read : /\ modrm = ParseModRm(rest[1]) /\ read = IF ModRmRequiresSib(modrm) THEN 2 ELSE 1
                         /\ ReadsSib(modrm, read)
  BY <1>2, Zenon
<1>4. ~(Len(rest) < read)
  BY <1>3, Zenon DEF ReadsSib
<1>5. PICK sib, count :
        /\ sib = IF read = 2 THEN <<ParseSib(rest[2])>> ELSE <<>>
        /\ count = NumModRmDisplacementBytes(modrm, IF read = 2 THEN sib[1] ELSE DefaultSib)
        /\ ReadsDisplacement(modrm, sib, read, count)
  BY <1>3, <1>4, Zenon DEF ReadsSib
<1>6. ~(Len(rest) < read + count)
  BY <1>5, Zenon DEF ReadsDisplacement
<1>7. PICK disp, i : /\ disp = Displacement(SubSeq(rest, read + 1, read + count))
                     /\ i = [instruction EXCEPT !.sib = sib, !.modrm = <<[modrm EXCEPT !.disp = disp]>>]
                     /\ LooksUp(i, read + count + 1)
  BY <1>5, Zenon DEF ReadsDisplacement
<1>8. TakesModRm(rest, modrm, read, sib, count, disp)
  BY <1>3, <1>4, <1>5, <1>6, <1>7, Zenon DEF TakesModRm
<1>9. ReadsTo(i, GetEncodingSpecification(i, TRUE)) /\ rest' = SubSeq(rest, read + count + 1, Len(rest))
  BY <1>7, Zenon DEF LooksUp, ReadsTo
<1> QED BY <1>1, <1>7, <1>8, <1>9, Zenon

LEMMA CutModRm ==
  ASSUME NEW spec, NEW j, Encoded(spec, j), IsFound(spec, j), HasRead(spec, j, TRUE),
         CutSoFar(spec, j, phase, rest, instruction, specification), ConsumeModRmAndSIBIfNeeded
  PROVE  CutSoFar(spec, j, phase', rest', instruction', specification')
<1>1. CASE Fail
  BY <1>1 DEF Fail, CutSoFar
<1>2. phase = "modrm" /\ AtModRM(spec, j, TRUE, rest, instruction)
  BY DEF ConsumeModRmAndSIBIfNeeded, HasRead, ReadSoFar
<1>3. OnlyOpcode(spec, j, instruction)
  BY <1>2, Zenon DEF AtModRM, OnlyOpcode
<1>4. CASE ~Fail
  <2>1. instruction.op = OpcodeWritten(spec, j) /\ specification = ByOpcode(spec, j)
    <3>1. CASE rest = <<>> /\ Database[specification].spec.modrm # "NO"
      BY <1>4, <3>1, ModRmTaken
    <3> QED BY <1>2, <3>1 DEF CutSoFar
  <2>2. Database[specification].spec.modrm = "NO" <=> spec.modrm = "NO"
    BY <2>1, Zenon DEF IsFound
  <2>3. CASE spec.modrm = "NO"
    <3>1. Consume(0, instruction, "imm")
      BY <2>2, <2>3, Zenon DEF ConsumeModRmAndSIBIfNeeded
    <3>2. instruction' = instruction /\ phase' = "imm" /\ specification' = specification
      BY <3>1, Zenon DEF Consume
    <3>3. Database[specification].spec = spec
      BY <2>1, <2>3, Zenon DEF IsFound
    <3>4. instruction.modrm = <<>>
      <4>1. instruction = AfterPrefixes(spec, j, instruction.op, <<>>, <<>>, <<>>, <<>>)
        BY <1>3 DEF OnlyOpcode
      <4> QED BY <4>1 DEF AfterPrefixes, Decoded
    <3> QED BY <2>1, <3>2, <3>3, <3>4 DEF CutSoFar, Recognizes
  <2>4. CASE spec.modrm # "NO"
    <3>1. rest # <<>> /\ LeftOf(rest, TRUE, FromModRM(spec, j, AfterIt(TRUE)))
      BY <1>2, <1>4, <2>1, <2>2, <2>4, ModRmTaken DEF AtModRM
    <3>2. PICK modrm, read, sib, count, disp, i :
            /\ TakesModRm(rest, modrm, read, sib, count, disp)
            /\ i = [instruction EXCEPT !.sib = sib, !.modrm = <<[modrm EXCEPT !.disp = disp]>>]
            /\ ReadsTo(i, GetEncodingSpecification(i, TRUE))
      BY <1>4, <2>2, <2>4, ModRmTaken, Zenon
    <3>3. TookModRm(spec, j, TRUE, rest, modrm, read, sib, count, disp)
      <4>1. TRUE \in BOOLEAN
        OBVIOUS
      <4> QED BY <2>4, <3>1, <3>2, <4>1, ModRmReadBack
    <3>4. PICK one : one = <<[modrm EXCEPT !.disp = disp]>>
      OBVIOUS
    <3>5. sib = j.sib /\ one = ModRmRead(j)
      BY <3>3, <3>4, Zenon DEF TookModRm
    <3>6. i = ReadTo(spec, j, <<>>, <<>>) /\ i.op = instruction.op
      <4>1. ModRmSet(spec, j, instruction, sib, one)
        BY <1>3, ModRmIsSet
      <4> QED BY <2>1, <3>2, <3>4, <3>5, <4>1, Zenon DEF ModRmSet, ReadTo
    <3>7. GetEncodingSpecification(i, TRUE) = ByModRm(spec, j) /\ Database[ByModRm(spec, j)].spec = spec
      BY <2>4, <3>6, Zenon DEF ByModRm, IsFound
    <3>8. specification' = ByModRm(spec, j) /\ instruction' = i /\ phase' = "imm"
      BY <3>2, <3>7, Zenon DEF ReadsTo
    <3>9. phase' # "modrm"
      BY <3>8
    <3> QED BY <2>1, <2>4, <3>6, <3>7, <3>8, <3>9, Zenon DEF CutSoFar, Recognizes
  <2> QED BY <2>3, <2>4
<1> QED BY <1>1, <1>4

\* The functions behind the ModR/M byte keep what the instruction was recognized by.
Behind == ConsumeImmediateValuesIfNeeded \/ ConsumeCodeOffsetIfNeeded \/ ConsumeVexSuffixIfNeeded

LEMMA CutBehind ==
  ASSUME NEW spec, NEW j, Shaped(instruction), CutSoFar(spec, j, phase, rest, instruction, specification), Behind
  PROVE  CutSoFar(spec, j, phase', rest', instruction', specification')
<1>1. CASE Fail
  BY <1>1 DEF Fail, CutSoFar
<1>2. CASE ~Fail
  <2>1. phase \in {"imm", "code", "suffix"}
    BY DEF Behind, ConsumeImmediateValuesIfNeeded, ConsumeCodeOffsetIfNeeded, ConsumeVexSuffixIfNeeded
  <2>2. Recognizes(spec, j, specification, instruction)
    BY <2>1 DEF CutSoFar
  <2>3. PICK n, i, next : Consume(n, i, next) /\ SameFields(instruction, i) /\ next # "modrm"
    <3>1. CASE ConsumeImmediateValuesIfNeeded
      <4>1. PICK now, total, imm : /\ now = Database[specification].spec /\ total = UpTo(now, Len(now.imm))
                                   /\ imm = ImmediatesFrom(now, rest)
        OBVIOUS
      <4>2. Consume(total, [instruction EXCEPT !.imm = imm], "code")
        BY <1>2, <3>1, <4>1, Zenon DEF ConsumeImmediateValuesIfNeeded, UpTo, ImmediatesFrom
      <4>3. SameFields(instruction, [instruction EXCEPT !.imm = imm]) /\ "code" # "modrm"
        BY FieldsKept
      <4> QED BY <4>2, <4>3, Zenon
    <3>2. CASE ConsumeCodeOffsetIfNeeded
      <4>1. PICK size, code : size = Database[specification].spec.code /\ code = SubSeq(rest, 1, size)
        OBVIOUS
      <4>2. Consume(size, [instruction EXCEPT !.code = code], "suffix")
        BY <1>2, <3>2, <4>1, Zenon DEF ConsumeCodeOffsetIfNeeded
      <4>3. SameFields(instruction, [instruction EXCEPT !.code = code]) /\ "suffix" # "modrm"
        BY FieldsKept
      <4> QED BY <4>2, <4>3, Zenon
    <3>3. CASE ConsumeVexSuffixIfNeeded
      <4>1. PICK i : i = [MutableVex(instruction) EXCEPT !.vex.suffix = rest[1]]
        OBVIOUS
      <4>2. Consume(0, instruction, "done") \/ Consume(1, i, "done")
        BY <1>2, <3>3, <4>1, Zenon DEF ConsumeVexSuffixIfNeeded
      <4>3. SameFields(instruction, instruction) /\ "done" # "modrm"
        BY DEF SameFields
      <4>4. SameFields(instruction, i)
        BY <4>1, MutableKept
      <4> QED BY <4>2, <4>3, <4>4, Zenon
    <3> QED BY <3>1, <3>2, <3>3 DEF Behind
  <2>4. instruction' = i /\ phase' = next /\ specification' = specification
    BY <2>3, Zenon DEF Consume
  <2>5. Recognizes(spec, j, specification', instruction')
    BY <2>2, <2>3, <2>4, StillRecognized
  <2> QED BY <2>3, <2>4, <2>5 DEF CutSoFar
<1> QED BY <1>1, <1>2

\* The functions before the opcode find nothing yet.
Before == \/ ConsumeSegmentOverridePrefix \/ ConsumeAddressSizeOverridePrefix \/ ConsumePrefixes
          \/ ConsumeVexPrefix \/ ConsumeEvexPrefix
          \/ AddLockOrRepPrefix \/ AddOperandSizeOverridePrefix \/ ParseRexPrefix \/ EndOfPrefixes

LEMMA CutBefore ==
  ASSUME NEW spec, NEW j, Before
  PROVE  CutSoFar(spec, j, phase', rest', instruction', specification')
<1>1. phase' \in {"prefixes", "vex", "evex", "legacy", "opcode", "error"}
  <2>1. CASE ConsumeSegmentOverridePrefix \/ ConsumeAddressSizeOverridePrefix
    BY <2>1, Zenon DEF ConsumeSegmentOverridePrefix, ConsumeAddressSizeOverridePrefix, Consume
  <2>2. CASE ConsumePrefixes
    BY <2>2, Zenon DEF ConsumePrefixes, Consume
  <2>3. CASE ConsumeVexPrefix \/ ConsumeEvexPrefix
    BY <2>3, Zenon DEF ConsumeVexPrefix, ConsumeEvexPrefix, Consume, Fail
  <2>4. CASE AddLockOrRepPrefix \/ AddOperandSizeOverridePrefix
    BY <2>4, Zenon DEF AddLockOrRepPrefix, AddOperandSizeOverridePrefix, Consume, Fail
  <2>5. CASE ParseRexPrefix \/ EndOfPrefixes
    BY <2>5, Zenon DEF ParseRexPrefix, EndOfPrefixes, Consume, Fail
  <2> QED BY <2>1, <2>2, <2>3, <2>4, <2>5 DEF Before
<1> QED BY <1>1 DEF CutSoFar

LEMMA StepIsCut ==
  ASSUME ParserInv, NEW spec, NEW j, Encoded(spec, j), IsFound(spec, j), NoShorter(spec, j), HasRead(spec, j, TRUE),
         CutSoFar(spec, j, phase, rest, instruction, specification), ParserNext
  PROVE  CutSoFar(spec, j, phase', rest', instruction', specification')
<1>1. Shaped(instruction)
  BY DEF ParserInv
<1>2. CASE Before
  BY <1>2, CutBefore
<1>3. CASE ConsumeOpcode
  BY <1>3, CutOpcode
<1>4. CASE ConsumeModRmAndSIBIfNeeded
  BY <1>4, CutModRm
<1>5. CASE Behind
  BY <1>1, <1>5, CutBehind
<1> QED BY <1>2, <1>3, <1>4, <1>5 DEF ParserNext, Before, Behind

\* A call over an encoding that ends too early finds the specification of the instruction or none.
Foundable(spec, j) == Fits(spec, j) /\ IsFound(spec, j) /\ NoShorter(spec, j)
CutInv == stage = "parse" /\ cut /\ Foundable(SpecOf, instr) =>
            CutSoFar(SpecOf, instr, phase, rest, instruction, specification)

LEMMA CutInit == CodecInit => CutInv
<1> SUFFICES ASSUME CodecInit PROVE CutInv
  OBVIOUS
<1>1. stage \in {"assign", "foreign"}
  BY DEF CodecInit
<1> QED BY <1>1 DEF CutInv

LEMMA CutBegins ==
  ASSUME ParserInv, ParseAll \/ ParseCut
  PROVE  CutInv'
<1>1. stage = "encoded" /\ phase' = phase
  BY DEF ParseAll, ParseCut
<1>2. phase' = "prefixes"
  BY <1>1 DEF ParserInv, Parsing
<1>3. CutSoFar(SpecOf, instr, phase, rest, instruction, specification)'
  BY <1>2 DEF CutSoFar
<1> QED BY <1>3 DEF CutInv

LEMMA CutParse ==
  ASSUME ReadInv, ClientInv, ParserInv, CutInv, Parse
  PROVE  CutInv'
<1>1. ParserNext /\ UNCHANGED clientVars
  BY DEF Parse
<1>2. cut' = cut /\ stage' = stage /\ entry' = entry /\ instr' = instr
  BY <1>1 DEF clientVars
<1>3. SpecOf' = SpecOf
  BY <1>2 DEF SpecOf
<1>4. ASSUME stage = "parse", cut, Foundable(SpecOf, instr)
      PROVE  CutSoFar(SpecOf, instr, phase', rest', instruction', specification')
  <2>1. cut = TRUE /\ HasRead(SpecOf, instr, cut) /\ Validate(SpecOf, instr)
    BY <1>4 DEF ReadInv, Foundable
  <2>2. CutSoFar(SpecOf, instr, phase, rest, instruction, specification) /\ HasRead(SpecOf, instr, TRUE)
    BY <1>4, <2>1 DEF CutInv
  <2>3. Encoded(SpecOf, instr) /\ IsFound(SpecOf, instr) /\ NoShorter(SpecOf, instr)
    BY <1>4, <2>1, ClientEncoded DEF Foundable
  <2> QED BY <1>1, <2>2, <2>3, StepIsCut
<1>5. /\ Foundable(SpecOf, instr)' = Foundable(SpecOf, instr)
      /\ CutSoFar(SpecOf, instr, phase, rest, instruction, specification)' =
           CutSoFar(SpecOf, instr, phase', rest', instruction', specification')
  BY <1>2, <1>3, Zenon
<1> QED BY <1>2, <1>4, <1>5, Zenon DEF CutInv

LEMMA CutNext == ReadInv /\ ClientInv /\ ParserInv /\ CutInv /\ [CodecNext]_vars => CutInv'
<1> SUFFICES ASSUME ReadInv, ClientInv, ParserInv, CutInv, [CodecNext]_vars PROVE CutInv'
  OBVIOUS
<1>1. CASE AssignRegister \/ AssignMemory \/ EncodeInstruction
  <2>1. stage' # "parse"
    BY <1>1, NotParsedYet
  <2> QED BY <2>1 DEF CutInv
<1>2. CASE ParseAll \/ ParseCut
  BY <1>2, CutBegins
<1>3. CASE Parse
  BY <1>3, CutParse
<1>4. CASE UNCHANGED vars
  <2>1. /\ cut' = cut /\ stage' = stage /\ entry' = entry /\ instr' = instr
        /\ rest' = rest /\ instruction' = instruction /\ specification' = specification /\ phase' = phase
    BY <1>4 DEF vars, clientVars, parserVars
  <2>2. SpecOf' = SpecOf
    BY <2>1 DEF SpecOf
  <2>3. /\ Foundable(SpecOf, instr)' = Foundable(SpecOf, instr)
        /\ CutSoFar(SpecOf, instr, phase, rest, instruction, specification)' =
             CutSoFar(SpecOf, instr, phase, rest, instruction, specification)
    BY <2>1, <2>2, Zenon
  <2> QED BY <2>1, <2>3, Zenon DEF CutInv
<1> QED BY <1>1, <1>2, <1>3, <1>4 DEF CodecNext, HasReturned

\* A call over a beginning of the encoding of such an instruction finds its specification, or no
\* specification, or one whose ModR/M byte is not there.
THEOREM BeginningsAreNotFound == CodecSpec => []CutInv
<1>1. CodecInit => CutInv
  BY CutInit
<1>2. ReadInv /\ ClientInv /\ ParserInv /\ CutInv /\ [CodecNext]_vars => CutInv'
  BY CutNext
<1> QED BY <1>1, <1>2, ReadInvariance, ParserInvariance, PTL DEF CodecSpec

\* ConsumeBinaryEncoding refuses every beginning of the encoding of an instruction that it finds, of
\* whose opcode no shorter beginning is an opcode that needs no byte behind it.
THEOREM BeginningsAreRefused == CodecSpec => [](Foundable(SpecOf, instr) => TruncatedIsRefused)
<1>1. ReadInv /\ ClientInv /\ CutInv => (Foundable(SpecOf, instr) => TruncatedIsRefused)
  <2> SUFFICES ASSUME ReadInv, ClientInv, CutInv, Foundable(SpecOf, instr), cut, phase = "done" PROVE FALSE
    BY DEF TruncatedIsRefused
  <2>1. stage = "parse"
    BY DEF ReadInv, Parsing
  <2>2. ReadBack
    BY <2>1 DEF CutInv, CutSoFar, ReadBack, Foundable
  <2> QED BY <2>1, <2>2, AtTheEnd
<1> QED BY <1>1, BeginningsAreNotFound, ReadInvariance, ParserInvariance, PTL

-----------------------------------------------------------------------------
(* What a client assigned is in the fields of its instruction.               *)

LEMMA SetsHolds ==
  ASSUME NEW n, OperandsAreApart(n), NEW i \in DecodedInstruction, NEW ops, ops = Database[n].ops,
         NEW a, DOMAIN a = DOMAIN ops, Holds(n, i, a), NEW p \in DOMAIN ops, NEW enc, enc = ops[p].enc,
         NEW call, NEW what, Sets(i, call, enc, what), NEW b, b = IF call.ok THEN [a EXCEPT ![p] = what] ELSE a
  PROVE  Holds(n, call.inst, b)
<1>1. PICK spec, s : spec = Database[n].spec /\ s = call.inst
  OBVIOUS
<1>2. CASE ~call.ok
  <2>1. s = i /\ b = a
    BY <1>1, <1>2 DEF Sets
  <2> QED BY <1>1, <2>1
<1>3. CASE call.ok
  <2>1. enc \in EncodedIn /\ Writes(i, s, enc, what) /\ b = [a EXCEPT ![p] = what]
    BY <1>1, <1>3, Zenon DEF Sets
  <2>2. HasOperandWithEncoding(ops, enc)
    BY DEF HasOperandWithEncoding
  <2>3. /\ \A q \in DOMAIN ops : ops[q].enc = enc => q = p
        /\ HasOperandWithEncoding(ops, "OPCODE") => spec.type = "legacy" /\ ~HasOperandWithEncoding(ops, "MODRM_RM")
        /\ HasOperandWithEncoding(ops, "VEX_V") => spec.type # "legacy"
        /\ HasOperandWithEncoding(ops, "VEX_SUFFIX") => spec.type # "legacy"
    BY <1>1, <2>1, Zenon DEF OperandsAreApart
  <2>4. CASE spec.type = "EVEX"
    <3>1. enc # "OPCODE"
      BY <2>2, <2>3, <2>4
    <3>2. s.kind # "EVEX"
      BY <2>1, <3>1 DEF Writes
    <3> QED BY <1>1, <2>4, <3>2, Zenon DEF Holds
  <2>5. CASE spec.type # "EVEX"
    <3>1. /\ i.kind = spec.type /\ AreHeld(ops, i, a)
          /\ HasOperandWithEncoding(ops, "OPCODE") => ExtensionBit(i, "b") = 0
      BY <1>1, <2>5, Zenon DEF Holds
    <3>2. i.kind \in {"legacy", "VEX"}
      BY <2>5, <3>1 DEF DecodedInstruction
    <3>3. Suits(i, enc)
      BY <2>2, <2>3, <2>5, <3>1, <3>2 DEF Suits
    <3>4. PICK f, g : f = FieldsOf(i) /\ g = FieldsOf(s)
      OBVIOUS
    <3>5. s.kind = i.kind /\ OnlyIn(enc, f, g) /\ OperandOf(g, enc) = what
      BY <2>1, <3>3, <3>4 DEF Writes, Puts
    <3>6. ASSUME HasOperandWithEncoding(ops, "OPCODE") PROVE ExtensionBit(s, "b") = 0
      <4>1. enc # "MODRM_RM"
        BY <2>2, <2>3, <3>6
      <4>2. g.b = f.b
        BY <3>5, <4>1 DEF OnlyIn
      <4>3. g.b = ExtensionBit(s, "b") /\ f.b = ExtensionBit(i, "b")
        BY <3>4 DEF FieldsOf, Fields
      <4> QED BY <3>1, <3>6, <4>2, <4>3
    <3>7. AreHeld(ops, s, b)
      <4> SUFFICES ASSUME NEW q \in DOMAIN ops, b[q] # <<>>
                   PROVE  ops[q].enc \in EncodedIn /\ OperandOf(g, ops[q].enc) = b[q]
        BY <3>4, Zenon DEF AreHeld
      <4>1. CASE q = p
        <5>1. b[q] = what
          BY <2>1, <4>1
        <5> QED BY <2>1, <3>5, <4>1, <5>1
      <4>2. CASE q # p
        <5>1. b[q] = a[q]
          BY <2>1, <4>2
        <5>2. PICK other \in EncodedIn : other = ops[q].enc /\ OperandOf(f, other) = a[q]
          BY <3>1, <3>4, <5>1, Zenon DEF AreHeld
        <5>3. other # enc
          BY <2>3, <4>2, <5>2
        <5>4. HasOperandWithEncoding(ops, other)
          BY <5>2, Zenon DEF HasOperandWithEncoding
        <5>5. ~(enc = "OPCODE" /\ other = "MODRM_RM") /\ ~(enc = "MODRM_RM" /\ other = "OPCODE")
          BY <2>2, <2>3, <5>4
        <5>6. OperandOf(g, other) = OperandOf(f, other)
          BY <2>1, <3>5, <5>3, <5>5, OthersKeep
        <5> QED BY <5>1, <5>2, <5>6
      <4> QED BY <4>1, <4>2
    <3>8. s.kind # "EVEX"
      BY <2>5, <3>1, <3>5
    <3> QED BY <1>1, <3>1, <3>5, <3>6, <3>7, <3>8, Zenon DEF Holds
  <2> QED BY <2>4, <2>5
<1> QED BY <1>2, <1>3

LEMMA AssignedInit == CodecInit => AssignedInv
<1> SUFFICES ASSUME CodecInit PROVE AssignedInv
  OBVIOUS
<1>1. entry \in DOMAIN Database /\ assigned = [p \in DOMAIN OpsOf |-> <<>>]
  BY DEF CodecInit
<1>2. DOMAIN assigned = DOMAIN OpsOf /\ \A p \in DOMAIN OpsOf : assigned[p] = <<>>
  BY <1>1
<1>3. ASSUME OperandsAreApart(entry), stage # "foreign" PROVE Holds(entry, instr, assigned)
  <2>1. PICK i \in Database[entry].starts : instr = WithImmediates(SpecOf, i)
    BY <1>3 DEF CodecInit
  <2>2. i \in DecodedInstruction
    BY <1>1, <2>1, DatabaseTypes
  <2>3. PICK imm, code : instr = [i EXCEPT !.imm = imm, !.code = code]
    BY <2>1, Zenon DEF WithImmediates
  <2>4. instr.kind = i.kind /\ instr.leg = i.leg /\ instr.vex = i.vex
    BY <2>2, <2>3 DEF DecodedInstruction
  <2>5. PICK spec, ops : spec = Database[entry].spec /\ ops = Database[entry].ops /\ ops = OpsOf
    BY DEF OpsOf
  <2>6. /\ HasOperandWithEncoding(ops, "OPCODE") => spec.type = "legacy" /\ i.leg.rex.b = 0
        /\ spec.type # "EVEX" => i.kind = spec.type
    BY <1>3, <2>1, <2>5, Zenon DEF OperandsAreApart
  <2>7. ASSUME HasOperandWithEncoding(ops, "OPCODE") PROVE ExtensionBit(instr, "b") = 0
    <3>1. i.kind = "legacy" /\ i.leg.rex.b = 0
      BY <2>6, <2>7
    <3> QED BY <2>4, <3>1 DEF ExtensionBit
  <2>8. AreHeld(ops, instr, assigned)
    BY <1>2, <2>5 DEF AreHeld
  <2> QED BY <1>2, <2>4, <2>5, <2>6, <2>7, <2>8, Zenon DEF Holds
<1> QED BY <1>2, <1>3 DEF AssignedInv

LEMMA AssignKeeps ==
  ASSUME AssignedInv, ClientInv, NEW p \in DOMAIN OpsOf, NEW call, NEW what, Assign(p, call, what),
         ArgumentsFit => Sets(instr, call, OpsOf[p].enc, what)
  PROVE  AssignedInv'
<1>1. /\ stage = "assign" /\ stage' = stage /\ entry' = entry /\ instr' = call.inst
      /\ assigned' = IF call.ok THEN [assigned EXCEPT ![p] = what] ELSE assigned
  BY DEF Assign, Returned
<1>2. OpsOf' = OpsOf /\ ArgumentsFit' = ArgumentsFit
  BY <1>1 DEF OpsOf, ArgumentsFit, Registers
<1>3. DOMAIN assigned' = DOMAIN assigned /\ DOMAIN assigned = DOMAIN OpsOf
  BY <1>1 DEF AssignedInv
<1>4. ASSUME OperandsAreApart(entry), ArgumentsFit PROVE Holds(entry, instr', assigned')
  <2>1. Holds(entry, instr, assigned)
    BY <1>1, <1>4 DEF AssignedInv
  <2>2. PICK n, a, b : n = entry /\ a = assigned /\ b = assigned'
    OBVIOUS
  <2>3. PICK i \in DecodedInstruction : i = instr
    BY DEF ClientInv
  <2>4. PICK ops : ops = OpsOf /\ ops = Database[n].ops
    BY <2>2 DEF OpsOf
  <2>5. PICK enc : enc = ops[p].enc
    OBVIOUS
  <2>6. Holds(n, call.inst, b)
    BY <1>1, <1>3, <1>4, <2>1, <2>2, <2>3, <2>4, <2>5, SetsHolds
  <2> QED BY <1>1, <2>2, <2>6
<1>5. (OperandsAreApart(entry) /\ ArgumentsFit => Holds(entry, instr, assigned))'
  BY <1>1, <1>2, <1>4, Zenon
<1> QED BY <1>2, <1>3, <1>5 DEF AssignedInv

LEMMA AssignedNext == AssignedInv /\ ClientInv /\ ReadInv /\ [CodecNext]_vars => AssignedInv'
<1> SUFFICES ASSUME AssignedInv, ClientInv, ReadInv, [CodecNext]_vars PROVE AssignedInv'
  OBVIOUS
<1>1. PICK i \in DecodedInstruction : i = instr
  BY DEF ClientInv
<1> DEFINE ops == OpsOf
<1>2. CASE AssignRegister
  <2>1. PICK p \in AssignableOperands(OpsOf), r \in Registers :
          Assign(p, SetOperandToRegister(OpsOf, p, r, instr), <<"register", r>>)
    BY <1>2 DEF AssignRegister
  <2>2. ASSUME ArgumentsFit PROVE Sets(i, SetOperandToRegister(ops, p, r, i), ops[p].enc, <<"register", r>>)
    BY <1>1, <2>1, <2>2, RegisterSets DEF ArgumentsFit
  <2>3. p \in DOMAIN OpsOf
    BY DEF AssignableOperands
  <2> QED BY <1>1, <2>1, <2>2, <2>3, AssignKeeps
<1>3. CASE AssignMemory
  <2>1. PICK p \in GetMemoryOperandPosition(OpsOf), r \in Registers, d \in SmallDisplacements,
             a \in LargeDisplacements :
          \/ Assign(p, SetOperandToMemoryAbsolute(OpsOf, a, instr), <<"absolute", a>>)
          \/ Assign(p, SetOperandToMemoryBase(OpsOf, r, instr), <<"base", r>>)
          \/ Assign(p, SetOperandToMemoryBaseSib(OpsOf, r, instr), <<"base", r>>)
          \/ Assign(p, SetOperandToMemoryRelativeToRip(OpsOf, a, instr), <<"rip", a>>)
          \/ Assign(p, SetOperandToMemoryBaseAndDisplacement(OpsOf, r, d, 8, instr), <<"base", r, d>>)
          \/ Assign(p, SetOperandToMemoryBaseAndDisplacement(OpsOf, r, a, 32, instr), <<"base", r, a>>)
    BY <1>3, Zenon DEF AssignMemory
  <2>2. d \in Int /\ a \in Int
    BY CodecAssumption
  <2>3. p \in DOMAIN OpsOf /\ OpsOf[p].enc = "MODRM_RM"
    BY DEF GetMemoryOperandPosition
  <2>4. ASSUME NEW call, NEW what, Assign(p, call, what), ArgumentsFit => Sets(instr, call, "MODRM_RM", what)
        PROVE  AssignedInv'
    BY <2>3, <2>4, AssignKeeps
  <2>5. Sets(i, SetOperandToMemoryAbsolute(ops, a, i), "MODRM_RM", <<"absolute", a>>)
    BY <2>2, AbsoluteSets
  <2>6. Sets(i, SetOperandToMemoryBase(ops, r, i), "MODRM_RM", <<"base", r>>)
    BY BaseSets
  <2>7. Sets(i, SetOperandToMemoryBaseSib(ops, r, i), "MODRM_RM", <<"base", r>>)
    BY BaseSibSets
  <2>8. Sets(i, SetOperandToMemoryRelativeToRip(ops, a, i), "MODRM_RM", <<"rip", a>>)
    BY <2>2, RipSets
  <2>9. ASSUME ArgumentsFit
        PROVE  Sets(i, SetOperandToMemoryBaseAndDisplacement(ops, r, d, 8, i), "MODRM_RM", <<"base", r, d>>)
    <3>1. d \in -128..127 /\ 8 \in {8, 32}
      BY <2>9 DEF ArgumentsFit
    <3> QED BY <2>2, <3>1, BaseAndDisplacementSets
  <2>10. Sets(i, SetOperandToMemoryBaseAndDisplacement(ops, r, a, 32, i), "MODRM_RM", <<"base", r, a>>)
    <3>1. 32 \in {8, 32} /\ ~(32 = 8)
      OBVIOUS
    <3> QED BY <2>2, <3>1, BaseAndDisplacementSets
  <2> QED BY <1>1, <2>1, <2>4, <2>5, <2>6, <2>7, <2>8, <2>9, <2>10, Zenon
<1>4. CASE UNCHANGED <<entry, instr, assigned>> /\ (stage = "foreign" <=> stage' = "foreign")
  <2>1. OpsOf' = OpsOf /\ ArgumentsFit' = ArgumentsFit
    BY <1>4 DEF OpsOf, ArgumentsFit, Registers
  <2>2. ASSUME (OperandsAreApart(entry))' PROVE OperandsAreApart(entry)
    BY <1>4, <2>2
  <2>3. ASSUME Holds(entry, instr, assigned) PROVE (Holds(entry, instr, assigned))'
    BY <1>4, <2>3
  <2> QED BY <1>4, <2>1, <2>2, <2>3, Zenon DEF AssignedInv
<1>5. CASE ~AssignRegister /\ ~AssignMemory
  <2>1. UNCHANGED <<entry, instr, assigned>> /\ (stage = "foreign" <=> stage' = "foreign")
    BY <1>5 DEF CodecNext, EncodeInstruction, ParseAll, ParseCut, Parse, HasReturned, vars, clientVars
  <2> QED BY <1>4, <2>1
<1> QED BY <1>2, <1>3, <1>5

\* Whatever calls a client makes, in whatever order, accepted and refused, the fields of its instruction
\* name the operands that the last accepted calls assigned, when no two operands share a field.
THEOREM AssignedOperandsAreHeld == CodecSpec => []AssignedInv
<1>1. CodecInit => AssignedInv
  BY AssignedInit
<1>2. AssignedInv /\ ClientInv /\ ReadInv /\ [CodecNext]_vars => AssignedInv'
  BY AssignedNext
<1> QED BY <1>1, <1>2, ReadInvariance, ParserInvariance, PTL DEF CodecSpec

-----------------------------------------------------------------------------
(* What the parser returns names the operands that the client's instruction  *)
(* holds.                                                                    *)

LEMMA WhatIsRead ==
  ASSUME ReadInv, stage = "parse", phase = "done", ReadBack
  PROVE  instruction = WithSuffix(SpecOf, instr)
<1>1. HasRead(SpecOf, instr, cut)
  BY DEF ReadInv, ReadBack
<1>2. AtEnd(SpecOf, instr, cut, rest, instruction)
  BY <1>1 DEF HasRead, ReadSoFar, ReadBack
<1> QED BY <1>2 DEF AtEnd, WithSuffix

\* The parts that a register or a memory operand is read from; a displacement is read with its sign.
LEMMA ReadParts ==
  ASSUME NEW spec, NEW i \in DecodedInstruction, i.kind = spec.type, spec.type # "EVEX",
         NEW j, j = WithSuffix(spec, i), NEW m, m = ModRmOf(i)
  PROVE  /\ j.op = OpcodeWritten(spec, i)
         /\ ModRmOf(j).mod = m.mod /\ ModRmOf(j).reg = m.reg /\ ModRmOf(j).rm = m.rm /\ ModRmOf(j).disp = DispRead(i)
         /\ SibOf(j) = SibOf(i)
         /\ \A e \in {"b", "r", "x"} : ExtensionBit(j, e) = ExtensionBit(i, e)
         /\ j.vex.suffix = i.vex.suffix
         /\ spec.type # "legacy" /\ spec.vex.usage # "NOT_USED" => j.vex.v = i.vex.v
<1>1. PICK vex \in VexOrEvexPrefix : vex = i.vex
  BY DEF DecodedInstruction
<1>2. PICK new : new = [VexRead(spec, i) EXCEPT !.suffix = i.vex.suffix]
  OBVIOUS
<1>3. PICK v : VexRead(spec, i) = [vex EXCEPT !.v = v, !.suffix = 0]
               /\ (spec.type # "legacy" /\ spec.vex.usage # "NOT_USED" => v = vex.v)
  BY <1>1 DEF VexRead, VexOrEvexPrefix
<1>4. /\ new.nr = vex.nr /\ new.suffix = vex.suffix /\ new.v = v
      /\ \A x \in {"nb", "nr", "nx"} : new[x] = vex[x]
  BY <1>1, <1>2, <1>3 DEF VexOrEvexPrefix
<1>5. /\ j.kind = spec.type /\ j.leg = LegRead(i) /\ j.vex = new /\ j.op = OpcodeWritten(spec, i)
      /\ j.modrm = ModRmRead(i) /\ j.sib = i.sib
  <2>1. PICK leg, op, modrm, seg, addr, kind, imm, code, sib :
          /\ leg = LegRead(i) /\ op = OpcodeWritten(spec, i) /\ modrm = ModRmRead(i) /\ seg = i.seg /\ addr = i.addr
          /\ kind = spec.type /\ imm = i.imm /\ code = i.code /\ sib = i.sib
    OBVIOUS
  <2>2. j = Decoded(kind, leg, new, seg, addr, op, modrm, sib, imm, code)
    BY <1>2, <2>1, Zenon DEF WithSuffix
  <2> QED BY <2>1, <2>2, DecodedFields
<1>6. j.leg.rex = i.leg.rex
  BY <1>5 DEF LegRead
<1>7. \A e \in {"b", "x"} : Inverted[e] \in {"nb", "nr", "nx"}
  BY DEF Inverted
<1>8. ASSUME NEW e \in {"b", "r", "x"} PROVE ExtensionBit(j, e) = ExtensionBit(i, e)
  <2>1. CASE j.kind = "legacy"
    BY <1>5, <1>6, <2>1, Zenon DEF ExtensionBit
  <2>2. CASE j.kind # "legacy" /\ e = "r"
    BY <1>1, <1>4, <1>5, <2>2, Zenon DEF ExtensionBit
  <2>3. CASE j.kind # "legacy" /\ e # "r"
    <3>1. new[Inverted[e]] = vex[Inverted[e]]
      BY <1>4, <1>7, <2>3
    <3> QED BY <1>1, <1>5, <2>3, <3>1, Zenon DEF ExtensionBit
  <2> QED BY <2>1, <2>2, <2>3
<1>9. SibOf(j) = SibOf(i)
  BY <1>5, Zenon DEF SibOf
<1>10. ModRmOf(j).mod = m.mod /\ ModRmOf(j).reg = m.reg /\ ModRmOf(j).rm = m.rm /\ ModRmOf(j).disp = DispRead(i)
  <2>1. CASE i.modrm = <<>>
    <3>1. j.modrm = <<>> /\ m = DefaultModRm
      BY <1>5, <2>1 DEF ModRmRead, ModRmOf
    <3>2. ModRmOf(j) = m /\ m.disp = 0 /\ m.mod = 0 /\ m.rm = 0
      BY <3>1 DEF ModRmOf, DefaultModRm
    <3>3. PICK sib : sib = SibOf(i)
      OBVIOUS
    <3>4. NumModRmDisplacementBytes(m, sib) = 0
      BY <3>2 DEF NumModRmDisplacementBytes
    <3>5. DispRead(i) = 0
      BY <3>3, <3>4 DEF DispRead
    <3> QED BY <3>2, <3>5
  <2>2. CASE i.modrm # <<>>
    <3>1. i.modrm[1] = m /\ m \in ModRm
      BY <2>2, ModRmOfType DEF ModRmOf
    <3>2. PICK disp, n : disp = DispRead(i) /\ n = [m EXCEPT !.disp = disp]
      OBVIOUS
    <3>3. j.modrm = <<n>>
      BY <1>5, <2>2, <3>1, <3>2 DEF ModRmRead
    <3>4. ModRmOf(j) = n
      BY <3>3 DEF ModRmOf
    <3>5. n.mod = m.mod /\ n.reg = m.reg /\ n.rm = m.rm /\ n.disp = disp
      BY <3>1, <3>2 DEF ModRm
    <3> QED BY <3>2, <3>4, <3>5
  <2> QED BY <2>1, <2>2
<1> QED BY <1>1, <1>3, <1>4, <1>5, <1>8, <1>9, <1>10

\* The displacement that is read is the one that the fields of the instruction show.
LEMMA ReadMemory ==
  ASSUME NEW i \in DecodedInstruction, NEW j, NEW m, m = ModRmOf(i), NEW f, f = FieldsOf(i),
         ModRmOf(j).mod = m.mod, ModRmOf(j).rm = m.rm, ModRmOf(j).disp = DispRead(i), SibOf(j) = SibOf(i),
         \A e \in {"b", "r", "x"} : ExtensionBit(j, e) = ExtensionBit(i, e), m.mod # Direct
  PROVE  MemoryOperand(j) = MemoryOf(f)
<1>1. PICK sib, b, x, disp : sib = SibOf(i) /\ b = ExtensionBit(i, "b") /\ x = ExtensionBit(i, "x") /\ disp = DispRead(i)
  OBVIOUS
<1>2. f.m = m /\ f.sib = sib /\ f.b = b /\ f.x = x
  BY <1>1 DEF FieldsOf, Fields
<1>3. m \in ModRm
  BY ModRmOfType
<1>4. m.mod \in {0, 1, 2}
  BY <1>3 DEF ModRm, Direct
<1>5. \A bits : WithExtension(j, "b", bits) = bits + 8 * b /\ WithExtension(j, "x", bits) = bits + 8 * x
  <2>1. ExtensionBit(j, "b") = b /\ ExtensionBit(j, "x") = x
    BY <1>1
  <2> QED BY <2>1 DEF WithExtension, ExtensionBit
<1>6. PICK n : n = NumModRmDisplacementBytes(m, sib)
  OBVIOUS
<1>7. disp = CASE n = 0 -> 0 [] n = 1 -> SignedByte(m.disp % 256) [] n = 4 -> m.disp
  BY <1>1, <1>6, Zenon DEF DispRead
<1>8. CASE m.rm = 4 /\ sib.index + 8 * x # 4
  <2>1. MemoryOperand(j) = <<"indexed">>
    BY <1>1, <1>5, <1>8 DEF MemoryOperand
  <2>2. MemoryOf(f) = <<"indexed">>
    BY <1>2, <1>8 DEF MemoryOf
  <2> QED BY <2>1, <2>2
<1>9. CASE ~(m.rm = 4 /\ sib.index + 8 * x # 4)
  <2>1. PICK base : base = (IF m.rm = 4 THEN sib.base ELSE m.rm) + 8 * b
    OBVIOUS
  <2>2. WithExtension(j, "b", IF m.rm = 4 THEN sib.base ELSE m.rm) = base
    BY <1>5, <2>1
  <2>3. MemoryOperand(j) = IF m.mod = 0 /\ m.rm = 4 /\ sib.base = 5 THEN <<"absolute", disp>>
                           ELSE IF m.mod = 0 THEN IF m.rm = 5 THEN <<"rip", disp>> ELSE <<"base", base>>
                           ELSE <<"base", base, disp>>
    <3>1. WithExtension(j, "x", sib.index) = sib.index + 8 * x
      BY <1>5
    <3> QED BY <1>1, <1>9, <2>2, <3>1, Zenon DEF MemoryOperand
  <2>4. MemoryOf(f) = IF m.mod = 0 /\ m.rm = 4 /\ sib.base = 5 THEN <<"absolute", m.disp>>
                      ELSE IF m.mod = 0 THEN IF m.rm = 5 THEN <<"rip", m.disp>> ELSE <<"base", base>>
                      ELSE <<"base", base, IF m.mod = 1 THEN SignedByte(m.disp % 256) ELSE m.disp>>
    BY <1>2, <1>9, <2>1, ZenonT(40) DEF MemoryOf
  <2>5. CASE m.mod = 0 /\ (m.rm = 5 \/ (m.rm = 4 /\ sib.base = 5))
    <3>1. n = 4
      BY <1>6, <2>5 DEF NumModRmDisplacementBytes
    <3>2. disp = m.disp
      BY <1>7, <3>1
    <3> QED BY <2>3, <2>4, <2>5, <3>2
  <2>6. CASE m.mod = 0 /\ ~(m.rm = 5 \/ (m.rm = 4 /\ sib.base = 5))
    BY <2>3, <2>4, <2>6
  <2>7. CASE m.mod = 1
    <3>1. n = 1
      BY <1>6, <2>7 DEF NumModRmDisplacementBytes
    <3>2. disp = SignedByte(m.disp % 256)
      BY <1>7, <3>1
    <3> QED BY <2>3, <2>4, <2>7, <3>2
  <2>8. CASE m.mod = 2
    <3>1. n = 4
      BY <1>6, <2>8 DEF NumModRmDisplacementBytes
    <3>2. disp = m.disp
      BY <1>7, <3>1
    <3> QED BY <2>3, <2>4, <2>8, <3>2
  <2> QED BY <1>4, <2>5, <2>6, <2>7, <2>8
<1> QED BY <1>8, <1>9

LEMMA ReadOperand ==
  ASSUME NEW n \in DOMAIN Database, n = entry, OperandsAreApart(n), NEW spec, spec = Database[n].spec,
         NEW i \in DecodedInstruction, i.kind = spec.type, spec.type # "EVEX",
         NEW j, j = WithSuffix(spec, i), NEW p \in DOMAIN OpsOf, NEW enc \in EncodedIn, enc = OpsOf[p].enc
  PROVE  OperandAt(j, p) = OperandOf(FieldsOf(i), enc)
<1>1. PICK m, f : m = ModRmOf(i) /\ f = FieldsOf(i)
  OBVIOUS
<1>2. /\ j.op = OpcodeWritten(spec, i)
      /\ ModRmOf(j).mod = m.mod /\ ModRmOf(j).reg = m.reg /\ ModRmOf(j).rm = m.rm /\ ModRmOf(j).disp = DispRead(i)
      /\ SibOf(j) = SibOf(i)
      /\ \A e \in {"b", "r", "x"} : ExtensionBit(j, e) = ExtensionBit(i, e)
      /\ j.vex.suffix = i.vex.suffix
      /\ spec.type # "legacy" /\ spec.vex.usage # "NOT_USED" => j.vex.v = i.vex.v
  BY <1>1, ReadParts
<1>3. PICK b, r, x : b = ExtensionBit(i, "b") /\ r = ExtensionBit(i, "r") /\ x = ExtensionBit(i, "x")
  OBVIOUS
<1>4. f.m = m /\ f.op = i.op /\ f.b = b /\ f.r = r /\ f.v = i.vex.v /\ f.suffix = i.vex.suffix
  BY <1>1, <1>3 DEF FieldsOf, Fields
<1>5. \A bits : WithExtension(j, "b", bits) = bits + 8 * b /\ WithExtension(j, "r", bits) = bits + 8 * r
  <2>1. ExtensionBit(j, "b") = b /\ ExtensionBit(j, "r") = r
    BY <1>2, <1>3
  <2> QED BY <2>1 DEF WithExtension, ExtensionBit
<1>6. PICK ops : ops = OpsOf /\ ops = Database[n].ops
  BY DEF OpsOf
<1>7. HasOperandWithEncoding(ops, enc)
  BY <1>6, Zenon DEF HasOperandWithEncoding
<1>8. CASE enc = "OPCODE"
  <2>1. OpcodeOf(spec) % 8 = 0
    BY <1>6, <1>7, <1>8, Zenon DEF OperandsAreApart
  <2>2. j.op % 8 = i.op % 8
    <3>1. CASE i.op = 0
      <4>1. j.op % 8 = 0
        BY <1>2, <2>1, <3>1 DEF OpcodeWritten
      <4> QED BY <3>1, <4>1
    <3>2. CASE i.op # 0
      BY <1>2, <3>2 DEF OpcodeWritten
    <3> QED BY <3>1, <3>2
  <2>3. OperandAt(j, p) = <<"register", WithExtension(j, "b", j.op % 8)>>
    BY <1>6, <1>8 DEF OperandAt
  <2>4. OperandOf(f, enc) = <<"register", (i.op % 8) + 8 * b>>
    BY <1>4, <1>8 DEF OperandOf
  <2> QED BY <1>1, <1>5, <2>2, <2>3, <2>4
<1>9. CASE enc = "MODRM_REG"
  <2>1. OperandAt(j, p) = <<"register", WithExtension(j, "r", m.reg)>>
    BY <1>2, <1>6, <1>9 DEF OperandAt
  <2>2. OperandOf(f, enc) = <<"register", m.reg + 8 * r>>
    BY <1>4, <1>9 DEF OperandOf
  <2> QED BY <1>1, <1>5, <2>1, <2>2
<1>10. CASE enc = "MODRM_RM"
  <2>1. OperandAt(j, p) = IF m.mod = Direct THEN <<"register", WithExtension(j, "b", m.rm)>> ELSE MemoryOperand(j)
    BY <1>2, <1>6, <1>10 DEF OperandAt
  <2>2. OperandOf(f, enc) = IF m.mod = Direct THEN <<"register", m.rm + 8 * b>> ELSE MemoryOf(f)
    BY <1>4, <1>10 DEF OperandOf
  <2>3. m.mod # Direct => MemoryOperand(j) = MemoryOf(f)
    BY <1>1, <1>2, ReadMemory
  <2> QED BY <1>1, <1>5, <2>1, <2>2, <2>3
<1>11. CASE enc = "VEX_V"
  <2>1. spec.type # "legacy" /\ spec.vex.usage # "NOT_USED"
    BY <1>6, <1>7, <1>11, Zenon DEF OperandsAreApart
  <2>2. OperandAt(j, p) = <<"register", 15 - (j.vex.v % 16)>>
    BY <1>6, <1>11 DEF OperandAt
  <2>3. OperandOf(f, enc) = <<"register", 15 - (i.vex.v % 16)>>
    BY <1>4, <1>11 DEF OperandOf
  <2> QED BY <1>1, <1>2, <2>1, <2>2, <2>3
<1>12. CASE enc = "VEX_SUFFIX"
  <2>1. OperandAt(j, p) = <<"register", j.vex.suffix \div 16>>
    BY <1>6, <1>12 DEF OperandAt
  <2>2. OperandOf(f, enc) = <<"register", i.vex.suffix \div 16>>
    BY <1>4, <1>12 DEF OperandOf
  <2> QED BY <1>1, <1>2, <2>1, <2>2
<1> QED BY <1>8, <1>9, <1>10, <1>11, <1>12 DEF EncodedIn

\* The bytes name the operands that the last accepted SetOperandTo... calls assigned, whatever the calls and
\* their order, and whatever other instructions are in the database.
THEOREM OperandsAreReadBack ==
  CodecSpec => [](OperandsAreApart(entry) /\ ArgumentsFit /\ Fits(SpecOf, instr) /\ IsFound(SpecOf, instr)
                    => AssignedOperandsAreEncoded)
<1>1. ReadInv /\ ClientInv /\ FoundInv /\ AssignedInv =>
        (OperandsAreApart(entry) /\ ArgumentsFit /\ Fits(SpecOf, instr) /\ IsFound(SpecOf, instr)
           => AssignedOperandsAreEncoded)
  <2> SUFFICES ASSUME ReadInv, ClientInv, FoundInv, AssignedInv, OperandsAreApart(entry), ArgumentsFit,
                      Fits(SpecOf, instr), IsFound(SpecOf, instr), stage = "parse", ~cut, phase = "done",
                      NEW p \in DOMAIN OpsOf, assigned[p] # <<>>
               PROVE  OperandAt(instruction, p) = assigned[p]
    BY DEF AssignedOperandsAreEncoded
  <2>1. Recognizes(SpecOf, instr, specification, instruction)
    BY DEF FoundInv, HasFound, FoundSoFar
  <2>2. instruction = WithSuffix(SpecOf, instr)
    BY <2>1, WhatIsRead DEF ReadBack
  <2>3. PICK n \in DOMAIN Database : n = entry
    BY DEF ClientInv
  <2>4. PICK i \in DecodedInstruction : i = instr
    BY DEF ClientInv
  <2>5. PICK spec : spec = SpecOf /\ spec = Database[n].spec
    BY <2>3 DEF SpecOf
  <2>6. i.kind = spec.type
    BY <2>4, <2>5 DEF Fits
  <2>7. Holds(n, i, assigned)
    BY <2>3, <2>4 DEF AssignedInv
  <2>8. spec.type # "EVEX"
    <3> SUFFICES ASSUME spec.type = "EVEX" PROVE FALSE
      OBVIOUS
    <3>1. assigned[p] = <<>>
      BY <2>3, <2>6, <2>7 DEF Holds, OpsOf
    <3> QED BY <3>1
  <2>9. AreHeld(OpsOf, i, assigned)
    BY <2>3, <2>5, <2>7, <2>8, Zenon DEF Holds, OpsOf
  <2>10. PICK enc \in EncodedIn : enc = OpsOf[p].enc /\ OperandOf(FieldsOf(i), enc) = assigned[p]
    BY <2>9, Zenon DEF AreHeld
  <2>11. OperandAt(instruction, p) = OperandOf(FieldsOf(i), enc)
    BY <2>2, <2>3, <2>4, <2>5, <2>6, <2>8, <2>10, ReadOperand
  <2> QED BY <2>10, <2>11
<1> QED BY <1>1, AssignedOperandsAreHeld, EncodingsAreFound, ReadInvariance, ParserInvariance, PTL
=============================================================================
