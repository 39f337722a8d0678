------------------------------- MODULE SdmPages -------------------------------
(***************************************************************************)
(* Which pages of a manual belong to which group of instructions           *)
(* (CollectInstructionPages of src/exegesis/x86/pdf/intel_sdm_extractor.cc *)
(* and the helpers of util/pdf/pdf_document_utils.cc it reads pages with). *)
(*                                                                         *)
(* A page is [number, rows]; a row is [body, high, title, blocks]: whether *)
(* it is inside of the margins, in the upper 500 pixels, and in a font     *)
(* that titles use, and its blocks from left to right.  The text of a      *)
(* block is a sequence of words; the regular expressions that the code     *)
(* matches it with are equalities, prefixes and suffixes of words here.    *)
(***************************************************************************)
EXTENDS Integers, SequencesExt, FiniteSetsExt

-----------------------------------------------------------------------------
\* Cells.  Rows and columns count from 0; negative ones count from the end.

GetIndex(size, index) ==
  IF index >= size \/ -index > size THEN -1
  ELSE IF index >= 0 THEN index ELSE size + index

\* No block and a block without text are the same to the code modelled here.
GetCellTextOrEmpty(page, row, col) ==
  LET r == GetIndex(Len(page.rows), row)
      blocks == IF r < 0 THEN << >> ELSE page.rows[r + 1].blocks
      c == GetIndex(Len(blocks), col)
  IN IF c < 0 THEN << >> ELSE blocks[c + 1]

GetPageBodyRows(page) == SelectSeq(page.rows, LAMBDA row : row.body)

BeforeWord(text, word) ==
  SubSeq(text, 1, IF Contains(text, word) THEN SelectInSeq(text, LAMBDA w : w = word) - 1
                                          ELSE Len(text))
WithoutAsterisks(text) == SelectSeq(text, LAMBDA w : w # "*")

GetFirstInstructionInGroup(groupName) == BeforeWord(groupName, "/")

\* The outer string of the footer of a page.
GetFooterSectionName(page) ==
  GetCellTextOrEmpty(page, -1, IF page.number % 2 = 0 THEN -1 ELSE 0)

NormalizeName(text) == WithoutAsterisks(text)
SameInstructionName(lhs, rhs) == NormalizeName(lhs) = NormalizeName(rhs)

-----------------------------------------------------------------------------
\* First pages.  Each pattern is about the title, the header of the table and
\* its first row.

MatchesVmxFirstPageBeforeMay2019(rows, name) ==
  /\ rows[2].blocks = << <<"Opcode">>, <<"Instruction">>, <<"Description">> >>
  /\ Len(rows[3].blocks) = 3
  /\ IsPrefix(name, rows[3].blocks[2])

MatchesVmxFirstPageSinceMay2019(rows) ==
  /\ rows[2].blocks = << <<"Opcode/", "Instruction">>, <<"Op/", "En">>, <<"Description">> >>
  /\ Len(rows[3].blocks) = 3

MatchesVmxFirstPage(rows, name) ==
  \/ MatchesVmxFirstPageBeforeMay2019(rows, name)
  \/ MatchesVmxFirstPageSinceMay2019(rows)

\* Where the header and the first row have the five columns of volume 2, the
\* second of them with a header that starts with opEn.
HasFiveColumns(rows, opEn) ==
  /\ \A k \in {2, 3} : Len(rows[k].blocks) = 5
  /\ IsPrefix(<<"Opcode/">>, rows[2].blocks[1])
  /\ IsPrefix(opEn, rows[2].blocks[2])
  /\ IsPrefix(<<"Description">>, rows[2].blocks[5])

NamesLeaf(text, name) == IsSuffix(<<"[">> \o name \o <<"]">>, text)

\* The type of the instruction that the first page of an SGX group describes.
MatchesSgxFirstPage(rows, name) ==
  IF ~HasFiveColumns(rows, <<"Op/", "En">>) THEN "none"
  ELSE LET text == rows[3].blocks[1]
       IN IF IsSuffix(name, text) THEN "SGX"
          ELSE IF NamesLeaf(text, name) THEN "LEAF_SGX" ELSE "none"

\* The type of the group whose first page this is, or "none".
MatchesFirstPagePattern(page, isSgx) ==
  LET text == GetCellTextOrEmpty(page, 1, 0)
      rows == GetPageBodyRows(page)
      name == GetFirstInstructionInGroup(BeforeWord(text, "-"))
  IN IF ~Contains(text, "-") \/ Len(rows) < 3 THEN "none"
     ELSE IF isSgx THEN MatchesSgxFirstPage(rows, name)
     ELSE IF MatchesVmxFirstPage(rows, name) THEN "VMX" ELSE "none"

MatchesFirstPageInExtension(page) ==
  LET text == GetCellTextOrEmpty(page, 1, 0)
      rows == GetPageBodyRows(page)
      name == GetFirstInstructionInGroup(BeforeWord(text, "-"))
  IN /\ Contains(text, "-")
     /\ Len(rows) >= 3
     /\ HasFiveColumns(rows, <<"Op/">>)
     /\ \E k \in 0 .. Len(rows[3].blocks[1]) :
          IsPrefix(name, SubSeq(rows[3].blocks[1], k + 1, Len(rows[3].blocks[1])))

\* "#.#" is a section number.
SeesNewSection(page, prefix) ==
  /\ GetCellTextOrEmpty(page, 1, 0) = <<"#.#">>
  /\ IsPrefix(<<prefix>>, GetCellTextOrEmpty(page, 1, 1))

-----------------------------------------------------------------------------
\* Collecting pages.  A step yields the index of the next page to look at and
\* the group it has found, if any.

NothingAt(i) == [next |-> i + 1, found |-> FALSE]

\* The pages from i, until one that stops.
CollectUntil(pdf, i, name, type, Stop(_)) ==
  LET next == Min({j \in i + 1 .. Len(pdf) : Stop(pdf[j])} \cup {Len(pdf) + 1})
  IN [next |-> next, found |-> TRUE, name |-> name, type |-> type,
      pages |-> SubSeq(pdf, i, next - 1)]

CollectVmxOrSgxInstructions(pdf, i, isSgx) ==
  LET type == MatchesFirstPagePattern(pdf[i], isSgx)
      section == IF isSgx THEN "INTEL SGX" ELSE "VM INSTRUCTION"
  IN IF type = "none" THEN NothingAt(i)
     ELSE CollectUntil(pdf, i, BeforeWord(GetCellTextOrEmpty(pdf[i], 1, 0), "-"), type,
            LAMBDA page : MatchesFirstPagePattern(page, isSgx) # "none" \/ SeesNewSection(page, section))

\* Ends an instruction of the extension document after page "page".
EndsInExtension(page) ==
  \/ ~IsPrefix(<<"INSTRUCTION SET REFERENCE">>, GetCellTextOrEmpty(page, 0, 0))
  \/ ~MatchesFirstPageInExtension(page)

CollectFromInstructionSetExtension(pdf, i) ==
  IF ~MatchesFirstPageInExtension(pdf[i]) THEN NothingAt(i)
  ELSE CollectUntil(pdf, i, BeforeWord(GetCellTextOrEmpty(pdf[i], 1, 0), "-"), "REGULAR", EndsInExtension)

CollectFromTheRest(pdf, i) ==
  LET name == GetCellTextOrEmpty(pdf[i], 1, 0)
      footer == GetFooterSectionName(pdf[i])
  IN IF name = << >> \/ ~pdf[i].rows[2].high THEN NothingAt(i)
     ELSE IF SameInstructionName(name, footer)
     THEN CollectUntil(pdf, i, footer, "REGULAR",
            LAMBDA page : ~SameInstructionName(GetFooterSectionName(page), footer))
     ELSE IF IsPrefix(<<"Ref. #">>, footer) THEN CollectFromInstructionSetExtension(pdf, i)
     ELSE NothingAt(i)

\* What CollectInstructionPages does at page i: the chapter is in the first line.
CollectAt(pdf, i) ==
  LET chapter == GetCellTextOrEmpty(pdf[i], 0, 0)
  IN IF IsPrefix(<<"VMX INSTRUCTION REFERENCE">>, chapter)
     THEN CollectVmxOrSgxInstructions(pdf, i, FALSE)
     ELSE IF Contains(chapter, "SGX INSTRUCTION REFERENCE")
     THEN CollectVmxOrSgxInstructions(pdf, i, TRUE)
     ELSE IF Contains(chapter, "INSTRUCTION SET REFERENCE") THEN CollectFromTheRest(pdf, i)
     ELSE NothingAt(i)
=============================================================================
