------------------------------ MODULE SdmExtractor ------------------------------
(***************************************************************************)
(* From the PDF of the manual to its instruction set: ParseSdmOrDie with   *)
(* one document (src/exegesis/x86/pdf/parse_sdm.cc and                     *)
(* intel_sdm_extractor.cc).                                                *)
(*                                                                         *)
(* The groups are kept in a hash map: they are processed in any order.     *)
(* The leaf functions of an SGX instruction are found as instructions of   *)
(* their own, remembered by their address, and moved into the instruction  *)
(* that dispatches them once all groups have been read.                    *)
(***************************************************************************)
EXTENDS SdmOperands

CONSTANT Manuals   \* the documents: what they describe and their pages

VARIABLES
  manual,        \* the document
  page,          \* the next page of CollectInstructionPages
  idToPages,     \* instruction_group_id_to_pages
  ctx,           \* the ParseContext
  sections,      \* the instruction_sections of the SdmDocument
  relocated,     \* how many entries of sgx_instructions_set_ have been relocated
  instructionSet,
  phase          \* "collect", "read", "relocate", "done" or "died"

sdmVars == <<manual, page, idToPages, ctx, sections, relocated, instructionSet, phase>>

SdmInit ==
  /\ manual \in Manuals
  /\ page = 1
  /\ idToPages = << >>
  /\ ctx = NewParseContext
  /\ sections = << >>
  /\ relocated = 0
  /\ instructionSet = [instructions |-> << >>, groups |-> << >>]
  /\ phase = "collect"

\* A later group of the same name takes the place of the earlier one.
AddAndWarn(map, found) == (found.name :> [type |-> found.type, pages |-> found.pages]) @@ map

CollectInstructionPages ==
  /\ phase = "collect"
  /\ LET step == CollectAt(manual.pages, page)
     IN /\ page' = step.next
        /\ idToPages' = IF step.found THEN AddAndWarn(idToPages, step) ELSE idToPages
        /\ phase' = IF step.next > Len(manual.pages) THEN "read" ELSE "collect"
  /\ UNCHANGED <<manual, ctx, sections, relocated, instructionSet>>

\* One step of the loop of ConvertPdfDocumentToSdmDocument.  A section without
\* instructions is left out, and the next one has its index.
ReadGroup(id) ==
  LET started == [Reset(ctx) EXCEPT !.type = idToPages[id].type, !.section = Len(sections) + 1]
  IN /\ phase = "read"
     /\ \E w \in {ProcessSubSections([ctx |-> started, table |-> NewTable, ok |-> TRUE],
                                     ExtractSubSectionRows(idToPages[id].pages))} :
          /\ ctx' = w.ctx
          /\ sections' = IF w.table.instructions = << >> THEN sections
                         ELSE Append(sections, [id |-> id, instructions |-> w.table.instructions])
          /\ phase' = IF ~w.ok THEN "died" ELSE IF DOMAIN idToPages = {id} THEN "relocate" ELSE "read"
     /\ idToPages' = [other \in DOMAIN idToPages \ {id} |-> idToPages[other]]
     /\ UNCHANGED <<manual, page, relocated, instructionSet>>

ReadNothing ==
  /\ phase = "read" /\ DOMAIN idToPages = {}
  /\ phase' = "relocate"
  /\ UNCHANGED <<manual, page, idToPages, ctx, sections, relocated, instructionSet>>

SgxOrder == <<"ENCLS", "ENCLU", "ENCLV">>
NextEntry == ctx.sgx[SgxOrder[relocated + 1]]

EraseNothing(pointers, owners) == sections
EraseAll(pointers, owners) ==
  [s \in DOMAIN sections |->
    IF s \notin owners THEN sections[s]
    ELSE LET kept == SetToSortSeq({k \in DOMAIN sections[s].instructions : <<s, k>> \notin pointers}, <)
         IN [sections[s] EXCEPT !.instructions = [k \in DOMAIN kept |-> @[kept[k]]]]]

\* One entry of the array: the leaf functions, in the order of a hash set of
\* pointers, are moved into the main instruction and removed from their own
\* sections.
RelocateSgxLeafInstructions(leaves) ==
  LET entry == NextEntry
      erased == EraseAll(entry.leaves, entry.sections)
      moved == [k \in DOMAIN leaves |-> sections[leaves[k][1]].instructions[leaves[k][2]]]
  IN /\ relocated' = relocated + 1
     /\ sections' = IF entry.main = NoInstruction THEN sections
                    ELSE [erased EXCEPT ![entry.main[1]].instructions[entry.main[2]].leaves = @ \o moved]
     /\ UNCHANGED <<manual, page, idToPages, ctx, instructionSet, phase>>

\* Sections in order; every instruction points to the group of its section.
ProcessIntelSdmDocument ==
  /\ phase = "relocate" /\ relocated = Len(SgxOrder)
  /\ instructionSet' =
       [groups |-> [s \in DOMAIN sections |-> sections[s].id],
        instructions |-> FlattenSeq([s \in DOMAIN sections |->
          [k \in DOMAIN sections[s].instructions |-> [group |-> s, of |-> sections[s].instructions[k]]]])]
  /\ phase' = "done"
  /\ UNCHANGED <<manual, page, idToPages, ctx, sections, relocated>>

SdmNext ==
  \/ CollectInstructionPages
  \/ \E id \in DOMAIN idToPages : ReadGroup(id)
  \/ ReadNothing
  \/ /\ phase = "relocate" /\ relocated < Len(SgxOrder)
     /\ \E leaves \in SetToSeqs(NextEntry.leaves) : RelocateSgxLeafInstructions(leaves)
  \/ ProcessIntelSdmDocument

-----------------------------------------------------------------------------
\* A manual describes groups: [name, title, type, entries], an entry being
\* [mnemonic, names, spec, main] with the operands it names, what the operand
\* encoding table says of each, and for a leaf function its main instruction.

Entries == UNION {{<<g, k>> : k \in DOMAIN manual.groups[g].entries} : g \in DOMAIN manual.groups}
Entry(e) == manual.groups[e[1]].entries[e[2]]
IsMoved(e) == \E m \in Entries : Entry(e).main = Entry(m).mnemonic /\ Entry(e).main # << >>

Describes(e, instruction) ==
  /\ instruction.mnemonic = Entry(e).mnemonic
  /\ [k \in DOMAIN instruction.operands |-> instruction.operands[k].name] = Entry(e).names

\* Whatever the order of the hash maps, reading does not fail, and each
\* instruction that the manual describes is in the instruction set once, in
\* the group it is described in, or, if it is a leaf function whose main
\* instruction is described too, once among the leaves of that one.  Nothing
\* else is there.
EveryInstructionOnce ==
  /\ phase # "died"
  /\ phase = "done" =>
       LET out == instructionSet.instructions
           Places(e) == {i \in DOMAIN out : Describes(e, out[i].of)}
           Leaves(e) == UNION {{<<i, k>> : k \in {l \in DOMAIN out[i].of.leaves : Describes(e, out[i].of.leaves[l])}} :
                                 i \in DOMAIN out}
       IN /\ \A e \in Entries :
               IF IsMoved(e)
               THEN /\ Places(e) = {} /\ Cardinality(Leaves(e)) = 1
                    /\ \A l \in Leaves(e) : out[l[1]].of.mnemonic = Entry(e).main
               ELSE /\ Leaves(e) = {} /\ Cardinality(Places(e)) = 1
                    /\ \A i \in Places(e) : instructionSet.groups[out[i].group] = manual.groups[e[1]].name
          /\ Len(out) = Cardinality({e \in Entries : ~IsMoved(e)})

\* The operands of an instruction are encoded and used as the operand encoding
\* table of its own group says of its scheme, whatever groups were read before.
OperandsAreOfTheirTable ==
  phase = "done" =>
    \A e \in Entries : \A i \in DOMAIN instructionSet.instructions :
      LET found == instructionSet.instructions[i].of
      IN Describes(e, found) /\ Entry(e).spec # << >> =>
           \A k \in DOMAIN found.operands :
             LET cell == ParseOperandEncodingTableCell(Entry(e).spec[k])
             IN /\ found.operands[k].encoding = EncodingOfSpec(cell.spec)
                /\ found.operands[k].usage = cell.usage

\* Pages are collected for one group: from its first page up to the first page
\* of the next.
PagesOfOneGroup ==
  \A id \in DOMAIN idToPages : \A k \in DOMAIN idToPages[id].pages :
    k > 1 => ~MatchesFirstPageInExtension(idToPages[id].pages[k])
=============================================================================
