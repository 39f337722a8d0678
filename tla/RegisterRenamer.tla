--------------------------- MODULE RegisterRenamer ---------------------------
(***************************************************************************)
(* RegisterRenamer::Tick between a source that receives any instructions   *)
(* and a sink that may refuse a push at any time.                          *)
(***************************************************************************)
EXTENDS RenamerCore, FiniteSetsExt

CONSTANTS
  UopsPerCycle,  \* Config::UopsPerCycle
  Instructions,  \* the instructions that may arrive
  MaxInstrs      \* bound: how many instructions arrive

ASSUME WidthAssumption == UopsPerCycle \in Nat \ {0}

\* The decoder has nothing to push for an instruction without uops.
ASSUME InstructionsAssumption ==
  \A instr \in Instructions :
    /\ instr.uses \in SUBSET Units
    /\ instr.defs \in Seq(SUBSET Units)
    /\ Len(instr.uops) \in Nat \ {0}

VARIABLES
  budget,   \* RemainingUops while Tick runs, 0 between two ticks
  numRead,  \* how many uops were popped from the source
  program,  \* the instructions that the decoder has pushed, in order
  arrived,  \* their uops
  sent      \* history: the renamed uops accepted by the sink

tickVars == <<renamerVars, budget, numRead, program, arrived, sent>>

\* Source_->Peek().
HasUop == numRead < Len(arrived)
HeadUop == arrived[numRead + 1]
InstrOf(id) == program[id.instr + 1]

TickInit ==
  /\ RenamerInit
  /\ budget = 0
  /\ numRead = 0
  /\ program = << >>
  /\ arrived = << >>
  /\ sent = << >>

\* The decoder pushes the uops of an instruction.
Arrive(instr) ==
  /\ budget = 0
  /\ Len(program) < MaxInstrs
  /\ program' = Append(program, instr)
  /\ arrived' = arrived \o [k \in 1 .. Len(instr.uops) |->
                              [instr |-> Len(program), index |-> k - 1]]
  /\ UNCHANGED <<renamerVars, budget, numRead, sent>>

\* Tick starts with the pending uop, if there is one ...
StartTick ==
  /\ budget = 0
  /\ pendingUop = NoUop
  /\ budget' = UopsPerCycle
  /\ UNCHANGED <<renamerVars, numRead, program, arrived, sent>>

FlushPending ==
  /\ budget = 0
  /\ pendingUop # NoUop
  /\ sent' = Append(sent, pendingUop)
  /\ pendingUop' = NoUop
  /\ budget' = UopsPerCycle
  /\ UNCHANGED <<names, numAllocated, numRead, program, arrived>>

\* ... and renames uops until the sink refuses one,
RenameUop ==
  /\ budget > 0
  /\ HasUop
  /\ CorePopulateUop(InstrOf(HeadUop), HeadUop)
  /\ sent' = Append(sent, PopulatedUop(InstrOf(HeadUop), HeadUop))
  /\ numRead' = numRead + 1
  /\ budget' = budget - 1
  /\ UNCHANGED <<pendingUop, program, arrived>>

RenameUopRefused ==
  /\ budget > 0
  /\ HasUop
  /\ CorePopulateUop(InstrOf(HeadUop), HeadUop)
  /\ pendingUop' = PopulatedUop(InstrOf(HeadUop), HeadUop)
  /\ numRead' = numRead + 1
  /\ budget' = 0
  /\ UNCHANGED <<program, arrived, sent>>

\* the source is empty, or there are too few physical registers.
EndTick ==
  /\ budget > 0
  /\ HasUop => ~ CanPopulate(InstrOf(HeadUop), HeadUop)
  /\ budget' = 0
  /\ UNCHANGED <<renamerVars, numRead, program, arrived, sent>>

TickNext ==
  \/ \E instr \in Instructions : Arrive(instr)
  \/ StartTick
  \/ FlushPending
  \/ RenameUop
  \/ RenameUopRefused
  \/ EndTick

-----------------------------------------------------------------------------
(* Properties.                                                             *)

\* Everything renamed so far, the pending uop included.
Output == IF pendingUop = NoUop THEN sent ELSE Append(sent, pendingUop)

\* No physical register is given out twice, as the reorder buffer relies on.
NamesAreUnique ==
  \A j, k \in DOMAIN Output : j < k => Output[j].defs \cap Output[k].defs = {}

\* The instructions before the i-th one that write register unit x.
Writers(i, x) ==
  {w \in 1 .. i - 1 : \E d \in DOMAIN program[w].defs : x \in program[w].defs[d]}

\* The name through which the last of them writes x: the names of the last
\* uop of an instruction stand for its defs, in order.
LastName(i, x) ==
  LET w == Max(Writers(i, x))
      d == Max({e \in DOMAIN program[w].defs : x \in program[w].defs[e]})
      k == CHOOSE j \in DOMAIN Output :
             Output[j].id = [instr |-> w - 1, index |-> Len(program[w].uops) - 1]
  IN  CHOOSE n \in Output[k].defs :
        Cardinality({m \in Output[k].defs : m < n}) = d - 1

\* Only true dependencies remain: the first uop of an instruction uses, for
\* each register unit that the instruction reads, the name that the last
\* writer of that unit gave it, and nothing else.
UsesLastWriters ==
  \A k \in DOMAIN Output :
    LET i == Output[k].id.instr + 1 IN
    Output[k].uses =
      {LastName(i, x) : x \in {y \in program[i].uses :
                                 Output[k].id.index = 0 /\ Writers(i, y) # {}}}

=============================================================================
