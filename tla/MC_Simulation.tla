---------------------------- MODULE MC_Simulation ----------------------------
(***************************************************************************)
(* Five parts of the simulator that share no state in Haswell's pipeline,  *)
(* one of them in each behaviour: the decomposition of instructions, the   *)
(* register renamer between any neighbours, a buffer between any producer  *)
(* and consumer, two execution units between any source and sink, and the  *)
(* log with its analyses.                                                  *)
(***************************************************************************)
EXTENDS SimulationContext, SimulationAnalysis, RegisterRenamer, StagedBuffer,
        ExecutionUnits

VARIABLE part

Init ==
  /\ part \in {"context", "renamer", "buffer", "units", "log"}
  /\ ContextInit /\ TickInit /\ BufferInit /\ UnitsInit /\ LogInit
  /\ part # "buffer" => kind = "link"
  /\ part # "units" => latency = [e \in Elements |-> SimpleStages]

Next ==
  /\ UNCHANGED part
  /\ \/ /\ part = "context" /\ ContextNext
        /\ UNCHANGED <<tickVars, bufferVars, unitsVars, logVars>>
     \/ /\ part = "renamer" /\ TickNext
        /\ UNCHANGED <<contextVars, bufferVars, unitsVars, logVars>>
     \/ /\ part = "buffer" /\ BufferNext
        /\ UNCHANGED <<contextVars, tickVars, unitsVars, logVars>>
     \/ /\ part = "units" /\ UnitsNext
        /\ UNCHANGED <<contextVars, tickVars, bufferVars, logVars>>
     \/ /\ part = "log" /\ LogNext
        /\ UNCHANGED <<contextVars, tickVars, bufferVars, unitsVars>>

vars == <<part, contextVars, tickVars, bufferVars, unitsVars, logVars>>

\* The clock ticks both units for ever, and a sink that a unit asks again and
\* again accepts in the end: what is behind it consumes.  A clock is ticking in
\* the behaviours of the units only.
UnitsFairness ==
  /\ WF_unitsVars(part = "units" /\ SimpleTick)
  /\ WF_unitsVars(part = "units" /\ PipeTick)
  /\ SF_unitsVars(part = "units" /\ SimpleWriteBack)
  /\ SF_unitsVars(part = "units" /\ PipeWriteBack)

Spec == Init /\ [][Next]_vars /\ BufferFairness /\ UnitsFairness

-----------------------------------------------------------------------------
\* Three ports and the groups of a small Haswell (P0, P1, P5, P01, P05, P015);
\* every class puts up to two uops on three of the resources.
Resource == <<{0}, {1}, {5}, {0, 1}, {0, 5}, {0, 1, 5}>>

Class(a, b, c, latencies) ==
  [uops |-> [r \in 1 .. 6 |-> CASE r = 1 -> a [] r = 4 -> b [] r = 6 -> c [] OTHER -> 0],
   num_micro_ops |-> a + b + c, latencies |-> latencies, variants |-> << >>]

Reg(n) == [kind |-> "reg", value |-> n]
Imm(n) == [kind |-> "imm", value |-> n]
Expr(n) == [kind |-> "expr", value |-> n]

\* LEA is slower with a displacement, which an expression always is.
NoDisplacement == {<<Reg(0), Imm(0)>>, <<Reg(1), Imm(0)>>}
AnyOperands ==
  NoDisplacement \cup {<<Reg(0), d>> : d \in {Imm(8), Expr(1), Expr(2)}} \cup {<<Reg(1), Expr(1)>>}

Plain ==
  [n \in 1 .. 24 |-> Class((n - 1) % 2, ((n - 1) \div 2) % 3, ((n - 1) \div 6) % 2,
                           IF n <= 12 THEN << >> ELSE <<3, 5>>)]
Classes ==
  Plain \o
  <<Class(0, 1, 0, <<1>>), Class(1, 0, 1, <<3>>),
    [Class(0, 0, 0, << >>) EXCEPT !.num_micro_ops = 1],
    [Class(0, 0, 0, << >>) EXCEPT
       !.variants = <<[when |-> NoDisplacement, class |-> 25],
                      [when |-> AnyOperands, class |-> 26]>>]>>

\* Opcodes 1..24 have a class each, opcode 27 is a register move, 28 is LEA.
ClassOfOpcode == [opcode \in 1 .. 28 |-> opcode]

Inst(opcode, operands) == [opcode |-> opcode, flags |-> 0, operands |-> operands]

SomeInsts ==
  {Inst(opcode, << >>) : opcode \in {1, 11, 24, 27}}
  \cup {Inst(28, operands) : operands \in AnyOperands}

\* Instructions over the register AX = {al, ah}, its halves and a flag.
Instr(numUops, uses, defs) ==
  [bytes |-> 1, uses |-> uses, defs |-> defs,
   uops |-> [k \in 1 .. numUops |-> [ports |-> {0}, latency |-> 1]]]

AX == {"al", "ah"}
MCUnits == {"al", "ah", "cf"}
MCInstructions ==
  {Instr(1, AX, <<{"al"}>>),             \* mov al <- ax
   Instr(2, {"ah"}, <<AX, {"cf"}>>),     \* add ax <- ah, sets the flag
   Instr(1, {"cf"}, <<AX, {"ah"}>>),     \* two overlapping definitions
   Instr(2, {"al", "cf"}, << >>)}        \* a comparison without outputs
=============================================================================
