--------------------------- MODULE MC_Measurement ---------------------------
(***************************************************************************)
(* What measures instructions: the program that computes itineraries, or   *)
(* threads that evaluate code, each behaviour one of the two.  (To the     *)
(* program an evaluation is a step that may fail.)                         *)
(***************************************************************************)
EXTENDS Itineraries, PerfSubsystem

VARIABLE part

Init ==
  \/ part = "program" /\ ProgramInit /\ PerfInit
  \/ /\ part = "counters" /\ PerfInit /\ ProgramInit
     /\ instruction_set = CHOOSE set \in InstructionSets : TRUE

Next ==
  /\ UNCHANGED part
  /\ \/ part = "program"  /\ ProgramNext /\ UNCHANGED perfVars
     \/ part = "counters" /\ PerfNext /\ UNCHANGED programVars

Spec == Init /\ [][Next]_<<part, programVars, perfVars>>

-----------------------------------------------------------------------------
\* A small Haswell: two computation ports, two load ports, a port that
\* generates store addresses beside them, and the store port.
ALU == 1
Vector == 2
Shift == 3
Loads == 4
StoreAddress == 5
StoreData == 6

SmallHaswell == <<{0, 1}, {0}, {1}, {2, 3}, {2, 3, 7}, {4}>>
OneEventPerPort == {{port} : port \in {0, 1, 2, 3, 4, 7}}
AddRsi == <<ALU>>

Plain(operands, uops) ==
  [supported |-> TRUE, available_in_64_bit |-> TRUE, protected |-> FALSE,
   mnemonic |-> "ADD", names |-> <<"r64", "r64">>, assembles |-> TRUE, stalls |-> FALSE, balanced |-> TRUE,
   operands |-> operands, uops |-> uops]

Register == {"DIRECT_ADDRESSING"}
Memory == {"INDIRECT_ADDRESSING", "DIRECT_ADDRESSING"}
String == {"ANY_ADDRESSING_WITH_FIXED_REGISTERS"}

Measured ==
  {Plain(Register, <<ALU>>), Plain(Register, <<Vector, ALU>>),
   Plain(Register, <<Shift, Vector>>), Plain(Register, <<ALU, ALU>>),
   Plain(Memory, <<Loads>>), Plain(Memory, <<Loads, ALU>>),
   Plain(Memory, <<Loads, Vector>>),
   Plain(Memory, <<StoreAddress, StoreData>>),
   Plain(Memory, <<Loads, ALU, StoreAddress, StoreData>>),
   Plain(String, <<Loads, StoreAddress, StoreData>>),
   Plain(String, <<StoreAddress, StoreData, StoreAddress, StoreData>>),
   [Plain(Register, <<ALU, ALU>>) EXCEPT !.balanced = FALSE],
   [Plain(Memory, <<Loads>>) EXCEPT !.balanced = FALSE],
   [Plain(Memory, <<StoreAddress, StoreData>>) EXCEPT !.balanced = FALSE],
   [Plain(Register, <<ALU>>) EXCEPT !.stalls = TRUE],
   [Plain(Register, <<ALU>>) EXCEPT !.assembles = FALSE]}

Skipped ==
  {[Plain(Register, <<ALU>>) EXCEPT !.supported = FALSE],
   [Plain(Register, <<ALU>>) EXCEPT !.available_in_64_bit = FALSE],
   [Plain(Register, <<ALU>>) EXCEPT !.protected = TRUE],
   [Plain(Register, <<ALU>>) EXCEPT !.mnemonic = "JRCXZ"],
   [Plain(Register, <<ALU>>) EXCEPT !.mnemonic = "MOV", !.names = <<"r64", "CR0-CR7">>],
   [Plain(Register, <<ALU>>) EXCEPT !.mnemonic = "MOV", !.names = <<"Sreg", "r64">>]}

SmallSets ==
  {<<a, b>> : a \in Measured, b \in Measured}
  \cup {<<a, Plain(Memory, <<Loads>>)>> : a \in Skipped} \cup {<< >>}

SomeThreads == {"main", "worker"}

\* Fewer events per category than Haswell has, in the order of
\* kPerfEventCategories; the last category lists an event a second time.
HaswellEvents == <<<<"cycles", "stalls">>, <<"port_0">>, <<"port_2">>, <<"retired", "cycles">>>>
=============================================================================
