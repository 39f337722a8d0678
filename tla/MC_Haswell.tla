----------------------------- MODULE MC_Haswell -----------------------------
(***************************************************************************)
(* Basic blocks for the Haswell simulation.                                *)
(***************************************************************************)
EXTENDS Haswell

MCPorts == {0, 1}
MCRegs == 1 .. NumPhysicalRegisters
MCUnits == {"a", "b", "cf"}

Uop(ports, latency) == [ports |-> ports, latency |-> latency]
Instr(bytes, uops, uses, defs) ==
  [bytes |-> bytes, uops |-> uops, uses |-> uses, defs |-> defs]

\* A slow uop on one port, then a fast one on either; two definitions.
LoadAdd == Instr(3, <<Uop({0}, 3), Uop({0, 1}, 1)>>, {"b"}, <<{"a"}, {"cf"}>>)
\* An accumulation: it depends on itself in the iteration before.
Accumulate == Instr(2, <<Uop({0, 1}, 2)>>, {"a", "b"}, <<{"b"}>>)
\* A register move, executed without a port.
Move == Instr(2, <<Uop({}, 1)>>, {"a"}, <<{"b"}>>)
\* An instruction without inputs, competing for port 1.
Zero == Instr(1, <<Uop({1}, 1)>>, {}, <<{"a"}>>)
\* A comparison and a microcoded instruction with uops of every kind.
Compare == Instr(2, <<Uop({0}, 1)>>, {"a", "b"}, <<{"cf"}>>)
Microcoded == Instr(4, <<Uop({}, 1), Uop({}, 1), Uop({1}, 2), Uop({}, 1)>>,
                    {"a", "cf"}, <<{"a", "b"}, {"a"}>>)
\* A store that defines nothing and takes a whole fetch window.
Store == Instr(4, <<Uop({0}, 1), Uop({1}, 2)>>, {"b"}, << >>)

Instrs == {LoadAdd, Accumulate, Move, Zero, Compare, Microcoded, Store}
Bodies(n) == UNION {[1 .. k -> Instrs] : k \in 1 .. n}

\* Loops of up to three instructions, and straight code of up to two.
MCBlocks == [isLoop : {TRUE}, instrs : Bodies(3)]
              \cup [isLoop : {FALSE}, instrs : Bodies(2)]
MCMixed == {[isLoop |-> TRUE, instrs |-> <<Microcoded, Accumulate>>]}
=============================================================================
