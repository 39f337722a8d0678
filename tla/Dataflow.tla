------------------------------ MODULE Dataflow ------------------------------
(***************************************************************************)
(* What a reorder buffer promises, without entries, indices or dependency  *)
(* lists: uops enter in program order, at most Capacity of them are in it, *)
(* each executes once and only after the uops that produce its inputs, and *)
(* they leave in program order after they have executed.                   *)
(*                                                                         *)
(* ReorderBuffer is shown to implement this specification.                 *)
(***************************************************************************)
EXTENDS Integers, Sequences

CONSTANT Capacity  \* how many uops may be in the buffer

VARIABLES
  uops,       \* the uops that entered so far, in program order: records with
              \* the fields id, uses and defs
  stage,      \* "waiting", "executing", "available" or "done" for each of them
  numRetired  \* how many of them have left

vars == <<uops, stage, numRetired>>

\* The uops whose outputs uop k consumes: the last to define a register that
\* k uses, and the one before k in the same instruction.
Producers(k) ==
  {m \in 1 .. k - 1 :
     \/ \E r \in uops[k].uses \cap uops[m].defs :
          \A n \in m + 1 .. k - 1 : r \notin uops[n].defs
     \/ uops[k].id.index # 0 /\ m = k - 1}

InputsReady(k) == \A m \in Producers(k) : stage[m] \in {"available", "done"}

Init == uops = << >> /\ stage = << >> /\ numRetired = 0

\* Which uop comes next is up to the program.
Enter ==
  /\ Len(uops) - numRetired < Capacity
  /\ Len(uops') = Len(uops) + 1
  /\ SubSeq(uops', 1, Len(uops)) = uops
  /\ stage' = Append(stage, "waiting")
  /\ UNCHANGED numRetired

\* A uop that needs no execution unit is done when it executes.
Execute(k) ==
  /\ stage[k] = "waiting"
  /\ InputsReady(k)
  /\ \E s \in {"executing", "done"} : stage' = [stage EXCEPT ![k] = s]
  /\ UNCHANGED <<uops, numRetired>>

ProduceOutputs(k) ==
  /\ stage[k] = "executing"
  /\ stage' = [stage EXCEPT ![k] = "available"]
  /\ UNCHANGED <<uops, numRetired>>

Finish(k) ==
  /\ stage[k] = "available"
  /\ stage' = [stage EXCEPT ![k] = "done"]
  /\ UNCHANGED <<uops, numRetired>>

Retire ==
  /\ numRetired < Len(uops)
  /\ stage[numRetired + 1] = "done"
  /\ numRetired' = numRetired + 1
  /\ UNCHANGED <<uops, stage>>

Next ==
  \/ Enter
  \/ \E k \in DOMAIN uops : Execute(k) \/ ProduceOutputs(k) \/ Finish(k)
  \/ Retire

Spec == Init /\ [][Next]_vars

=============================================================================
