------------------------------ MODULE Channel ------------------------------
(***************************************************************************)
(* What a buffer promises to the components at its ends: a FIFO channel    *)
(* that takes batches, all or nothing, never holds more than bound         *)
(* elements, and loses, duplicates and reorders nothing.                   *)
(***************************************************************************)
EXTENDS Naturals, Sequences

VARIABLES
  bound,        \* how many elements it holds
  inTransit,    \* the elements in the channel, oldest first
  numSent,      \* how many elements were accepted so far
  numReceived   \* how many elements the consumer took so far

vars == <<bound, inTransit, numSent, numReceived>>

Init == bound \in Nat /\ inTransit = << >> /\ numSent = 0 /\ numReceived = 0

\* The elements are numbered in the order in which they are sent.
Send ==
  \E n \in 1 .. bound - Len(inTransit) :
    /\ inTransit' = inTransit \o [k \in 1 .. n |-> numSent + k]
    /\ numSent' = numSent + n
    /\ UNCHANGED <<bound, numReceived>>

Receive ==
  /\ inTransit # << >>
  /\ Head(inTransit) = numReceived + 1
  /\ inTransit' = Tail(inTransit)
  /\ numReceived' = numReceived + 1
  /\ UNCHANGED <<bound, numSent>>

Next == Send \/ Receive

Spec == Init /\ [][Next]_vars

=============================================================================
