-------------------------- MODULE MCLearningEngine --------------------------
(* Engines that share envelopes, limits that widen and narrow, and identity *)
(* and handle counters that run out.                                       *)
EXTENDS LearningEngine

MCPolicy == [accept |-> 2, soft |-> 1, hard |-> 1, recovery |-> 1]

CONSTANTS p, q, A, B

MCNames == {p, q}
MCCompartments == {A, B}
OneName == {p}
OneCompartment == {A}

MCEnvelopes == {[min |-> 0, max |-> 2, step |-> 1, default |-> 1, current |-> 1, name |-> p]}

MCLimits == {[min |-> 0, max |-> 2, step |-> 2], [min |-> 1, max |-> 2, step |-> 1]}

MCSymmetry == Permutations(Engines) \cup Permutations(Cells)
              \cup Permutations(MCCompartments)
=============================================================================
