--------------------------- MODULE MCChipRequests ---------------------------
(* Values of the constants of ChipRequests for TLC. *)
EXTENDS ChipRequests, TLC

CONSTANTS p1, r1, r2, a1, a2, h1, h2

OnePlayer == [r \in Requests |-> p1]

\* Handlers, screenshots and requests are interchangeable: no definition
\* names one of them.
Symmetry == Permutations(Handlers) \cup Permutations(Attachments)
=============================================================================
