------------------------------ MODULE MCFraming ------------------------------
(* Sizes at the edges of the header's length forms, of the window and of the *)
(* read limit.                                                               *)
EXTENDS Framing, TLC

MCLimit == {-1, 126}

\* The writers are alike.
WriterSymmetry == Permutations(Writer)
=============================================================================
