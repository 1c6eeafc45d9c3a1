--------------------------- MODULE MCResultClosing --------------------------
(* Values for the model-checking runs of ResultClosing. *)
EXTENDS ResultClosing, TLC

\* A product, and a charge that turns the profit of one product into a loss.
MCOperations == {[Flat EXCEPT !["706"] = -1], [Flat EXCEPT !["615"] = 2]}
\* Requests are interchangeable.
Symmetry == Permutations(Requests)
=============================================================================
