----------------------------- MODULE MCDirectory -----------------------------
(***************************************************************************)
(* Directory for TLC: the creators are interchangeable.                    *)
(***************************************************************************)
EXTENDS Directory, TLC

Interchangeable == Permutations(Creator)

=============================================================================
