------------------------------ MODULE MCPalace ------------------------------
(* Instances of Palace for TLC. *)
EXTENDS Palace, TLC

\* Ids, contents and clients are interchangeable in Palace and in every
\* safety property checked under this symmetry.
Symmetry ==
    Permutations(Ids) \cup Permutations(Contents) \cup Permutations(Clients)

=============================================================================
