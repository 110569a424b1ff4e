----------------------------- MODULE MCDoctrine -----------------------------
(* Instances of Doctrine for TLC. *)
EXTENDS Doctrine, TLC

\* Docs, bodies and clients are interchangeable in Doctrine and in every
\* safety property checked under this symmetry.
Symmetry ==
    Permutations(Docs) \cup Permutations(Bodies) \cup Permutations(Clients)

=============================================================================
