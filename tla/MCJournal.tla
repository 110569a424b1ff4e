----------------------------- MODULE MCJournal ------------------------------
(* Instances of Journal for TLC. *)
EXTENDS Journal, TLC

MCRepos == <<"Ijima", "Kagome", "Tsume">>

\* A directory, one inside it, a sibling whose name it begins, one as it is
\* typed with a slash at its end, and the root.
MCPaths == {<<"/", "a">>, <<"/", "a", "/", "b">>, <<"/", "a", "b">>, <<"/", "a", "/">>, <<"/">>}

\* As a caller may spell them: deeper, with a slash at the end, with blanks around.
MCCwds == MCPaths \cup {<<"/", "a", "b", "/", "c">>, <<"/", "a", "/", "b", "/">>, <<"/", "c">>,
                        <<" ", "/", "a", "/", "b", "/", " ">>, <<" ">>}

Symmetry == Permutations(Principals) \cup Permutations(SessionIds)

=============================================================================
