------------------------------ MODULE Queries -------------------------------
(***************************************************************************)
(* What an ORDER BY .. LIMIT query returns.  It may return any of a set of   *)
(* lists: the order of rows that tie is the database's.                      *)
(***************************************************************************)
EXTENDS Naturals, FiniteSets, Sequences, SequencesExt

\* The lists of all of S in which no element comes after one it precedes in R.
Rankings(S, R) ==
    {s \in Bijection(1..Cardinality(S), S) :
        \A i, j \in DOMAIN s : i < j => <<s[j], s[i]>> \notin R}

Truncate(s, n) == SubSeq(s, 1, IF Len(s) < n THEN Len(s) ELSE n)

=============================================================================
