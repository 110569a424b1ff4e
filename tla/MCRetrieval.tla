---------------------------- MODULE MCRetrieval -----------------------------
(* Instances of Retrieval, and so of Rooms, for TLC. *)
EXTENDS Retrieval, TLC

Cell(ns, id) == [ns |-> ns, id |-> id]

\* Three rows of the own wall, one more than a wake-up shows, and ids that
\* several walls share.
MCCells == {Cell("own", "a"), Cell("own", "b"), Cell("own", "d"),
            Cell("doctrine", "a"), Cell("global", "b"), Cell("import", "a"), Cell("org", "b")}

MCNamespaces == {"doctrine", "global", "import", "org", "own"}
MCWallOrder == <<"doctrine", "global", "import", "org", "own">>

\* The freshest row is the least important one; the others are as important.
MCImportance(x) == IF x.id = "d" THEN 1 ELSE 2
MCCreated(x) == CASE x.id = "a" -> 1 [] x.id = "b" -> 2 [] x.id = "d" -> 3

\* A copy may be closer than its original, or as close; one has no embedding.
MCSimilarity(x) ==
    CASE x.ns = "global" -> 3 [] x.ns = "import" -> 2 [] x.ns = "org" -> 3
      [] x.ns = "doctrine" -> 0 [] x.id = "b" -> 1 [] OTHER -> 2

\* Every row is there, or all but one, or all and one of them superseded.
MCPalaces ==
    {[x \in MCCells |-> "live"]}
    \cup {[[x \in MCCells |-> "live"] EXCEPT ![y] = s] : y \in MCCells, s \in {"absent", "superseded"}}

MCRoomOf(x) == IF x.id = "d" THEN <<"p", "auth">> ELSE IF x.id = "a" THEN <<"q", "auth">> ELSE <<"p", "db">>

=============================================================================
