------------------------------- MODULE Rooms --------------------------------
(***************************************************************************)
(* What the palace's read queries return: the ranked lists behind wake-up,   *)
(* browse and search, and the counts the walls of a search come from.        *)
(* A cell is a memory id in a namespace; its ranking data never change.      *)
(***************************************************************************)
EXTENDS Queries

CONSTANTS
    Cells,          \* the rows there may be: [ns, id]
    Importance(_),
    Created(_),
    Similarity(_),  \* to the query searched for; 0 for a row without embedding
    RoomOf(_),      \* <<project, topic>>
    Namespaces,
    None,
    BrowseCap       \* rows a filtered browse looks at

ASSUME RoomsAssumption ==
    /\ IsFiniteSet(Cells)
    /\ \A x \in Cells : x.ns \in Namespaces /\ Similarity(x) \in Nat
    /\ \A x, y \in Cells : x.ns = y.ns /\ x.id = y.id => x = y
    /\ None \notin Namespaces /\ BrowseCap \in Nat

VARIABLE row        \* per cell "absent", "live" or "superseded"

Live(ns) == {x \in Cells : x.ns = ns /\ row[x] = "live"}

-----------------------------------------------------------------------------
(* Ranked reads *)

MoreImportant ==
    {p \in Cells \X Cells :
        \/ Importance(p[1]) > Importance(p[2])
        \/ Importance(p[1]) = Importance(p[2]) /\ Created(p[1]) > Created(p[2])}

Fresher == {p \in Cells \X Cells : Created(p[1]) > Created(p[2])}

Closer == {p \in Cells \X Cells : Similarity(p[1]) > Similarity(p[2])}

ListMemories(ns, n) == {Truncate(s, n) : s \in Rankings(Live(ns), MoreImportant)}

RecentMemories(ns, n) == {Truncate(s, n) : s \in Rankings(Live(ns), Fresher)}

SearchMemories(ns, n) ==
    {Truncate(s, n) : s \in Rankings({x \in Live(ns) : Similarity(x) > 0}, Closer)}

\* The elements of a list that are in S, in their order.
Retain(list, S) ==
    LET earlier == {p \in S \X S : \E i, j \in DOMAIN list : i < j /\ p = <<list[i], list[j]>>} IN
    Rankings(ToSet(list) \cap S, earlier)

\* list_memories_filtered: a filter sees the most important rows only.
ListMemoriesFiltered(ns, room, n) ==
    IF room = None THEN ListMemories(ns, n)
    ELSE UNION {{Truncate(s, n) : s \in Retain(list, {x \in Cells : RoomOf(x) = room})} :
                    list \in ListMemories(ns, BrowseCap)}

-----------------------------------------------------------------------------
(* Rooms and statistics *)

RoomNames == {RoomOf(x) : x \in Cells}

\* store_stats: every row, superseded ones too.
StoreStats == [ns \in Namespaces |-> Cardinality({x \in Cells : x.ns = ns /\ row[x] # "absent"})]

=============================================================================
