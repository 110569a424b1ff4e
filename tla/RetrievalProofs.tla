-------------------------- MODULE RetrievalProofs ---------------------------
(***************************************************************************)
(* Proofs about Retrieval and the reads of Rooms: that the ledger is exact,  *)
(* what a torn wake-up and a merged search still serve, and what a list of   *)
(* the ledger shows of it, for any number of requests at once.               *)
(* LedgerInv says what the ledger has of each request in flight, ServeInv    *)
(* what the lists it has read are still worth.                               *)
(***************************************************************************)
EXTENDS Retrieval, FiniteSetTheorems, TLAPS

-----------------------------------------------------------------------------
(* Types *)

States == {"absent", "live", "superseded"}
Steps == {"join", "walls", "stats", "read", "search", "append", "replied"}
EventKinds == {"WakeupRecent", "WakeupLexicographic", "WakeupDoctrine", "Search", "Browse"}
Ids == {x.id : x \in Cells}
Events == [rid : Nat, kind : EventKinds, ns : Namespaces, id : Ids, rank : Nat, ts : Nat]
Lists == Seq(Cells) \cup {None}
Requests ==
    [kind : Kinds, ns : Namespaces, room : RoomNames \cup {None}, rid : Nat, at : Steps,
     walls : SUBSET DOMAIN WallOrder, top : Lists, recent : Lists, doctrine : Lists,
     hits : Seq(Cells), events : Seq(Events), steady : SUBSET Cells, ever : SUBSET Cells]

TypeOK ==
    /\ row \in [Cells -> States]
    /\ member \subseteq Orgs
    /\ ledger \subseteq Events /\ unlogged \subseteq Events /\ IsFiniteSet(ledger)
    /\ now \in Nat
    /\ req \in [Conns -> Requests \cup {None}]
    /\ used \in [requests : Nat, writes : Nat, faults : Nat]

-----------------------------------------------------------------------------
(* Lists *)

LEMMA BeginningOf ==
    ASSUME NEW S, NEW s \in Seq(S), NEW m \in 0..Len(s)
    PROVE  /\ SubSeq(s, 1, m) \in Seq(S) /\ Len(SubSeq(s, 1, m)) = m
           /\ \A i \in 1..m : SubSeq(s, 1, m)[i] = s[i]
OBVIOUS

\* A cut list is the beginning of the list.
LEMMA TruncateIs ==
    ASSUME NEW S, NEW s \in Seq(S), NEW n \in Nat, NEW t, t = Truncate(s, n)
    PROVE  /\ t \in Seq(S) /\ Len(t) \in Nat /\ Len(t) <= n /\ Len(t) <= Len(s)
           /\ Len(s) \in Nat
           /\ Len(t) = Len(s) \/ Len(t) = n
           /\ \A i \in 1..Len(t) : t[i] = s[i]
<1> DEFINE m == IF Len(s) < n THEN Len(s) ELSE n
<1>1. Len(s) \in Nat /\ m \in 0..Len(s) /\ m <= n /\ (m = Len(s) \/ m = n)
  OBVIOUS
<1>2. t = SubSeq(s, 1, m)
  BY DEF Truncate
<1> HIDE DEF m
<1>3. t \in Seq(S) /\ Len(t) = m /\ \A i \in 1..m : t[i] = s[i]
  BY <1>1, <1>2, BeginningOf
<1> QED BY <1>1, <1>3

Distinct(s) == \A i, j \in 1..Len(s) : s[i] = s[j] => i = j

\* No element comes after one that it precedes in R.
InOrder(s, R) == \A i, j \in 1..Len(s) : i < j => <<s[j], s[i]>> \notin R

LEMMA RankingIs ==
    ASSUME NEW S, IsFiniteSet(S), NEW R, NEW s \in Rankings(S, R)
    PROVE  /\ s \in Seq(S) /\ Len(s) = Cardinality(S) /\ Cardinality(S) \in Nat
           /\ Distinct(s) /\ InOrder(s, R)
           /\ \A x \in S : \E i \in 1..Len(s) : s[i] = x
<1>1. Cardinality(S) \in Nat
  BY FS_CardinalityType
<1>2. s \in [1..Cardinality(S) -> S]
  BY DEF Rankings, Bijection, Injection
<1>3. s \in Seq(S) /\ Len(s) = Cardinality(S) /\ DOMAIN s = 1..Len(s)
  BY <1>1, <1>2
<1>4. Distinct(s)
  BY <1>3 DEF Rankings, Bijection, Injection, IsInjective, Distinct
<1>5. InOrder(s, R)
  BY <1>3 DEF Rankings, InOrder
<1>6. \A x \in S : \E i \in 1..Len(s) : s[i] = x
  BY <1>3 DEF Rankings, Bijection, Surjection
<1> QED BY <1>1, <1>3, <1>4, <1>5, <1>6

\* t is the beginning, cut at n, of a list in order of R that has every row of
\* low and only rows of high.
BestOf(t, low, high, R, n) ==
    /\ t \in Seq(high) /\ Len(t) <= n
    /\ Distinct(t) /\ InOrder(t, R)
    /\ \A x \in low : \/ \E i \in 1..Len(t) : t[i] = x
                      \/ Len(t) = n /\ \A i \in 1..Len(t) : <<x, t[i]>> \notin R

LEMMA CutRankingIsBest ==
    ASSUME NEW S, IsFiniteSet(S), NEW R, NEW s \in Rankings(S, R), NEW n \in Nat
    PROVE  BestOf(Truncate(s, n), S, S, R, n)
<1> DEFINE t == Truncate(s, n)
<1>1. /\ s \in Seq(S) /\ Distinct(s) /\ InOrder(s, R)
      /\ \A x \in S : \E i \in 1..Len(s) : s[i] = x
  BY RankingIs
<1>2. /\ t \in Seq(S) /\ Len(t) \in Nat /\ Len(t) <= n /\ Len(t) <= Len(s) /\ Len(s) \in Nat
      /\ Len(t) = Len(s) \/ Len(t) = n
      /\ \A i \in 1..Len(t) : t[i] = s[i]
  BY <1>1, TruncateIs
<1> HIDE DEF t
<1>3. \A i \in 1..Len(t) : i \in 1..Len(s)
  BY <1>2
<1>4. Distinct(t) /\ InOrder(t, R)
  BY <1>1, <1>2, <1>3 DEF Distinct, InOrder
<1>5. ASSUME NEW x \in S, ~ \E i \in 1..Len(t) : t[i] = x
      PROVE  Len(t) = n /\ \A i \in 1..Len(t) : <<x, t[i]>> \notin R
  <2>1. PICK k \in 1..Len(s) : s[k] = x
    BY <1>1
  <2>2. k \notin 1..Len(t)
    BY <1>2, <1>5, <2>1
  <2>3. \A i \in 1..Len(t) : i < k
    BY <1>2, <2>2
  <2>4. Len(t) = n
    BY <1>2, <2>2
  <2>5. \A i \in 1..Len(t) : <<s[k], s[i]>> \notin R
    BY <1>1, <1>3, <2>3 DEF InOrder
  <2> QED BY <1>2, <2>1, <2>4, <2>5
<1> QED BY <1>2, <1>4, <1>5 DEF BestOf, t

LEMMA BestKept ==
    ASSUME NEW t, NEW low, NEW high, NEW low2, NEW high2, NEW R, NEW n, BestOf(t, low, high, R, n),
           low2 \subseteq low, high \subseteq high2
    PROVE  BestOf(t, low2, high2, R, n)
<1>1. t \in Seq(high2)
  BY DEF BestOf
<1> QED BY <1>1 DEF BestOf

-----------------------------------------------------------------------------
(* What the reads return *)

LEMMA CellsFinite ==
    ASSUME NEW S, S \subseteq Cells
    PROVE  IsFiniteSet(S)
BY RoomsAssumption, FS_Subset

LEMMA ListIs ==
    ASSUME NEW ns, NEW n \in Nat, NEW list \in ListMemories(ns, n)
    PROVE  BestOf(list, Live(ns), Live(ns), MoreImportant, n)
<1>1. Live(ns) \subseteq Cells
  BY DEF Live
<1> QED BY <1>1, CellsFinite, CutRankingIsBest DEF ListMemories

LEMMA RecentIs ==
    ASSUME NEW ns, NEW n \in Nat, NEW list \in RecentMemories(ns, n)
    PROVE  BestOf(list, Live(ns), Live(ns), Fresher, n)
<1>1. Live(ns) \subseteq Cells
  BY DEF Live
<1> QED BY <1>1, CellsFinite, CutRankingIsBest DEF RecentMemories

\* The rows a search ranks.
Found(ns) == {x \in Live(ns) : Similarity(x) > 0}

LEMMA SearchIs ==
    ASSUME NEW ns, NEW n \in Nat, NEW list \in SearchMemories(ns, n)
    PROVE  BestOf(list, Found(ns), Found(ns), Closer, n)
<1>1. Found(ns) \subseteq Cells
  BY DEF Found, Live
<1>2. SearchMemories(ns, n) = {Truncate(s, n) : s \in Rankings(Found(ns), Closer)}
  BY DEF SearchMemories, Found
<1> QED BY <1>1, <1>2, CellsFinite, CutRankingIsBest

LEMMA BestIsList ==
    ASSUME NEW t, NEW low, NEW high, NEW R, NEW n, BestOf(t, low, high, R, n), high \subseteq Cells
    PROVE  t \in Seq(Cells)
<1>1. t \in Seq(high)
  BY DEF BestOf
<1> QED BY <1>1

LEMMA ReadIsList ==
    ASSUME NEW ns, NEW n \in Nat, NEW list,
           \/ list \in ListMemories(ns, n)
           \/ list \in RecentMemories(ns, n)
           \/ list \in SearchMemories(ns, n)
    PROVE  list \in Seq(Cells)
<1>1. Live(ns) \subseteq Cells /\ Found(ns) \subseteq Cells
  BY DEF Found, Live
<1>2. \/ BestOf(list, Live(ns), Live(ns), MoreImportant, n)
      \/ BestOf(list, Live(ns), Live(ns), Fresher, n)
      \/ BestOf(list, Found(ns), Found(ns), Closer, n)
  BY ListIs, RecentIs, SearchIs
<1> QED BY <1>1, <1>2, BestIsList

\* What retain leaves: the elements of list that are in S, each once, in order.
LEMMA RetainIs ==
    ASSUME NEW list \in Seq(Cells), NEW S, S \subseteq Cells, NEW s \in Retain(list, S)
    PROVE  /\ s \in Seq(Cells) /\ Distinct(s)
           /\ \A i \in 1..Len(s) : s[i] \in ToSet(list) /\ s[i] \in S
           /\ \A x \in ToSet(list) \cap S : \E i \in 1..Len(s) : s[i] = x
           /\ \A i, j \in 1..Len(s) : i < j =>
                ~ \E k, l \in 1..Len(list) : k < l /\ list[k] = s[j] /\ list[l] = s[i]
<1> DEFINE T == ToSet(list) \cap S
           E == {p \in S \X S : \E i, j \in DOMAIN list : i < j /\ p = <<list[i], list[j]>>}
<1>1. DOMAIN list = 1..Len(list)
  OBVIOUS
<1>2. s \in Rankings(T, E) /\ T \subseteq Cells
  BY DEF Retain
<1>3. \A a, b \in S : (\E i, j \in 1..Len(list) : i < j /\ list[i] = a /\ list[j] = b) => <<a, b>> \in E
  BY <1>1
<1>4. \A x \in T : x \in ToSet(list) /\ x \in S
  OBVIOUS
<1> HIDE DEF E, T
<1>5. IsFiniteSet(T)
  BY <1>2, CellsFinite
<1>6. /\ s \in Seq(T) /\ Distinct(s) /\ InOrder(s, E)
      /\ \A x \in T : \E i \in 1..Len(s) : s[i] = x
  BY <1>2, <1>5, RankingIs
<1>7. \A i \in 1..Len(s) : s[i] \in T
  BY <1>6
<1>8. ASSUME NEW i \in 1..Len(s), NEW j \in 1..Len(s), i < j,
             NEW k \in 1..Len(list), NEW l \in 1..Len(list), k < l,
             list[k] = s[j], list[l] = s[i]
      PROVE  FALSE
  <2>1. <<s[j], s[i]>> \in E
    BY <1>3, <1>4, <1>7, <1>8
  <2> QED BY <1>6, <1>8, <2>1 DEF InOrder
<1>9. s \in Seq(Cells)
  BY <1>2, <1>6
<1> QED BY <1>4, <1>6, <1>7, <1>8, <1>9 DEF T

LEMMA BrowseIs ==
    ASSUME NEW ns, NEW room, NEW n \in Nat, NEW list \in ListMemoriesFiltered(ns, room, n)
    PROVE  list \in Seq(Cells)
<1>0. Live(ns) \subseteq Cells
  BY DEF Live
<1>1. CASE room = None
  BY <1>0, <1>1, ListIs, BestIsList DEF ListMemoriesFiltered
<1>2. CASE room # None
  <2> DEFINE S == {x \in Cells : RoomOf(x) = room}
  <2>1. PICK all \in ListMemories(ns, BrowseCap) : list \in {Truncate(s, n) : s \in Retain(all, S)}
    BY <1>2 DEF ListMemoriesFiltered
  <2>2. PICK s \in Retain(all, S) : list = Truncate(s, n)
    BY <2>1
  <2>3. all \in Seq(Cells)
    BY <1>0, <2>1, RoomsAssumption, ListIs, BestIsList
  <2>4. s \in Seq(Cells)
    BY <2>2, <2>3, RetainIs
  <2> QED BY <2>2, <2>4, TruncateIs
<1> QED BY <1>1, <1>2

LEMMA EssentialsIs ==
    ASSUME NEW top \in Seq(Cells), NEW recent \in Seq(Cells), NEW hits \in Essentials(top, recent)
    PROVE  \E s \in Retain(top, Cells \ ToSet(recent)) :
              s \in Seq(Cells) /\ hits = Truncate(recent \o s, Limit) /\ hits \in Seq(Cells)
<1>1. PICK s \in Retain(top, Cells \ ToSet(recent)) : hits = Truncate(recent \o s, Limit)
  BY DEF Essentials
<1>2. s \in Seq(Cells)
  BY RetainIs
<1>3. recent \o s \in Seq(Cells)
  BY <1>2
<1>4. hits \in Seq(Cells)
  BY <1>1, <1>3, RetrievalAssumption, TruncateIs
<1> QED BY <1>1, <1>2, <1>4

\* The positions merge_search_hits_with_walls keeps.
Firsts(all) ==
    {i \in DOMAIN all : \A j \in DOMAIN all : all[j].id = all[i].id => <<j, i>> \notin Sorted(all)}

CutOf(hits, all, order) ==
    /\ order \in Seq(1..Len(all))
    /\ [k \in 1..Len(order) |-> all[order[k]]] \in Seq(Cells)
    /\ hits = Truncate([k \in 1..Len(order) |-> all[order[k]]], Limit)

LEMMA MergeIs ==
    ASSUME NEW a \in Seq(Cells), NEW b \in Seq(Cells), NEW hits \in MergeSearchHits(a, b),
           NEW all, all = a \o b
    PROVE  /\ all \in Seq(Cells) /\ hits \in Seq(Cells)
           /\ IsFiniteSet(Firsts(all)) /\ Firsts(all) \subseteq 1..Len(all)
           /\ \E order \in Rankings(Firsts(all), Sorted(all)) : CutOf(hits, all, order)
<1>1. all \in Seq(Cells) /\ Len(all) \in Nat /\ DOMAIN all = 1..Len(all)
  OBVIOUS
<1>2. Firsts(all) \subseteq 1..Len(all)
  BY <1>1 DEF Firsts
<1>3. IsFiniteSet(Firsts(all))
  <2>1. IsFiniteSet(1..Len(all))
    BY <1>1, FS_Interval
  <2> QED BY <1>2, <2>1, FS_Subset
<1>4. PICK order \in Rankings(Firsts(all), Sorted(all)) :
        hits = Truncate([k \in DOMAIN order |-> all[order[k]]], Limit)
  BY DEF MergeSearchHits, Firsts
<1>5. order \in Seq(Firsts(all))
  BY <1>3, <1>4, RankingIs
<1>6. order \in Seq(1..Len(all)) /\ DOMAIN order = 1..Len(order) /\ Len(order) \in Nat
  <2> HIDE DEF Firsts
  <2> QED BY <1>2, <1>5
<1> DEFINE full == [k \in 1..Len(order) |-> all[order[k]]]
<1>7. full \in Seq(Cells)
  BY <1>1, <1>6
<1>8. hits = Truncate(full, Limit)
  BY <1>4, <1>6
<1>9. hits \in Seq(Cells)
  <2> HIDE DEF full
  <2> QED BY <1>7, <1>8, RetrievalAssumption, TruncateIs
<1>10. CutOf(hits, all, order)
  BY <1>6, <1>7, <1>8 DEF CutOf
<1> QED BY <1>1, <1>2, <1>3, <1>4, <1>9, <1>10

-----------------------------------------------------------------------------
(* What each step of a request makes of it *)

others == <<row, member, ledger, now, unlogged, used>>

\* The request of c becomes x.
Becomes(c, x) ==
    /\ req[c] \in Requests /\ req[c] # None /\ x \in Requests
    /\ req' = [req EXCEPT ![c] = x]

LEMMA Underway ==
    ASSUME TypeOK, NEW c \in Conns, req[c] # None
    PROVE  req[c] \in Requests
BY DEF TypeOK

LEMMA ReadTopIs ==
    ASSUME TypeOK, NEW c \in Conns, ReadTop(c)
    PROVE  UNCHANGED others /\ At(c, "join") /\ \E list \in ListMemories(req[c].ns, Limit) :
             Becomes(c, [req[c] EXCEPT !.top = list])
<1>1. req[c] \in Requests /\ req[c] # None
  BY Underway DEF ReadTop, At
<1>2. PICK list \in ListMemories(req[c].ns, Limit) : req' = [req EXCEPT ![c].top = list]
  BY DEF ReadTop
<1>3. list \in Seq(Cells)
  BY <1>2, RetrievalAssumption, ReadIsList
<1>4. [req[c] EXCEPT !.top = list] \in Requests
  BY <1>1, <1>3 DEF Requests, Lists
<1> QED BY <1>1, <1>2, <1>4 DEF ReadTop, Becomes, others

LEMMA ReadRecentIs ==
    ASSUME TypeOK, NEW c \in Conns, ReadRecent(c)
    PROVE  UNCHANGED others /\ At(c, "join") /\ \E list \in RecentMemories(req[c].ns, Stratum) :
             Becomes(c, [req[c] EXCEPT !.recent = list])
<1>1. req[c] \in Requests /\ req[c] # None
  BY Underway DEF ReadRecent, At
<1>2. PICK list \in RecentMemories(req[c].ns, Stratum) : req' = [req EXCEPT ![c].recent = list]
  BY DEF ReadRecent
<1>3. list \in Seq(Cells)
  BY <1>2, RetrievalAssumption, ReadIsList
<1>4. [req[c] EXCEPT !.recent = list] \in Requests
  BY <1>1, <1>3 DEF Requests, Lists
<1> QED BY <1>1, <1>2, <1>4 DEF ReadRecent, Becomes, others

LEMMA ReadDoctrineIs ==
    ASSUME TypeOK, NEW c \in Conns, ReadDoctrine(c)
    PROVE  UNCHANGED others /\ At(c, "join") /\ \E list \in Seq(Cells) :
             Becomes(c, [req[c] EXCEPT !.doctrine = list])
<1>1. req[c] \in Requests /\ req[c] # None
  BY Underway DEF ReadDoctrine, At
<1>2. PICK list \in ListMemories("doctrine", DoctrineLimit) : req' = [req EXCEPT ![c].doctrine = list]
  BY DEF ReadDoctrine
<1>3. list \in Seq(Cells)
  BY <1>2, RetrievalAssumption, ReadIsList
<1>4. [req[c] EXCEPT !.doctrine = list] \in Requests
  BY <1>1, <1>3 DEF Requests, Lists
<1> QED BY <1>1, <1>2, <1>3, <1>4 DEF ReadDoctrine, Becomes, others

LEMMA EventIs ==
    ASSUME TypeOK, NEW c \in Conns, req[c] \in Requests, NEW kind \in EventKinds, NEW x \in Cells,
           NEW rank \in Nat
    PROVE  Event(c, kind, x, rank) \in Events
<1>1. x.ns \in Namespaces /\ x.id \in Ids
  BY RoomsAssumption DEF Ids
<1> QED BY <1>1 DEF TypeOK, Requests, Event, Events

LEMMA EventsOfIs ==
    ASSUME TypeOK, NEW c \in Conns, req[c] \in Requests, NEW kind \in EventKinds,
           NEW hits \in Seq(Cells)
    PROVE  EventsOf(c, kind, hits) \in Seq(Events)
<1>1. \A i \in 1..Len(hits) : hits[i] \in Cells /\ i - 1 \in Nat
  OBVIOUS
<1>2. \A i \in 1..Len(hits) : Event(c, kind, hits[i], i - 1) \in Events
  BY <1>1, EventIs
<1> QED BY <1>2 DEF EventsOf

\* The events of a wake-up.
WakeupEvents(c, hits) ==
    [i \in 1..Len(hits) |-> Event(c, StratumOf(c, hits[i]), hits[i], i - 1)]
    \o EventsOf(c, "WakeupDoctrine", req[c].doctrine)

LEMMA ComposeIs ==
    ASSUME TypeOK, NEW c \in Conns, Compose(c)
    PROVE  /\ UNCHANGED others /\ At(c, "join")
           /\ req[c].top \in Seq(Cells) /\ req[c].recent \in Seq(Cells)
           /\ req[c].doctrine \in Seq(Cells)
           /\ None \notin {req[c].top, req[c].recent, req[c].doctrine}
           /\ \E hits \in Essentials(req[c].top, req[c].recent) :
                /\ hits \in Seq(Cells)
                /\ Becomes(c, [req[c] EXCEPT !.at = "append", !.hits = hits,
                                             !.events = WakeupEvents(c, hits)])
<1>1. req[c] \in Requests /\ req[c] # None
  BY Underway DEF Compose, At
<1>2. /\ req[c].top \in Seq(Cells) /\ req[c].recent \in Seq(Cells)
      /\ req[c].doctrine \in Seq(Cells)
  BY <1>1 DEF Compose, Requests, Lists
<1>3. PICK hits \in Essentials(req[c].top, req[c].recent) :
        req' = [req EXCEPT ![c].at = "append", ![c].hits = hits,
                           ![c].events = WakeupEvents(c, hits)]
  BY DEF Compose, WakeupEvents
<1>4. hits \in Seq(Cells)
  BY <1>2, EssentialsIs
<1>5. WakeupEvents(c, hits) \in Seq(Events)
  <2>1. \A i \in 1..Len(hits) : hits[i] \in Cells /\ i - 1 \in Nat /\ StratumOf(c, hits[i]) \in EventKinds
    BY <1>4 DEF StratumOf, EventKinds
  <2>2. \A i \in 1..Len(hits) : Event(c, StratumOf(c, hits[i]), hits[i], i - 1) \in Events
    BY <1>1, <2>1, EventIs
  <2>3. [i \in 1..Len(hits) |-> Event(c, StratumOf(c, hits[i]), hits[i], i - 1)] \in Seq(Events)
    BY <1>4, <2>2
  <2>4. EventsOf(c, "WakeupDoctrine", req[c].doctrine) \in Seq(Events)
    BY <1>1, <1>2, EventsOfIs DEF EventKinds
  <2> QED BY <2>3, <2>4 DEF WakeupEvents
<1>6. [req[c] EXCEPT !.at = "append", !.hits = hits, !.events = WakeupEvents(c, hits)] \in Requests
  BY <1>1, <1>4, <1>5 DEF Requests, Steps
<1>7. Becomes(c, [req[c] EXCEPT !.at = "append", !.hits = hits, !.events = WakeupEvents(c, hits)])
  BY <1>1, <1>3, <1>6 DEF Becomes
<1> QED BY <1>2, <1>3, <1>4, <1>7 DEF Compose, others

LEMMA PlacesIs ==
    ASSUME NEW walls
    PROVE  /\ Places(walls) \in SUBSET DOMAIN WallOrder
           /\ \A i \in DOMAIN WallOrder : WallOrder[i] \in walls => i \in Places(walls)
BY DEF Places

LEMMA ListMembershipsIs ==
    ASSUME TypeOK, NEW c \in Conns, ListMemberships(c)
    PROVE  /\ UNCHANGED others /\ At(c, "walls")
           /\ \E walls \in SUBSET DOMAIN WallOrder :
                /\ \A i \in DOMAIN WallOrder : WallOrder[i] \in {"own", "global"} => i \in walls
                /\ Becomes(c, [req[c] EXCEPT !.at = "stats", !.walls = walls])
<1>1. req[c] \in Requests /\ req[c] # None
  BY Underway DEF ListMemberships, At
<1> DEFINE walls == Places({"own", "global"} \cup Memberships)
<1>2. req' = [req EXCEPT ![c].at = "stats", ![c].walls = walls]
  BY DEF ListMemberships
<1>3. /\ walls \in SUBSET DOMAIN WallOrder
      /\ \A i \in DOMAIN WallOrder : WallOrder[i] \in {"own", "global"} => i \in walls
  BY PlacesIs
<1> HIDE DEF walls
<1>4. [req[c] EXCEPT !.at = "stats", !.walls = walls] \in Requests
  BY <1>1, <1>3 DEF Requests, Steps
<1>5. Becomes(c, [req[c] EXCEPT !.at = "stats", !.walls = walls])
  BY <1>1, <1>2, <1>4 DEF Becomes
<1> QED BY <1>3, <1>5 DEF ListMemberships, others

LEMMA ListImportsIs ==
    ASSUME TypeOK, NEW c \in Conns, ListImports(c)
    PROVE  /\ UNCHANGED others /\ At(c, "stats")
           /\ \E walls \in SUBSET DOMAIN WallOrder :
                /\ req[c].walls \subseteq walls
                /\ \A i \in DOMAIN WallOrder :
                    WallOrder[i] \in Imports /\ StoreStats[WallOrder[i]] > 0 => i \in walls
                /\ Becomes(c, [req[c] EXCEPT !.at = "search", !.walls = walls])
<1>1. req[c] \in Requests /\ req[c] # None
  BY Underway DEF ListImports, At
<1> DEFINE found == Places({ns \in Imports : StoreStats[ns] > 0})
           walls == req[c].walls \cup found
<1>2. req' = [req EXCEPT ![c].at = "search", ![c].walls = walls]
  BY DEF ListImports, TypeOK
<1>3. /\ found \in SUBSET DOMAIN WallOrder
      /\ \A i \in DOMAIN WallOrder :
            WallOrder[i] \in Imports /\ StoreStats[WallOrder[i]] > 0 => i \in found
  BY PlacesIs
<1> HIDE DEF found
<1>4. walls \in SUBSET DOMAIN WallOrder
  BY <1>1, <1>3 DEF Requests
<1>5. [req[c] EXCEPT !.at = "search", !.walls = walls] \in Requests
  <2> HIDE DEF walls
  <2> QED BY <1>1, <1>4 DEF Requests, Steps
<1>6. Becomes(c, [req[c] EXCEPT !.at = "search", !.walls = walls])
  BY <1>1, <1>2, <1>5 DEF Becomes
<1> QED BY <1>3, <1>4, <1>6 DEF ListImports, others

LEMMA SearchWallIs ==
    ASSUME TypeOK, NEW c \in Conns, SearchWall(c)
    PROVE  /\ UNCHANGED others /\ At(c, "search")
           /\ \E w \in req[c].walls : \E list \in SearchMemories(WallOrder[w], Limit) :
              \E hits \in MergeSearchHits(req[c].hits, list) :
                /\ list \in Seq(Cells)
                /\ Becomes(c, [req[c] EXCEPT !.walls = @ \ {w}, !.hits = hits])
<1>1. req[c] \in Requests /\ req[c] # None
  BY Underway DEF SearchWall, At
<1>2. PICK w \in req[c].walls : \E list \in SearchMemories(WallOrder[w], Limit) :
        \E hits \in MergeSearchHits(req[c].hits, list) :
            req' = [req EXCEPT ![c].walls = @ \ {w}, ![c].hits = hits]
  BY DEF SearchWall
<1>3. PICK list \in SearchMemories(WallOrder[w], Limit) : \E hits \in MergeSearchHits(req[c].hits, list) :
        req' = [req EXCEPT ![c].walls = @ \ {w}, ![c].hits = hits]
  BY <1>2
<1>3a. PICK hits \in MergeSearchHits(req[c].hits, list) :
        req' = [req EXCEPT ![c].walls = @ \ {w}, ![c].hits = hits]
  BY <1>3
<1>4. list \in Seq(Cells)
  BY <1>3, RetrievalAssumption, ReadIsList
<1>5. req[c].hits \in Seq(Cells)
  BY <1>1 DEF Requests
<1>6. hits \in Seq(Cells)
  BY <1>3a, <1>4, <1>5, MergeIs
<1>7. [req[c] EXCEPT !.walls = @ \ {w}, !.hits = hits] \in Requests
  BY <1>1, <1>6 DEF Requests
<1>8. Becomes(c, [req[c] EXCEPT !.walls = @ \ {w}, !.hits = hits])
  BY <1>1, <1>3a, <1>7 DEF Becomes
<1> QED BY <1>3a, <1>4, <1>8 DEF SearchWall, others

\* The last step of a search or a browse before the ledger.
Serves(c, hits, kind) ==
    /\ hits \in Seq(Cells)
    /\ Becomes(c, [req[c] EXCEPT !.at = "append", !.hits = hits, !.events = EventsOf(c, kind, hits)])

LEMMA ServesIs ==
    ASSUME TypeOK, NEW c \in Conns, req[c] # None, NEW hits \in Seq(Cells), NEW kind \in EventKinds,
           req' = [req EXCEPT ![c] = [req[c] EXCEPT !.at = "append", !.hits = hits,
                                                    !.events = EventsOf(c, kind, hits)]]
    PROVE  Serves(c, hits, kind)
<1>1. req[c] \in Requests
  BY Underway
<1>2. EventsOf(c, kind, hits) \in Seq(Events)
  BY <1>1, EventsOfIs
<1>3. [req[c] EXCEPT !.at = "append", !.hits = hits, !.events = EventsOf(c, kind, hits)] \in Requests
  BY <1>1, <1>2 DEF Requests, Steps
<1> QED BY <1>1, <1>3 DEF Serves, Becomes

LEMMA SearchDoneIs ==
    ASSUME TypeOK, NEW c \in Conns, SearchDone(c)
    PROVE  /\ UNCHANGED others /\ At(c, "search") /\ req[c].walls = {}
           /\ Serves(c, req[c].hits, "Search")
<1>1. req[c] \in Requests /\ req[c] # None
  BY Underway DEF SearchDone, At
<1>2. req[c].hits \in Seq(Cells) /\ [req[c] EXCEPT !.hits = req[c].hits] = req[c]
  BY <1>1 DEF Requests
<1>3. req' = [req EXCEPT ![c] = [req[c] EXCEPT !.at = "append", !.hits = req[c].hits,
                                               !.events = EventsOf(c, "Search", req[c].hits)]]
  <2>1. [req[c] EXCEPT !.at = "append", !.hits = req[c].hits,
                       !.events = EventsOf(c, "Search", req[c].hits)]
        = [req[c] EXCEPT !.at = "append", !.events = EventsOf(c, "Search", req[c].hits)]
    BY <1>1 DEF Requests
  <2> QED BY <2>1 DEF SearchDone
<1> QED BY <1>1, <1>2, <1>3, ServesIs DEF SearchDone, others, EventKinds

LEMMA ReadOneIs ==
    ASSUME TypeOK, NEW c \in Conns, SearchOne(c) \/ Browse(c)
    PROVE  /\ UNCHANGED others /\ At(c, "read")
           /\ req[c].kind \in {"personal", "browse"}
           /\ \E hits, kind : kind \in {"Search", "Browse"} /\ Serves(c, hits, kind)
<1>1. CASE SearchOne(c)
  <2>1. PICK hits \in SearchMemories(req[c].ns, Limit) :
          req' = [req EXCEPT ![c].at = "append", ![c].hits = hits,
                             ![c].events = EventsOf(c, "Search", hits)]
    BY <1>1 DEF SearchOne
  <2>2. hits \in Seq(Cells)
    BY <2>1, RetrievalAssumption, ReadIsList
  <2>3. Serves(c, hits, "Search")
    BY <1>1, <2>1, <2>2, ServesIs DEF SearchOne, At, EventKinds
  <2> QED BY <1>1, <2>3 DEF SearchOne, others
<1>2. CASE Browse(c)
  <2>1. PICK hits \in ListMemoriesFiltered(req[c].ns, req[c].room, Limit) :
          req' = [req EXCEPT ![c].at = "append", ![c].hits = hits,
                             ![c].events = EventsOf(c, "Browse", hits)]
    BY <1>2 DEF Browse
  <2>2. hits \in Seq(Cells)
    BY <2>1, RetrievalAssumption, BrowseIs
  <2>3. Serves(c, hits, "Browse")
    BY <1>2, <2>1, <2>2, ServesIs DEF Browse, At, EventKinds
  <2> QED BY <1>2, <2>3 DEF Browse, others
<1> QED BY <1>1, <1>2

\* The rows that are live now.
LiveNow == {x \in Cells : row[x] = "live"}

LEMMA ReceiveIs ==
    ASSUME TypeOK, NEW c \in Conns, NEW kind \in Kinds, NEW ns \in Namespaces,
           NEW room \in RoomNames \cup {None}, Receive(c, kind, ns, room)
    PROVE  /\ UNCHANGED <<row, member, ledger, now, unlogged>> /\ req[c] = None
           /\ used' = [used EXCEPT !.requests = @ + 1]
           /\ \E x \in Requests :
                /\ req' = [req EXCEPT ![c] = x]
                /\ x.kind = kind /\ x.rid = used.requests /\ x.hits = <<>> /\ x.events = <<>>
                /\ x.top = None /\ x.recent = None /\ x.doctrine = None
                /\ x.steady = LiveNow /\ x.ever = LiveNow
                /\ x.at \in {"join", "walls", "read"}
                /\ (kind = "wakeup" <=> x.at = "join") /\ (kind = "visible" <=> x.at = "walls")
<1> DEFINE step == IF kind = "wakeup" THEN "join" ELSE IF kind = "visible" THEN "walls" ELSE "read"
           x == [kind |-> kind, ns |-> ns, room |-> room, rid |-> used.requests,
                 at |-> step,
                 walls |-> {}, top |-> None, recent |-> None, doctrine |-> None,
                 hits |-> <<>>, events |-> <<>>, steady |-> LiveNow, ever |-> LiveNow]
<1>1. req' = [req EXCEPT ![c] = x]
  BY DEF Receive, LiveNow
<1>2. used.requests \in Nat /\ LiveNow \in SUBSET Cells
  BY DEF TypeOK, LiveNow
<1>3. step \in Steps /\ step \in {"join", "walls", "read"}
      /\ (kind = "wakeup" <=> step = "join") /\ (kind = "visible" <=> step = "walls")
  BY DEF Steps
<1> HIDE DEF step
<1>4. x \in Requests
  BY <1>2, <1>3 DEF Requests, Lists
<1>5. x.kind = kind /\ x.rid = used.requests /\ x.hits = <<>> /\ x.events = <<>>
      /\ x.top = None /\ x.recent = None /\ x.doctrine = None
      /\ x.steady = LiveNow /\ x.ever = LiveNow /\ x.at = step
  OBVIOUS
<1> HIDE DEF x
<1> QED BY <1>1, <1>3, <1>4, <1>5 DEF Receive, Spend

LEMMA AppendIs ==
    ASSUME TypeOK, NEW c \in Conns, Append1(c)
    PROVE  /\ UNCHANGED <<row, member, now>> /\ At(c, "append") /\ req[c].events # <<>>
           /\ Head(req[c].events) \in Events
           /\ Becomes(c, [req[c] EXCEPT !.events = Tail(@)])
           /\ used' \in [requests : Nat, writes : Nat, faults : Nat]
           /\ used'.requests = used.requests
           /\ \/ /\ UNCHANGED unlogged
                 /\ ledger' = IF \E f \in ledger : LedgerKey(f) = LedgerKey(Head(req[c].events))
                              THEN ledger ELSE ledger \cup {Head(req[c].events)}
              \/ /\ UNCHANGED ledger
                 /\ unlogged' = unlogged \cup {Head(req[c].events)}
<1>1. req[c] \in Requests /\ req[c] # None
  BY Underway DEF Append1, At
<1>2. req[c].events \in Seq(Events) /\ req[c].events # <<>>
  BY <1>1 DEF Append1, Requests
<1>3. Head(req[c].events) \in Events /\ Tail(req[c].events) \in Seq(Events)
  BY <1>2
<1>4. Becomes(c, [req[c] EXCEPT !.events = Tail(@)])
  <2>1. [req[c] EXCEPT !.events = Tail(@)] \in Requests
    BY <1>1, <1>3 DEF Requests
  <2> QED BY <1>1, <2>1 DEF Append1, Becomes
<1>5. used' \in [requests : Nat, writes : Nat, faults : Nat] /\ used'.requests = used.requests
  BY DEF Append1, Spend, TypeOK
<1> QED BY <1>2, <1>3, <1>4, <1>5 DEF Append1

LEMMA AnswerIs ==
    ASSUME TypeOK, NEW c \in Conns, Answer(c)
    PROVE  /\ UNCHANGED others /\ At(c, "append") /\ req[c].events = <<>>
           /\ Becomes(c, [req[c] EXCEPT !.at = "replied"])
<1>1. req[c] \in Requests /\ req[c] # None
  BY Underway DEF Answer, At
<1>2. [req[c] EXCEPT !.at = "replied"] \in Requests
  BY <1>1 DEF Requests, Steps
<1> QED BY <1>1, <1>2 DEF Answer, Becomes, others

\* Someone else's write as each request sees it.
Seen(x, y, to) ==
    [x EXCEPT !.steady = IF to = "live" THEN @ ELSE @ \ {y},
              !.ever = IF to = "live" THEN @ \cup {y} ELSE @]

LEMMA SeenIs ==
    ASSUME NEW x \in Requests, NEW y \in Cells, NEW to
    PROVE  /\ Seen(x, y, to) \in Requests
           /\ Seen(x, y, to).kind = x.kind /\ Seen(x, y, to).ns = x.ns
           /\ Seen(x, y, to).rid = x.rid /\ Seen(x, y, to).at = x.at
           /\ Seen(x, y, to).walls = x.walls /\ Seen(x, y, to).top = x.top
           /\ Seen(x, y, to).recent = x.recent /\ Seen(x, y, to).doctrine = x.doctrine
           /\ Seen(x, y, to).hits = x.hits /\ Seen(x, y, to).events = x.events
           /\ Seen(x, y, to).steady = (IF to = "live" THEN x.steady ELSE x.steady \ {y})
           /\ Seen(x, y, to).ever = (IF to = "live" THEN x.ever \cup {y} ELSE x.ever)
BY DEF Seen, Requests

LEMMA WriteIs ==
    ASSUME TypeOK, NEW y \in Cells, NEW to \in States, Write(y, to)
    PROVE  /\ UNCHANGED <<member, ledger, now, unlogged>>
           /\ used' \in [requests : Nat, writes : Nat, faults : Nat]
           /\ used'.requests = used.requests
           /\ row' = [row EXCEPT ![y] = to] /\ row' \in [Cells -> States]
           /\ req' \in [Conns -> Requests \cup {None}]
           /\ \A c \in Conns : req'[c] = IF req[c] = None THEN None ELSE Seen(req[c], y, to)
<1>1. \A c \in Conns : req[c] # None => Seen(req[c], y, to) \in Requests
  BY Underway, SeenIs
<1>2. req' = [c \in Conns |-> IF req[c] = None THEN None ELSE Seen(req[c], y, to)]
  BY DEF Write, Seen
<1>3. req' \in [Conns -> Requests \cup {None}]
  BY <1>1, <1>2
<1>4. \A c \in Conns : req'[c] = IF req[c] = None THEN None ELSE Seen(req[c], y, to)
  BY <1>2
<1>5. row' = [row EXCEPT ![y] = to] /\ row' \in [Cells -> States]
  BY DEF Write, TypeOK
<1>6. used' \in [requests : Nat, writes : Nat, faults : Nat] /\ used'.requests = used.requests
  <2>1. used' = [used EXCEPT !.writes = @ + 1]
    BY DEF Write, Spend
  <2> QED BY <2>1 DEF TypeOK
<1> QED BY <1>3, <1>4, <1>5, <1>6 DEF Write

LEMMA TypeStep == TypeOK /\ [Next]_vars => TypeOK'
<1> SUFFICES ASSUME TypeOK, [Next]_vars PROVE TypeOK'
  OBVIOUS
<1>1. ASSUME NEW c \in Conns, NEW x \in Requests, Becomes(c, x), UNCHANGED others
      PROVE  TypeOK'
  BY <1>1 DEF Becomes, others, TypeOK
<1>2. ASSUME NEW c \in Conns, Serve(c)
      PROVE  TypeOK'
  <2>1. \A x : Becomes(c, x) => x \in Requests
    BY DEF Becomes
  <2>2. CASE ReadTop(c)
    BY <1>1, <2>1, <2>2, ReadTopIs
  <2>3. CASE ReadRecent(c)
    BY <1>1, <2>1, <2>3, ReadRecentIs
  <2>4. CASE ReadDoctrine(c)
    BY <1>1, <2>1, <2>4, ReadDoctrineIs
  <2>5. CASE Compose(c)
    BY <1>1, <2>1, <2>5, ComposeIs
  <2>6. CASE ListMemberships(c)
    BY <1>1, <2>1, <2>6, ListMembershipsIs
  <2>6a. CASE ListImports(c)
    BY <1>1, <2>1, <2>6a, ListImportsIs
  <2>7. CASE SearchWall(c)
    BY <1>1, <2>1, <2>7, SearchWallIs
  <2>8. CASE SearchDone(c)
    BY <1>1, <2>1, <2>8, SearchDoneIs DEF Serves
  <2>9. CASE SearchOne(c) \/ Browse(c)
    BY <1>1, <2>1, <2>9, ReadOneIs DEF Serves
  <2>10. CASE Answer(c)
    BY <1>1, <2>1, <2>10, AnswerIs
  <2>11. CASE Received(c)
    BY <2>11 DEF Received, TypeOK
  <2>12. CASE Append1(c)
    <3>1. /\ UNCHANGED <<row, member, now>> /\ Head(req[c].events) \in Events
          /\ Becomes(c, [req[c] EXCEPT !.events = Tail(@)])
          /\ used' \in [requests : Nat, writes : Nat, faults : Nat]
          /\ \/ ledger' = ledger /\ unlogged' = unlogged
             \/ ledger' = ledger \cup {Head(req[c].events)} /\ unlogged' = unlogged
             \/ ledger' = ledger /\ unlogged' = unlogged \cup {Head(req[c].events)}
      BY <2>12, AppendIs
    <3>2. IsFiniteSet(ledger')
      <4>1. IsFiniteSet(ledger) /\ IsFiniteSet(ledger \cup {Head(req[c].events)})
        BY FS_AddElement DEF TypeOK
      <4> QED BY <3>1, <4>1
    <3>3. req' \in [Conns -> Requests \cup {None}]
      BY <3>1 DEF Becomes, TypeOK
    <3> QED BY <3>1, <3>2, <3>3 DEF TypeOK
  <2> QED BY <1>2, <2>2, <2>3, <2>4, <2>5, <2>6, <2>6a, <2>7, <2>8, <2>9, <2>10, <2>11, <2>12 DEF Serve
<1>3. ASSUME NEW c \in Conns, NEW kind \in Kinds, NEW ns \in Namespaces,
             NEW room \in RoomNames \cup {None}, Receive(c, kind, ns, room)
      PROVE  TypeOK'
  <2>1. PICK x \in Requests : req' = [req EXCEPT ![c] = x]
    BY <1>3, ReceiveIs
  <2>2. UNCHANGED <<row, member, ledger, now, unlogged>> /\ used' = [used EXCEPT !.requests = @ + 1]
    BY <1>3, ReceiveIs
  <2> QED BY <2>1, <2>2 DEF TypeOK
<1>4. ASSUME NEW y \in Cells, NEW to \in States, Write(y, to)
      PROVE  TypeOK'
  BY <1>4, WriteIs DEF TypeOK
<1>5. ASSUME NEW ns \in Orgs, Membership(ns)
      PROVE  TypeOK'
  BY <1>5 DEF Membership, Spend, TypeOK
<1>6. ASSUME NEW t \in 1..MaxTime, Prune(t)
      PROVE  TypeOK'
  <2>1. Aged(t) \subseteq ledger
    BY DEF Aged
  <2>2. IsFiniteSet(ledger')
    BY <1>6, FS_Difference DEF Prune, TypeOK
  <2> QED BY <1>6, <2>1, <2>2 DEF Prune, TypeOK
<1>7. CASE Tick
  BY <1>7 DEF Tick, TypeOK
<1>8. CASE UNCHANGED vars
  BY <1>8 DEF vars, TypeOK
<1> QED
  <2>1. Kinds = {"wakeup", "visible", "personal", "browse"} /\ {"own", "doctrine"} \subseteq Namespaces
    BY RetrievalAssumption DEF Kinds
  <2> QED BY <1>2, <1>3, <1>4, <1>5, <1>6, <1>7, <1>8, <2>1 DEF Next, States

LEMMA TypeInit == Init => TypeOK
<1> SUFFICES ASSUME Init PROVE TypeOK
  OBVIOUS
<1>1. IsFiniteSet({})
  BY FS_EmptySet
<1> QED BY <1>1, RetrievalAssumption DEF Init, TypeOK, States

-----------------------------------------------------------------------------
(* The ledger *)

\* The events after the first n are of the doctrine rows.
DoctrineListed(n, doctrine, F) ==
    \A j \in 1..Len(doctrine) : F[n + j].ns = doctrine[j].ns /\ F[n + j].id = doctrine[j].id

\* F has the events of the request x: one for each hit, and for a wake-up one
\* for each row of doctrine after them, each with its rank.
EventsFor(x, F) ==
    /\ F \in Seq(Events)
    /\ x.kind = "wakeup" => x.doctrine \in Seq(Cells)
    /\ Len(F) = Len(x.hits) + (IF x.kind = "wakeup" THEN Len(x.doctrine) ELSE 0)
    /\ \A i \in 1..Len(F) : F[i].rid = x.rid
    /\ \A i \in 1..Len(x.hits) :
        /\ F[i].ns = x.hits[i].ns /\ F[i].id = x.hits[i].id /\ F[i].rank = i - 1
        /\ F[i].kind # "WakeupDoctrine"
    /\ \A i \in Len(x.hits) + 1..Len(F) :
        F[i].kind = "WakeupDoctrine" /\ F[i].rank = (i - Len(x.hits)) - 1
    /\ x.kind = "wakeup" => DoctrineListed(Len(x.hits), x.doctrine, F)

\* L has the first k of them, and the request has the others yet to append.
Written(x, L, F, k) ==
    /\ k \in 0..Len(F)
    /\ L = {F[i] : i \in 1..k}
    /\ Len(x.events) = Len(F) - k
    /\ \A i \in 1..Len(x.events) : x.events[i] = F[k + i]
    /\ x.at = "replied" => k = Len(F)

\* The events L that bear the request's id.
Page(x, L) ==
    IF x.at \in {"append", "replied"}
    THEN \E F, k : EventsFor(x, F) /\ Written(x, L, F, k)
    ELSE L = {}

KindAt(x) ==
    /\ x.at = "join" => x.kind = "wakeup"
    /\ x.at \in {"walls", "stats", "search"} => x.kind = "visible"
    /\ x.at = "read" => x.kind \in {"personal", "browse"}

Logged(r) == {e \in ledger \cup unlogged : e.rid = r}

LedgerInv ==
    /\ \A e \in ledger \cup unlogged : e.rid < used.requests
    /\ \A c \in Conns : req[c] # None =>
        /\ req[c].rid < used.requests
        /\ KindAt(req[c]) /\ Page(req[c], Logged(req[c].rid))
    /\ \A c, d \in Conns : c # d /\ req[c] # None /\ req[d] # None => req[c].rid # req[d].rid

LEMMA EventsDiffer ==
    ASSUME NEW x \in Requests, NEW F, EventsFor(x, F), NEW i \in 1..Len(F), NEW j \in 1..Len(F), i # j
    PROVE  F[i].kind # F[j].kind \/ F[i].rank # F[j].rank
<1>1. Len(x.hits) \in Nat /\ Len(F) \in Nat
  BY DEF EventsFor, Requests
<1>2. \A k \in 1..Len(F) : k \in 1..Len(x.hits) \/ k \in Len(x.hits) + 1..Len(F)
  BY <1>1
<1>3. CASE i \in 1..Len(x.hits) /\ j \in 1..Len(x.hits)
  <2>1. i - 1 # j - 1
    BY <1>1
  <2> QED BY <1>3, <2>1 DEF EventsFor
<1>4. CASE i \in Len(x.hits) + 1..Len(F) /\ j \in Len(x.hits) + 1..Len(F)
  <2>1. (i - Len(x.hits)) - 1 # (j - Len(x.hits)) - 1
    BY <1>1
  <2> QED BY <1>4, <2>1 DEF EventsFor
<1>5. CASE i \in 1..Len(x.hits) /\ j \in Len(x.hits) + 1..Len(F)
  BY <1>5 DEF EventsFor
<1>6. CASE j \in 1..Len(x.hits) /\ i \in Len(x.hits) + 1..Len(F)
  BY <1>6 DEF EventsFor
<1> QED BY <1>2, <1>3, <1>4, <1>5, <1>6

\* The next event appended has a key that none of the request's has yet.
LEMMA PageGrows ==
    ASSUME NEW x \in Requests, NEW L, Page(x, L), x.at = "append", x.events # <<>>,
           NEW e, e = Head(x.events), NEW y, y = [x EXCEPT !.events = Tail(@)]
    PROVE  /\ Page(y, L \cup {e}) /\ e.rid = x.rid
           /\ \A f \in L : LedgerKey(f) # LedgerKey(e)
<1>1. PICK F, k : EventsFor(x, F) /\ Written(x, L, F, k)
  BY DEF Page
<1>2. x.events \in Seq(Events) /\ Len(x.events) \in Nat /\ Len(F) \in Nat
  BY <1>1 DEF Requests, EventsFor
<1>3. Len(x.events) > 0 /\ k \in Nat /\ k + 1 \in 1..Len(F) /\ e = F[k + 1]
  <2>1. Len(x.events) > 0 /\ e = x.events[1]
    BY <1>2
  <2>2. k \in 0..Len(F) /\ Len(x.events) = Len(F) - k
        /\ \A i \in 1..Len(x.events) : x.events[i] = F[k + i]
    BY <1>1 DEF Written
  <2>3. k \in Nat /\ k + 1 \in 1..Len(F) /\ 1 \in 1..Len(x.events)
    BY <1>2, <2>1, <2>2
  <2> QED BY <2>1, <2>2, <2>3
<1>4. y \in Requests /\ y.events = Tail(x.events) /\ y.at = x.at /\ EventsFor(y, F)
  <2>1. Tail(x.events) \in Seq(Events)
    BY <1>2
  <2>2. y \in Requests /\ y.events = Tail(x.events) /\ y.at = x.at /\ y.kind = x.kind
        /\ y.hits = x.hits /\ y.doctrine = x.doctrine /\ y.rid = x.rid
    BY <2>1 DEF Requests
  <2> QED BY <1>1, <2>2 DEF EventsFor
<1>5. Len(y.events) = Len(x.events) - 1 /\ \A i \in 1..Len(x.events) - 1 : y.events[i] = x.events[i + 1]
  BY <1>2, <1>3, <1>4
<1>6. L \cup {e} = {F[i] : i \in 1..k + 1}
  <2>1. \A i : i \in 1..k + 1 <=> i \in 1..k \/ i = k + 1
    BY <1>3
  <2>2. L = {F[i] : i \in 1..k}
    BY <1>1 DEF Written
  <2> QED BY <1>3, <2>1, <2>2
<1>7. \A i \in 1..Len(y.events) : y.events[i] = F[(k + 1) + i]
  <2>1. ASSUME NEW i \in 1..Len(y.events)
        PROVE  y.events[i] = F[(k + 1) + i]
    <3>1. i \in 1..Len(x.events) - 1 /\ i + 1 \in 1..Len(x.events) /\ k + (i + 1) = (k + 1) + i
      <4>1. i \in Nat /\ i > 0 /\ i <= Len(x.events) - 1
        BY <1>2, <1>3, <1>5
      <4>2. Len(x.events) \in Nat /\ k \in Nat
        BY <1>2, <1>3
      <4>3. i + 1 \in 1..Len(x.events) /\ i \in 1..Len(x.events) - 1
        BY <4>1, <4>2
      <4>4. k + (i + 1) = (k + 1) + i
        BY <4>1, <4>2
      <4> QED BY <4>3, <4>4
    <3>2. x.events[i + 1] = F[k + (i + 1)]
      BY <1>1, <3>1 DEF Written
    <3> QED BY <1>5, <3>1, <3>2
  <2> QED BY <2>1
<1>8. Len(y.events) = Len(F) - (k + 1) /\ k + 1 \in 0..Len(F)
  BY <1>1, <1>2, <1>3, <1>5 DEF Written
<1>9. Written(y, L \cup {e}, F, k + 1)
  BY <1>4, <1>6, <1>7, <1>8 DEF Written
<1>10. \A f \in L : LedgerKey(f) # LedgerKey(e)
  <2> SUFFICES ASSUME NEW i \in 1..k PROVE LedgerKey(F[i]) # LedgerKey(e)
    BY <1>1 DEF Written
  <2>1. i \in 1..Len(F) /\ i # k + 1
    BY <1>2, <1>3
  <2>2. F[i].kind # F[k + 1].kind \/ F[i].rank # F[k + 1].rank
    BY <1>1, <1>3, <2>1, EventsDiffer
  <2> QED BY <1>3, <2>2 DEF LedgerKey
<1>11. Page(y, L \cup {e})
  BY <1>4, <1>9 DEF Page
<1>12. e.rid = x.rid
  BY <1>1, <1>3 DEF EventsFor
<1> QED BY <1>10, <1>11, <1>12

\* A step of one request that appends nothing under another one's id.
LEMMA LedgerStep ==
    ASSUME TypeOK, LedgerInv, NEW c \in Conns, NEW x, Becomes(c, x), x.rid = req[c].rid, KindAt(x),
           used'.requests = used.requests,
           NEW E, \A e \in E : e.rid = x.rid,
           ledger' \cup unlogged' = (ledger \cup unlogged) \cup E,
           Page(x, Logged(x.rid) \cup E)
    PROVE  LedgerInv'
<1>1. x \in Requests /\ req[c] \in Requests /\ req[c] # None /\ req' = [req EXCEPT ![c] = x]
  BY DEF Becomes
<1>2. req'[c] = x /\ \A d \in Conns : d # c => req'[d] = req[d]
  BY <1>1 DEF TypeOK
<1>3. x.rid < used.requests
  BY <1>1 DEF LedgerInv
<1>4. \A e \in ledger' \cup unlogged' : e.rid < used'.requests
  BY <1>3 DEF LedgerInv
<1>5. Logged(x.rid)' = Logged(x.rid) \cup E
  <2>1. {e \in ledger' \cup unlogged' : e.rid = x.rid}
        = {e \in ledger \cup unlogged : e.rid = x.rid} \cup E
    OBVIOUS
  <2> QED BY <2>1 DEF Logged
<1>6. ASSUME NEW d \in Conns, d # c, req[d] # None
      PROVE  {e \in ledger' \cup unlogged' : e.rid = req[d].rid} = Logged(req[d].rid)
  <2>1. req[d].rid # x.rid
    BY <1>1, <1>6 DEF LedgerInv
  <2>2. {e \in ledger' \cup unlogged' : e.rid = req[d].rid}
        = {e \in ledger \cup unlogged : e.rid = req[d].rid}
    BY <2>1
  <2> QED BY <2>2 DEF Logged
<1>7. ASSUME NEW d \in Conns, req'[d] # None
      PROVE  /\ req'[d].rid < used'.requests /\ KindAt(req'[d])
             /\ Page(req'[d], {e \in ledger' \cup unlogged' : e.rid = req'[d].rid})
  <2>1. CASE d = c
    <3>1. {e \in ledger' \cup unlogged' : e.rid = x.rid} = Logged(x.rid) \cup E
      BY <1>5 DEF Logged
    <3> QED BY <1>2, <1>3, <2>1, <3>1
  <2>2. CASE d # c
    <3>1. req'[d] = req[d] /\ req[d] # None
      BY <1>2, <1>7, <2>2
    <3>2. {e \in ledger' \cup unlogged' : e.rid = req[d].rid} = Logged(req[d].rid)
      BY <1>6, <2>2, <3>1
    <3>3. req[d].rid < used.requests /\ KindAt(req[d]) /\ Page(req[d], Logged(req[d].rid))
      BY <3>1 DEF LedgerInv
    <3> QED BY <3>1, <3>2, <3>3
  <2> QED BY <2>1, <2>2
<1>8. \A d, f \in Conns : d # f /\ req'[d] # None /\ req'[f] # None => req'[d].rid # req'[f].rid
  BY <1>1, <1>2 DEF LedgerInv
<1> QED BY <1>4, <1>7, <1>8 DEF LedgerInv, Logged

\* A step that begins the appends, with nothing logged before.
LEMMA PageBegins ==
    ASSUME NEW x \in Requests, x.at \notin {"append", "replied"}, NEW L, Page(x, L),
           NEW hits \in Seq(Cells), NEW F, NEW y,
           y = [x EXCEPT !.at = "append", !.hits = hits, !.events = F], EventsFor(y, F)
    PROVE  Page(y, L)
<1>1. L = {}
  BY DEF Page
<1>2. y.events = F /\ y.at = "append"
  BY DEF Requests
<1>3. Len(F) \in Nat
  BY DEF EventsFor
<1>4. Written(y, L, F, 0)
  <2>1. 0 \in 0..Len(F) /\ Len(y.events) = Len(F) - 0
    BY <1>2, <1>3
  <2>2. L = {F[i] : i \in 1..0}
    BY <1>1
  <2>3. \A i \in 1..Len(y.events) : y.events[i] = F[0 + i]
    BY <1>2, <1>3
  <2> QED BY <1>2, <2>1, <2>2, <2>3 DEF Written
<1> QED BY <1>2, <1>4 DEF Page

LEMMA PageOfSearch ==
    ASSUME TypeOK, NEW c \in Conns, req[c] \in Requests, req[c].kind # "wakeup",
           NEW hits \in Seq(Cells), NEW kind \in {"Search", "Browse"},
           NEW y, y = [req[c] EXCEPT !.at = "append", !.hits = hits, !.events = EventsOf(c, kind, hits)]
    PROVE  EventsFor(y, EventsOf(c, kind, hits))
<1> DEFINE F == EventsOf(c, kind, hits)
<1>1. F \in Seq(Events)
  BY EventsOfIs DEF EventKinds
<1>2. Len(hits) \in Nat /\ Len(F) = Len(hits) /\ \A i \in 1..Len(hits) : F[i] = Event(c, kind, hits[i], i - 1)
  BY DEF EventsOf
<1>3. y.kind = req[c].kind /\ y.hits = hits /\ y.rid = req[c].rid
  BY DEF Requests
<1> HIDE DEF F
<1>5. ASSUME NEW i \in 1..Len(hits)
      PROVE  /\ F[i].ns = hits[i].ns /\ F[i].id = hits[i].id /\ F[i].rank = i - 1
             /\ F[i].kind # "WakeupDoctrine" /\ F[i].rid = y.rid
  <2>1. F[i] = Event(c, kind, hits[i], i - 1)
    BY <1>2
  <2> QED BY <1>3, <2>1 DEF Event
<1>4. \A i \in 1..Len(F) : F[i].rid = y.rid
  BY <1>2, <1>5
<1>6. \A i \in Len(hits) + 1..Len(F) : FALSE
  BY <1>2
<1>7. Len(F) = Len(y.hits) + 0
  BY <1>2, <1>3
<1> QED BY <1>1, <1>3, <1>4, <1>5, <1>6, <1>7 DEF EventsFor, F

LEMMA Joined ==
    ASSUME NEW S, NEW a \in Seq(S), NEW b \in Seq(S), NEW s, s = a \o b
    PROVE  /\ s \in Seq(S) /\ Len(s) = Len(a) + Len(b) /\ Len(a) \in Nat /\ Len(b) \in Nat
           /\ \A i \in 1..Len(a) : s[i] = a[i]
           /\ \A i \in 1..Len(b) : s[Len(a) + i] = b[i]
           /\ \A i \in Len(a) + 1..Len(s) : i - Len(a) \in 1..Len(b) /\ s[i] = b[i - Len(a)]
<1>1. /\ s \in Seq(S) /\ Len(s) = Len(a) + Len(b) /\ Len(a) \in Nat /\ Len(b) \in Nat
      /\ \A i \in 1..Len(a) : s[i] = a[i]
      /\ \A i \in 1..Len(b) : s[Len(a) + i] = b[i]
  OBVIOUS
<1>2. ASSUME NEW i \in Len(a) + 1..Len(s)
      PROVE  i - Len(a) \in 1..Len(b) /\ s[i] = b[i - Len(a)]
  <2>1. i - Len(a) \in 1..Len(b) /\ Len(a) + (i - Len(a)) = i
    BY <1>1
  <2> QED BY <1>1, <2>1
<1> QED BY <1>1, <1>2

LEMMA PageOfWakeup ==
    ASSUME TypeOK, NEW c \in Conns, req[c] \in Requests, req[c].kind = "wakeup",
           req[c].doctrine \in Seq(Cells), NEW hits \in Seq(Cells),
           NEW y, y = [req[c] EXCEPT !.at = "append", !.hits = hits, !.events = WakeupEvents(c, hits)]
    PROVE  EventsFor(y, WakeupEvents(c, hits))
<1> DEFINE F == WakeupEvents(c, hits)
           doctrine == req[c].doctrine
           a == [i \in 1..Len(hits) |-> Event(c, StratumOf(c, hits[i]), hits[i], i - 1)]
           b == EventsOf(c, "WakeupDoctrine", doctrine)
<1>1. b \in Seq(Events) /\ Len(b) = Len(doctrine)
      /\ \A i \in 1..Len(doctrine) : b[i] = Event(c, "WakeupDoctrine", doctrine[i], i - 1)
  <2>1. b \in Seq(Events)
    BY EventsOfIs DEF EventKinds
  <2> QED BY <2>1 DEF EventsOf
<1>2. a \in Seq(Events) /\ Len(a) = Len(hits)
      /\ \A i \in 1..Len(hits) : a[i] = Event(c, StratumOf(c, hits[i]), hits[i], i - 1)
  <2>1. \A i \in 1..Len(hits) : hits[i] \in Cells /\ i - 1 \in Nat /\ StratumOf(c, hits[i]) \in EventKinds
    BY DEF StratumOf, EventKinds
  <2>2. \A i \in 1..Len(hits) : Event(c, StratumOf(c, hits[i]), hits[i], i - 1) \in Events
    BY <2>1, EventIs
  <2> QED BY <2>2
<1>3. F = a \o b
  BY DEF WakeupEvents
<1>4. y.kind = "wakeup" /\ y.hits = hits /\ y.rid = req[c].rid /\ y.doctrine = doctrine
  BY DEF Requests
<1> HIDE DEF F, a, b, doctrine
<1>3a. a \in Seq(Events) /\ b \in Seq(Events)
  BY <1>1, <1>2
<1>5b. F \in Seq(Events) /\ Len(F) = Len(a) + Len(b) /\ Len(a) \in Nat /\ Len(b) \in Nat
  BY <1>3, <1>3a, Joined
<1>5c. \A i \in 1..Len(a) : F[i] = a[i]
  BY <1>3, <1>3a, Joined
<1>5d. \A i \in Len(a) + 1..Len(F) : i - Len(a) \in 1..Len(b) /\ F[i] = b[i - Len(a)]
  BY <1>3, <1>3a, Joined
<1>5. /\ F \in Seq(Events) /\ Len(F) = Len(a) + Len(b) /\ Len(a) \in Nat /\ Len(b) \in Nat
      /\ \A i \in 1..Len(a) : F[i] = a[i]
      /\ \A i \in Len(a) + 1..Len(F) : i - Len(a) \in 1..Len(b) /\ F[i] = b[i - Len(a)]
  BY <1>5b, <1>5c, <1>5d
<1>5a. \A j \in 1..Len(b) : F[Len(a) + j] = b[j]
  BY <1>3, <1>3a, Joined
<1>6. ASSUME NEW i \in 1..Len(hits)
      PROVE  /\ F[i].ns = hits[i].ns /\ F[i].id = hits[i].id /\ F[i].rank = i - 1
             /\ F[i].kind # "WakeupDoctrine" /\ F[i].rid = y.rid
  <2>1. F[i] = Event(c, StratumOf(c, hits[i]), hits[i], i - 1)
    BY <1>2, <1>5
  <2>2. StratumOf(c, hits[i]) # "WakeupDoctrine"
    BY DEF StratumOf
  <2> QED BY <1>4, <2>1, <2>2 DEF Event
<1>7. ASSUME NEW i \in Len(hits) + 1..Len(F)
      PROVE  F[i].kind = "WakeupDoctrine" /\ F[i].rank = (i - Len(hits)) - 1 /\ F[i].rid = y.rid
  <2>1. i - Len(hits) \in 1..Len(doctrine) /\ F[i] = b[i - Len(hits)]
    BY <1>1, <1>2, <1>5
  <2>2. F[i] = Event(c, "WakeupDoctrine", doctrine[i - Len(hits)], (i - Len(hits)) - 1)
    BY <1>1, <2>1
  <2> QED BY <1>4, <2>2 DEF Event
<1>8. \A i \in 1..Len(F) : F[i].rid = y.rid
  <2>1. \A i \in 1..Len(F) : i \in 1..Len(hits) \/ i \in Len(hits) + 1..Len(F)
    BY <1>2, <1>5
  <2> QED BY <1>6, <1>7, <2>1
<1>9. Len(F) = Len(y.hits) + Len(y.doctrine) /\ y.doctrine \in Seq(Cells)
  BY <1>1, <1>2, <1>4, <1>5 DEF doctrine
<1>10. DoctrineListed(Len(y.hits), y.doctrine, F)
  <2> SUFFICES ASSUME NEW j \in 1..Len(doctrine)
               PROVE  F[Len(hits) + j].ns = doctrine[j].ns /\ F[Len(hits) + j].id = doctrine[j].id
    BY <1>4 DEF DoctrineListed
  <2>1. F[Len(hits) + j] = Event(c, "WakeupDoctrine", doctrine[j], j - 1)
    BY <1>1, <1>2, <1>5a
  <2> QED BY <2>1 DEF Event
<1> QED BY <1>4, <1>5, <1>6, <1>7, <1>8, <1>9, <1>10 DEF EventsFor, F

LEMMA QuietStep ==
    ASSUME TypeOK, LedgerInv, NEW c \in Conns, NEW x, Becomes(c, x), x.rid = req[c].rid, KindAt(x),
           UNCHANGED others, Page(x, Logged(x.rid))
    PROVE  LedgerInv'
<1> DEFINE E == {}
<1>1. /\ \A e \in E : e.rid = x.rid
      /\ ledger' \cup unlogged' = (ledger \cup unlogged) \cup E
      /\ used'.requests = used.requests
  BY DEF others
<1>2. Logged(x.rid) \cup E = Logged(x.rid)
  OBVIOUS
<1>3. Page(x, Logged(x.rid) \cup E)
  BY <1>2
<1> HIDE DEF E
<1> QED BY <1>1, <1>3, LedgerStep

\* A step before the appends that leaves what the page depends on alone.
LEMMA ReadStep ==
    ASSUME TypeOK, LedgerInv, NEW c \in Conns, NEW x, Becomes(c, x), UNCHANGED others,
           x.rid = req[c].rid, x.kind = req[c].kind,
           req[c].at \notin {"append", "replied"},
           \/ x.at = req[c].at
           \/ req[c].at = "walls" /\ x.at = "stats"
           \/ req[c].at = "stats" /\ x.at = "search"
    PROVE  LedgerInv'
<1>1. req[c] # None /\ x.at \notin {"append", "replied"}
  BY DEF Becomes
<1>2. KindAt(req[c]) /\ Page(req[c], Logged(req[c].rid))
  BY <1>1 DEF LedgerInv
<1>3. KindAt(x)
  BY <1>2 DEF KindAt
<1>4. Page(x, Logged(x.rid))
  BY <1>1, <1>2 DEF Page
<1> QED BY <1>3, <1>4, QuietStep

LEMMA LedgerServe ==
    ASSUME TypeOK, LedgerInv, NEW c \in Conns, Serve(c)
    PROVE  LedgerInv'
<1> DEFINE x == req[c]
<1>1. CASE ReadTop(c)
  <2>1. PICK list : UNCHANGED others /\ At(c, "join") /\ Becomes(c, [x EXCEPT !.top = list])
    BY <1>1, ReadTopIs
  <2>2. LET y == [x EXCEPT !.top = list] IN y.rid = x.rid /\ y.kind = x.kind /\ y.at = x.at
    BY <2>1 DEF Becomes, Requests
  <2> QED BY <2>1, <2>2, ReadStep DEF At
<1>2. CASE ReadRecent(c)
  <2>1. PICK list : UNCHANGED others /\ At(c, "join") /\ Becomes(c, [x EXCEPT !.recent = list])
    BY <1>2, ReadRecentIs
  <2>2. LET y == [x EXCEPT !.recent = list] IN y.rid = x.rid /\ y.kind = x.kind /\ y.at = x.at
    BY <2>1 DEF Becomes, Requests
  <2> QED BY <2>1, <2>2, ReadStep DEF At
<1>3. CASE ReadDoctrine(c)
  <2>1. PICK list : UNCHANGED others /\ At(c, "join") /\ Becomes(c, [x EXCEPT !.doctrine = list])
    BY <1>3, ReadDoctrineIs
  <2>2. LET y == [x EXCEPT !.doctrine = list] IN y.rid = x.rid /\ y.kind = x.kind /\ y.at = x.at
    BY <2>1 DEF Becomes, Requests
  <2> QED BY <2>1, <2>2, ReadStep DEF At
<1>4. CASE ListMemberships(c)
  <2>1. PICK walls : /\ UNCHANGED others /\ At(c, "walls")
                     /\ Becomes(c, [x EXCEPT !.at = "stats", !.walls = walls])
    BY <1>4, ListMembershipsIs
  <2>2. LET y == [x EXCEPT !.at = "stats", !.walls = walls] IN
        y.rid = x.rid /\ y.kind = x.kind /\ y.at = "stats"
    BY <2>1 DEF Becomes, Requests
  <2> QED BY <2>1, <2>2, ReadStep DEF At
<1>4a. CASE ListImports(c)
  <2>1. PICK walls : /\ UNCHANGED others /\ At(c, "stats")
                     /\ Becomes(c, [x EXCEPT !.at = "search", !.walls = walls])
    BY <1>4a, ListImportsIs
  <2>2. LET y == [x EXCEPT !.at = "search", !.walls = walls] IN
        y.rid = x.rid /\ y.kind = x.kind /\ y.at = "search"
    BY <2>1 DEF Becomes, Requests
  <2> QED BY <2>1, <2>2, ReadStep DEF At
<1>5. CASE SearchWall(c)
  <2>1. PICK w, hits : /\ UNCHANGED others /\ At(c, "search")
                       /\ Becomes(c, [x EXCEPT !.walls = @ \ {w}, !.hits = hits])
    BY <1>5, SearchWallIs
  <2>2. LET y == [x EXCEPT !.walls = @ \ {w}, !.hits = hits] IN
        y.rid = x.rid /\ y.kind = x.kind /\ y.at = x.at
    BY <2>1 DEF Becomes, Requests
  <2> QED BY <2>1, <2>2, ReadStep DEF At
<1>6. ASSUME NEW hits, NEW kind \in {"Search", "Browse"}, Serves(c, hits, kind), UNCHANGED others,
             At(c, "search") \/ At(c, "read")
      PROVE  LedgerInv'
  <2> DEFINE y == [x EXCEPT !.at = "append", !.hits = hits, !.events = EventsOf(c, kind, hits)]
  <2>1. hits \in Seq(Cells) /\ Becomes(c, y) /\ x \in Requests /\ x # None
    BY <1>6 DEF Serves, Becomes
  <2>2. KindAt(x) /\ Page(x, Logged(x.rid)) /\ x.kind # "wakeup" /\ x.at \notin {"append", "replied"}
    BY <1>6, <2>1 DEF LedgerInv, At, KindAt
  <2>3. EventsFor(y, EventsOf(c, kind, hits))
    BY <2>1, <2>2, PageOfSearch
  <2>4. y.rid = x.rid /\ y.at = "append"
    BY <2>1 DEF Requests
  <2>5. Page(y, Logged(x.rid))
    BY <2>1, <2>2, <2>3, PageBegins
  <2> HIDE DEF y
  <2>6. KindAt(y) /\ Page(y, Logged(y.rid))
    BY <2>4, <2>5 DEF KindAt
  <2> QED BY <1>6, <2>1, <2>4, <2>6, QuietStep
<1>7. CASE SearchDone(c)
  BY <1>6, <1>7, SearchDoneIs
<1>8. CASE SearchOne(c) \/ Browse(c)
  BY <1>6, <1>8, ReadOneIs
<1>9. CASE Compose(c)
  <2>1. PICK hits \in Seq(Cells) :
            Becomes(c, [x EXCEPT !.at = "append", !.hits = hits, !.events = WakeupEvents(c, hits)])
    BY <1>9, ComposeIs
  <2>2. UNCHANGED others /\ At(c, "join") /\ x.doctrine \in Seq(Cells)
    BY <1>9, ComposeIs
  <2> DEFINE y == [x EXCEPT !.at = "append", !.hits = hits, !.events = WakeupEvents(c, hits)]
  <2>3. Becomes(c, y) /\ x \in Requests /\ x # None
    BY <2>1 DEF Becomes
  <2>4. KindAt(x) /\ Page(x, Logged(x.rid)) /\ x.kind = "wakeup" /\ x.at \notin {"append", "replied"}
    BY <2>2, <2>3 DEF LedgerInv, At, KindAt
  <2>5. EventsFor(y, WakeupEvents(c, hits))
    BY <2>2, <2>3, <2>4, PageOfWakeup
  <2>6. y.rid = x.rid /\ y.at = "append"
    BY <2>3 DEF Requests
  <2>7. Page(y, Logged(x.rid))
    BY <2>3, <2>4, <2>5, PageBegins
  <2> HIDE DEF y
  <2>8. KindAt(y) /\ Page(y, Logged(y.rid))
    BY <2>6, <2>7 DEF KindAt
  <2> QED BY <2>2, <2>3, <2>6, <2>8, QuietStep
<1>10. CASE Append1(c)
  <2> DEFINE y == [x EXCEPT !.events = Tail(@)]
             e == Head(x.events)
  <2>1. /\ At(c, "append") /\ x.events # <<>> /\ Becomes(c, y) /\ used'.requests = used.requests
        /\ \/ /\ UNCHANGED unlogged
              /\ ledger' = IF \E f \in ledger : LedgerKey(f) = LedgerKey(e)
                           THEN ledger ELSE ledger \cup {e}
           \/ /\ UNCHANGED ledger
              /\ unlogged' = unlogged \cup {e}
    BY <1>10, AppendIs
  <2>2. x \in Requests /\ x # None /\ x.at = "append"
    BY <2>1 DEF Becomes, At
  <2>3. Page(x, Logged(x.rid))
    BY <2>2 DEF LedgerInv
  <2>4. /\ Page(y, Logged(x.rid) \cup {e}) /\ e.rid = x.rid
        /\ \A f \in Logged(x.rid) : LedgerKey(f) # LedgerKey(e)
    BY <2>1, <2>2, <2>3, PageGrows
  <2>5. y.rid = x.rid /\ y.at = "append"
    BY <2>2 DEF Requests
  <2> HIDE DEF y, e
  <2>6. ~ \E f \in ledger : LedgerKey(f) = LedgerKey(e)
    <3> SUFFICES ASSUME NEW f \in ledger, LedgerKey(f) = LedgerKey(e) PROVE FALSE
      OBVIOUS
    <3>1. f.rid = e.rid
      <4>1. LedgerKey(f).rid = f.rid /\ LedgerKey(e).rid = e.rid
        BY DEF LedgerKey
      <4> QED BY <4>1
    <3> QED BY <2>4, <3>1 DEF Logged
  <2>7. ledger' \cup unlogged' = (ledger \cup unlogged) \cup {e}
    BY <2>1, <2>6
  <2>8. KindAt(y)
    BY <2>5 DEF KindAt
  <2> DEFINE E == {e}
  <2>9. /\ \A f \in E : f.rid = y.rid
        /\ Page(y, Logged(y.rid) \cup E)
        /\ ledger' \cup unlogged' = (ledger \cup unlogged) \cup E
    BY <2>4, <2>5, <2>7
  <2> HIDE DEF E
  <2> QED BY <2>1, <2>5, <2>8, <2>9, LedgerStep
<1>11. CASE Answer(c)
  <2> DEFINE y == [req[c] EXCEPT !.at = "replied"]
  <2>1. UNCHANGED others /\ At(c, "append") /\ x.events = <<>> /\ Becomes(c, y)
    BY <1>11, AnswerIs
  <2>2. x \in Requests /\ x # None /\ x.at = "append"
    BY <2>1 DEF Becomes, At
  <2>3. Page(x, Logged(x.rid))
    BY <2>2 DEF LedgerInv
  <2>4. PICK F, k : EventsFor(x, F) /\ Written(x, Logged(x.rid), F, k)
    BY <2>2, <2>3 DEF Page
  <2>5. y.rid = x.rid /\ y.at = "replied" /\ y.kind = x.kind /\ y.hits = x.hits
        /\ y.doctrine = x.doctrine /\ y.events = x.events
    BY <2>2 DEF Requests
  <2> HIDE DEF y
  <2>6. Len(F) \in Nat /\ Len(x.events) = 0
    <3>1. F \in Seq(Events)
      BY <2>4, Zenon DEF EventsFor
    <3>2. x.events = <<>>
      BY <2>1
    <3> QED BY <3>1, <3>2
  <2>7. EventsFor(y, F)
    BY <2>4, <2>5 DEF EventsFor
  <2>8. k = Len(F)
    BY <2>4, <2>6 DEF Written
  <2>9. Written(y, Logged(x.rid), F, k)
    BY <2>4, <2>5, <2>8 DEF Written
  <2>10. Page(y, Logged(y.rid)) /\ KindAt(y)
    BY <2>5, <2>7, <2>9 DEF Page, KindAt
  <2> QED BY <2>1, <2>5, <2>10, QuietStep
<1>12. CASE Received(c)
  <2>1. req' = [req EXCEPT ![c] = None] /\ UNCHANGED <<ledger, unlogged, used>>
    BY <1>12 DEF Received
  <2>2. \A d \in Conns : req'[d] # None => req'[d] = req[d] /\ req[d] # None
    BY <2>1 DEF TypeOK
  <2> QED BY <2>1, <2>2 DEF LedgerInv, Logged
<1> QED BY <1>1, <1>2, <1>3, <1>4, <1>4a, <1>5, <1>7, <1>8, <1>9, <1>10, <1>11, <1>12 DEF Serve

LEMMA LedgerNext == TypeOK /\ LedgerInv /\ [Next]_vars => LedgerInv'
<1> SUFFICES ASSUME TypeOK, LedgerInv, [Next]_vars PROVE LedgerInv'
  OBVIOUS
<1>1. ASSUME NEW c \in Conns, Serve(c)
      PROVE  LedgerInv'
  BY <1>1, LedgerServe
<1>2. ASSUME UNCHANGED <<req, used>>, ledger' \cup unlogged' = ledger \cup unlogged
      PROVE  LedgerInv'
  BY <1>2 DEF LedgerInv, Logged
<1>3. ASSUME NEW c \in Conns, NEW kind \in Kinds, NEW ns \in Namespaces,
             NEW room \in RoomNames \cup {None}, Receive(c, kind, ns, room)
      PROVE  LedgerInv'
  <2>1. /\ UNCHANGED <<ledger, unlogged>> /\ req[c] = None
        /\ used' = [used EXCEPT !.requests = @ + 1]
    BY <1>3, ReceiveIs
  <2>2. PICK x \in Requests :
          /\ req' = [req EXCEPT ![c] = x]
          /\ x.kind = kind /\ x.rid = used.requests /\ x.at \in {"join", "walls", "read"}
          /\ (kind = "wakeup" <=> x.at = "join") /\ (kind = "visible" <=> x.at = "walls")
    BY <1>3, ReceiveIs
  <2>3. used.requests \in Nat /\ used'.requests = used.requests + 1
    BY <2>1 DEF TypeOK
  <2>4. req'[c] = x /\ \A d \in Conns : d # c => req'[d] = req[d]
    BY <2>2 DEF TypeOK
  <2>5. \A e \in ledger \cup unlogged : e.rid \in Nat /\ e.rid < used.requests
    BY DEF TypeOK, Events, LedgerInv
  <2>6. \A d \in Conns : req[d] # None => req[d].rid \in Nat /\ req[d].rid < used.requests
    BY Underway DEF LedgerInv, Requests
  <2>7. Logged(x.rid) = {}
    BY <2>2, <2>3, <2>5 DEF Logged
  <2>8. KindAt(x) /\ Page(x, Logged(x.rid))
    BY <2>2, <2>7 DEF KindAt, Kinds, Page
  <2>9. \A r : Logged(r)' = Logged(r)
    BY <2>1 DEF Logged
  <2>10. ASSUME NEW d \in Conns, req'[d] # None
         PROVE  /\ req'[d].rid < used'.requests /\ KindAt(req'[d])
                /\ Page(req'[d], Logged(req'[d].rid))
    <3>1. CASE d = c
      BY <2>2, <2>3, <2>4, <2>8, <3>1
    <3>2. CASE d # c
      <4>1. req'[d] = req[d] /\ req[d] # None
        BY <2>4, <2>10, <3>2
      <4>2. KindAt(req[d]) /\ Page(req[d], Logged(req[d].rid))
        BY <4>1 DEF LedgerInv
      <4>3. req[d].rid < used'.requests
        BY <2>3, <2>6, <4>1
      <4> QED BY <4>1, <4>2, <4>3
    <3> QED BY <3>1, <3>2
  <2>11. \A d, f \in Conns : d # f /\ req'[d] # None /\ req'[f] # None => req'[d].rid # req'[f].rid
    <3>1. \A d \in Conns : d # c /\ req'[d] # None => req'[d].rid \in Nat /\ req'[d].rid < used.requests
      BY <2>4, <2>6
    <3>2. req'[c].rid = used.requests
      BY <2>2, <2>4
    <3>3. \A d, f \in Conns : d # f /\ d # c /\ f # c /\ req'[d] # None /\ req'[f] # None
            => req'[d].rid # req'[f].rid
      BY <2>4 DEF LedgerInv
    <3> QED BY <2>3, <3>1, <3>2, <3>3
  <2>12. \A e \in ledger' \cup unlogged' : e.rid < used'.requests
    BY <2>1, <2>3, <2>5
  <2> QED BY <2>1, <2>10, <2>11, <2>12 DEF LedgerInv, Logged
<1>4. ASSUME NEW y \in Cells, NEW to \in States, Write(y, to)
      PROVE  LedgerInv'
  <2>1. /\ UNCHANGED <<ledger, unlogged>> /\ used'.requests = used.requests
        /\ \A c \in Conns : req'[c] = IF req[c] = None THEN None ELSE Seen(req[c], y, to)
    BY <1>4, WriteIs
  <2>2. ASSUME NEW c \in Conns, req'[c] # None
        PROVE  /\ req[c] # None /\ req'[c].rid = req[c].rid
               /\ KindAt(req'[c]) /\ Page(req'[c], Logged(req[c].rid))
    <3> DEFINE x == req[c]
               z == Seen(req[c], y, to)
    <3>1. req[c] # None /\ req'[c] = z
      BY <2>1, <2>2
    <3>2. z.kind = x.kind /\ z.rid = x.rid /\ z.at = x.at /\ z.doctrine = x.doctrine
          /\ z.hits = x.hits /\ z.events = x.events
      <4>1. x \in Requests
        BY <3>1, Underway
      <4>2. \A u \in Requests :
              /\ Seen(u, y, to).kind = u.kind /\ Seen(u, y, to).rid = u.rid
              /\ Seen(u, y, to).at = u.at /\ Seen(u, y, to).doctrine = u.doctrine
              /\ Seen(u, y, to).hits = u.hits /\ Seen(u, y, to).events = u.events
        BY DEF Seen, Requests
      <4> QED BY <4>1, <4>2
    <3>3. KindAt(x) /\ Page(x, Logged(x.rid))
      BY <3>1 DEF LedgerInv
    <3> HIDE DEF z
    <3>4. KindAt(z) /\ \A F : EventsFor(x, F) => EventsFor(z, F)
      BY <3>2, <3>3 DEF KindAt, EventsFor
    <3>5. \A L, F, k : Written(x, L, F, k) => Written(z, L, F, k)
      BY <3>2 DEF Written
    <3>6. Page(z, Logged(x.rid))
      BY <3>2, <3>3, <3>4, <3>5 DEF Page
    <3> QED BY <3>1, <3>2, <3>4, <3>6
  <2>3. \A e \in ledger' \cup unlogged' : e.rid < used'.requests
    BY <2>1 DEF LedgerInv
  <2>4. \A c \in Conns : req'[c] # None => req'[c].rid < used'.requests
    BY <2>1, <2>2 DEF LedgerInv
  <2>5. \A c, d \in Conns : c # d /\ req'[c] # None /\ req'[d] # None => req'[c].rid # req'[d].rid
    BY <2>2 DEF LedgerInv
  <2>6. \A r : Logged(r)' = Logged(r)
    BY <2>1 DEF Logged
  <2>7. \A c \in Conns : req'[c] # None => KindAt(req'[c]) /\ Page(req'[c], Logged(req'[c].rid))
    BY <2>2
  <2> QED BY <2>1, <2>3, <2>4, <2>5, <2>7 DEF LedgerInv, Logged
<1>5. ASSUME NEW ns \in Orgs, Membership(ns)
      PROVE  LedgerInv'
  <2>1. UNCHANGED <<ledger, req, unlogged>> /\ used' = [used EXCEPT !.writes = @ + 1]
    BY <1>5 DEF Membership, Spend
  <2>2. used'.requests = used.requests
    BY <2>1 DEF TypeOK
  <2> QED BY <2>1, <2>2 DEF LedgerInv, Logged
<1>6. ASSUME NEW t \in 1..MaxTime, Prune(t)
      PROVE  LedgerInv'
  BY <1>2, <1>6 DEF Prune, Aged
<1>7. CASE Tick
  BY <1>2, <1>7 DEF Tick
<1>8. CASE UNCHANGED vars
  BY <1>2, <1>8 DEF vars
<1> QED
  <2>1. Kinds = {"wakeup", "visible", "personal", "browse"} /\ {"own", "doctrine"} \subseteq Namespaces
    BY RetrievalAssumption DEF Kinds
  <2> QED BY <1>1, <1>3, <1>4, <1>5, <1>6, <1>7, <1>8, <2>1 DEF Next, States

\* A set listed without repetition has as many elements as the list.
LEMMA CardinalityOfList ==
    ASSUME NEW n \in Nat, NEW f, NEW S, S = {f[i] : i \in 1..n},
           \A i, j \in 1..n : f[i] = f[j] => i = j
    PROVE  IsFiniteSet(S) /\ Cardinality(S) = n
<1> DEFINE g == [i \in 1..n |-> f[i]]
<1>1. g \in Bijection(1..n, S)
  BY DEF Bijection, Injection, Surjection, IsInjective
<1>2. ExistsBijection(1..n, S)
  BY <1>1 DEF ExistsBijection
<1>3. IsFiniteSet(1..n) /\ Cardinality(1..n) = n
  BY FS_Interval
<1> QED BY <1>2, <1>3, FS_Bijection

LEMMA ExactPage ==
    ASSUME NEW x \in Requests, x.at = "replied", NEW L, Page(x, L),
           NEW mine, mine = {e \in L : e.kind # "WakeupDoctrine"}
    PROVE  /\ {[ns |-> e.ns, id |-> e.id, rank |-> e.rank] : e \in mine}
                = {[ns |-> x.hits[i].ns, id |-> x.hits[i].id, rank |-> i - 1] : i \in 1..Len(x.hits)}
           /\ Cardinality(mine) = Len(x.hits)
           /\ x.kind = "wakeup" => Cardinality(L \ mine) = Len(x.doctrine)
<1> DEFINE n == Len(x.hits)
<1>1. PICK F, k : EventsFor(x, F) /\ Written(x, L, F, k)
  BY DEF Page
<1>2. L = {F[i] : i \in 1..Len(F)}
  BY <1>1 DEF Written
<1>3. n \in Nat /\ Len(F) \in Nat /\ n <= Len(F)
      /\ (x.kind = "wakeup" => Len(F) = n + Len(x.doctrine) /\ Len(x.doctrine) \in Nat)
  <2>1. n \in Nat
    BY DEF Requests
  <2>2. x.kind = "wakeup" => Len(x.doctrine) \in Nat /\ Len(F) = n + Len(x.doctrine)
    BY <1>1 DEF EventsFor
  <2>3. x.kind # "wakeup" => Len(F) = n + 0
    BY <1>1 DEF EventsFor
  <2> HIDE DEF n
  <2>4. CASE x.kind = "wakeup"
    BY <2>1, <2>2, <2>4
  <2>5. CASE x.kind # "wakeup"
    BY <2>1, <2>3, <2>5
  <2> QED BY <2>4, <2>5
<1>4. \A i \in 1..Len(F) : i \in 1..n \/ i \in n + 1..Len(F)
  BY <1>3
<1>5. \A i \in 1..n : i \in 1..Len(F)
  BY <1>3
<1>6. \A i \in n + 1..Len(F) : i \in 1..Len(F)
  BY <1>3
<1>7. (\A i \in 1..n : F[i].kind # "WakeupDoctrine") /\ \A i \in n + 1..Len(F) : F[i].kind = "WakeupDoctrine"
  BY <1>1 DEF EventsFor
<1>8. \A i \in 1..n : F[i].ns = x.hits[i].ns /\ F[i].id = x.hits[i].id /\ F[i].rank = i - 1
  BY <1>1 DEF EventsFor
<1> HIDE DEF n
<1>9. mine = {F[i] : i \in 1..n}
  BY <1>2, <1>4, <1>5, <1>7
<1>10. L \ mine = {F[i] : i \in n + 1..Len(F)}
  BY <1>2, <1>4, <1>6, <1>7
<1>11. \A i, j \in 1..Len(F) : F[i] = F[j] => i = j
  <2> SUFFICES ASSUME NEW i \in 1..Len(F), NEW j \in 1..Len(F), i # j PROVE F[i] # F[j]
    OBVIOUS
  <2>1. F[i].kind # F[j].kind \/ F[i].rank # F[j].rank
    BY <1>1, EventsDiffer
  <2> QED BY <2>1
<1>12. Cardinality(mine) = n
  <2>1. \A i, j \in 1..n : F[i] = F[j] => i = j
    BY <1>5, <1>11
  <2> QED BY <1>3, <1>9, <2>1, CardinalityOfList
<1>13. ASSUME x.kind = "wakeup"
       PROVE  Cardinality(L \ mine) = Len(x.doctrine)
  <2> DEFINE m == Len(x.doctrine)
             g == [i \in 1..m |-> F[n + i]]
  <2>1. m \in Nat /\ Len(F) = n + m
    BY <1>3, <1>13
  <2>2. \A i \in 1..m : n + i \in n + 1..Len(F) /\ n + i \in 1..Len(F)
    BY <1>3, <2>1
  <2>3. \A i \in n + 1..Len(F) : i - n \in 1..m /\ n + (i - n) = i
    BY <1>3, <2>1
  <2>4. \A i \in 1..m : g[i] = F[n + i]
    OBVIOUS
  <2> HIDE DEF m, g
  <2>5. L \ mine = {g[i] : i \in 1..m}
    <3>1. \A e : (\E i \in n + 1..Len(F) : e = F[i]) <=> (\E i \in 1..m : e = g[i])
      BY <2>2, <2>3, <2>4
    <3>2. \A e : e \in L \ mine <=> \E i \in n + 1..Len(F) : e = F[i]
      BY <1>10
    <3>3. \A e : e \in {g[i] : i \in 1..m} <=> \E i \in 1..m : e = g[i]
      OBVIOUS
    <3> QED BY <3>1, <3>2, <3>3, Zenon
  <2>6. ASSUME NEW i \in 1..m, NEW j \in 1..m, g[i] = g[j]
        PROVE  i = j
    <3>1. n + i = n + j
      BY <1>11, <2>2, <2>4, <2>6
    <3> QED BY <1>3, <2>1, <3>1
  <2>7. Cardinality(L \ mine) = m
    BY <2>1, <2>5, <2>6, CardinalityOfList
  <2> QED BY <2>7 DEF m
<1>14. {[ns |-> e.ns, id |-> e.id, rank |-> e.rank] : e \in mine}
         = {[ns |-> x.hits[i].ns, id |-> x.hits[i].id, rank |-> i - 1] : i \in 1..n}
  <2>1. {[ns |-> e.ns, id |-> e.id, rank |-> e.rank] : e \in mine}
         = {[ns |-> F[i].ns, id |-> F[i].id, rank |-> F[i].rank] : i \in 1..n}
    BY <1>9
  <2> QED BY <1>8, <2>1
<1> QED BY <1>12, <1>13, <1>14 DEF n

LEMMA LedgerInvIsExact == TypeOK /\ LedgerInv => LedgerExact
<1> SUFFICES ASSUME TypeOK, LedgerInv, NEW c \in Conns, At(c, "replied"),
                    NEW logged, logged = {e \in ledger \cup unlogged : e.rid = req[c].rid},
                    NEW mine, mine = {e \in logged : e.kind # "WakeupDoctrine"}
             PROVE  /\ {[ns |-> e.ns, id |-> e.id, rank |-> e.rank] : e \in mine}
                         = {[ns |-> req[c].hits[i].ns, id |-> req[c].hits[i].id, rank |-> i - 1] :
                                i \in 1..Len(req[c].hits)}
                    /\ Cardinality(mine) = Len(req[c].hits)
                    /\ req[c].kind = "wakeup" => Cardinality(logged \ mine) = Len(req[c].doctrine)
  BY Zenon DEF LedgerExact
<1>1. req[c] \in Requests /\ req[c] # None /\ req[c].at = "replied"
  BY Underway DEF At
<1>2. Page(req[c], logged)
  BY <1>1 DEF LedgerInv, Logged
<1> QED BY <1>1, <1>2, ExactPage

LEMMA LedgerInvInit == Init => LedgerInv
BY DEF Init, LedgerInv

\* LedgerExact (append_retrieval_events, wakeup, search_memories,
\* browse_memories): whatever requests run at once, appends fail and pruning runs
\* between them, an answered request's events are those of the rows it served.
THEOREM LedgerIsExact == Spec => []LedgerExact
<1>1. Init => TypeOK /\ LedgerInv
  BY TypeInit, LedgerInvInit
<1>2. TypeOK /\ LedgerInv /\ [Next]_vars => (TypeOK /\ LedgerInv)'
  BY TypeStep, LedgerNext
<1>3. TypeOK /\ LedgerInv => LedgerExact
  BY LedgerInvIsExact
<1> QED BY <1>1, <1>2, <1>3, PTL DEF Spec

-----------------------------------------------------------------------------
(* The promise of a wake-up *)

\* The rows of one namespace.
Of(S, ns) == {y \in S : y.ns = ns}

\* NoWorse and the promise, of the request itself.
NoWorseThan(x, y, R) == {z \in x.ever \ {y} : z.ns = y.ns /\ <<y, z>> \notin R}

Promise(x) ==
    \A y \in Of(x.steady, x.ns) :
        \/ y \in ToSet(x.hits)
        \/ /\ Cardinality(NoWorseThan(x, y, Fresher)) >= Stratum
           /\ Cardinality(NoWorseThan(x, y, MoreImportant)) >= Limit - Stratum
           /\ Cardinality(Of(x.ever, x.ns)) > Limit

\* A list without repetition of rows of S has no more of them than S.
LEMMA ListFits ==
    ASSUME NEW S, S \subseteq Cells, NEW n \in Nat, NEW f,
           \A i \in 1..n : f[i] \in S, \A i, j \in 1..n : f[i] = f[j] => i = j
    PROVE  Cardinality(S) \in Nat /\ Cardinality(S) >= n
<1> DEFINE L == {f[i] : i \in 1..n}
<1>1. L \subseteq S /\ L = {f[i] : i \in 1..n}
  OBVIOUS
<1> HIDE DEF L
<1>2. Cardinality(L) = n
  BY <1>1, CardinalityOfList
<1>3. IsFiniteSet(S)
  BY CellsFinite
<1>4. Cardinality(S) \in Nat
  BY <1>3, FS_CardinalityType
<1>5. Cardinality(L) <= Cardinality(S)
  BY <1>1, <1>3, FS_Subset
<1> QED BY <1>2, <1>4, <1>5

\* What composing leaves out: a row that is neither among the freshest nor among
\* the most important, of a wall with more rows than a wake-up shows.
LEMMA EssentialsKeep ==
    ASSUME NEW top \in Seq(Cells), NEW recent \in Seq(Cells), NEW low, NEW high,
           low \subseteq high, high \subseteq Cells,
           BestOf(top, low, high, MoreImportant, Limit), BestOf(recent, low, high, Fresher, Stratum),
           NEW hits \in Essentials(top, recent), NEW y \in low, y \notin ToSet(hits)
    PROVE  /\ Cardinality({z \in high \ {y} : <<y, z>> \notin Fresher}) >= Stratum
           /\ Cardinality({z \in high \ {y} : <<y, z>> \notin MoreImportant}) >= Limit - Stratum
           /\ Cardinality(high) > Limit
<1> DEFINE S == Cells \ ToSet(recent)
<1>0. S \subseteq Cells /\ \A i \in 1..Len(recent) : recent[i] \notin S
  BY DEF ToSet
<1>1. PICK s \in Retain(top, S) : s \in Seq(Cells) /\ hits = Truncate(recent \o s, Limit)
  <2>1. \E t \in Retain(top, Cells \ ToSet(recent)) :
          t \in Seq(Cells) /\ hits = Truncate(recent \o t, Limit) /\ hits \in Seq(Cells)
    BY EssentialsIs
  <2> QED BY <2>1, Zenon
<1> DEFINE all == recent \o s
<1>2. /\ all \in Seq(Cells) /\ Len(all) = Len(recent) + Len(s) /\ Len(recent) \in Nat /\ Len(s) \in Nat
      /\ \A i \in 1..Len(recent) : all[i] = recent[i]
      /\ \A i \in 1..Len(s) : all[Len(recent) + i] = s[i]
      /\ \A i \in Len(recent) + 1..Len(all) :
            i - Len(recent) \in 1..Len(s) /\ all[i] = s[i - Len(recent)]
  BY <1>1, Joined
<1>3. Limit \in Nat /\ Stratum \in Nat /\ Stratum < Limit
  BY RetrievalAssumption
<1>4. hits = Truncate(all, Limit)
  BY <1>1
<1> HIDE DEF all
<1>5. /\ Len(hits) \in Nat /\ (Len(hits) = Len(all) \/ Len(hits) = Limit) /\ hits \in Seq(Cells)
      /\ \A i \in 1..Len(hits) : hits[i] = all[i]
  BY <1>2, <1>3, <1>4, TruncateIs
<1>6. \A i \in 1..Len(hits) : hits[i] # y
  BY <1>5 DEF ToSet
<1>7. \A i \in 1..Len(recent) : recent[i] # y
  <2> SUFFICES ASSUME NEW i \in 1..Len(recent), recent[i] = y PROVE FALSE
    OBVIOUS
  <2>1. Len(recent) <= Stratum
    BY DEF BestOf
  <2>2. i \in 1..Len(hits)
    BY <1>2, <1>3, <1>5, <2>1
  <2> QED BY <1>2, <1>5, <1>6, <2>2
<1>8. /\ Len(recent) = Stratum /\ \A i \in 1..Len(recent) : <<y, recent[i]>> \notin Fresher
      /\ recent \in Seq(high) /\ Distinct(recent)
  BY <1>7 DEF BestOf
<1>9. \A i \in 1..Stratum : recent[i] \in high
  BY <1>8
<1>10. Cardinality({z \in high \ {y} : <<y, z>> \notin Fresher}) >= Stratum
  <2> DEFINE N == {z \in high \ {y} : <<y, z>> \notin Fresher}
  <2>1. N \subseteq Cells /\ \A i \in 1..Stratum : recent[i] \in N
    BY <1>7, <1>8, <1>9
  <2>2. \A i, j \in 1..Stratum : recent[i] = recent[j] => i = j
    BY <1>8 DEF Distinct
  <2> HIDE DEF N
  <2>3. Cardinality(N) >= Stratum
    BY <1>3, <2>1, <2>2, ListFits
  <2> QED BY <2>3 DEF N
<1> DEFINE M == {z \in high \ {y} : <<y, z>> \notin MoreImportant}
<1>11. M \subseteq Cells /\ \A z \in high : z # y /\ <<y, z>> \notin MoreImportant => z \in M
  OBVIOUS
<1>12. /\ top \in Seq(high) /\ Distinct(top) /\ InOrder(top, MoreImportant)
       /\ \/ \E i \in 1..Len(top) : top[i] = y
          \/ Len(top) = Limit /\ \A i \in 1..Len(top) : <<y, top[i]>> \notin MoreImportant
  BY DEF BestOf
<1>13. Len(top) \in Nat /\ \A i \in 1..Len(top) : top[i] \in high
  BY <1>12
<1> HIDE DEF M
<1>14. CASE ~ \E i \in 1..Len(top) : top[i] = y
  <2>1. Len(top) = Limit /\ \A i \in 1..Len(top) : top[i] \in M /\ top[i] \in high \ {y}
    BY <1>11, <1>12, <1>13, <1>14
  <2>2. \A i, j \in 1..Limit : top[i] = top[j] => i = j
    BY <1>12, <2>1 DEF Distinct
  <2>3. Cardinality(M) \in Nat /\ Cardinality(M) >= Limit
    BY <1>3, <1>11, <2>1, <2>2, ListFits
  <2>4. Cardinality(high) > Limit
    <3> DEFINE H == high \ {y}
    <3>1. H \subseteq Cells /\ IsFiniteSet(high) /\ y \in high
      BY CellsFinite
    <3>2. Cardinality(H) = Cardinality(high) - 1 /\ Cardinality(high) \in Nat
      BY <3>1, FS_RemoveElement, FS_CardinalityType
    <3>3. \A i \in 1..Limit : top[i] \in H
      BY <2>1
    <3> HIDE DEF H
    <3>4. Cardinality(H) \in Nat /\ Cardinality(H) >= Limit
      BY <1>3, <2>2, <3>1, <3>3, ListFits
    <3> QED BY <1>3, <3>2, <3>4
  <2>5. Cardinality(M) >= Limit - Stratum
    BY <1>3, <2>3
  <2> QED BY <1>10, <2>4, <2>5 DEF M
<1>15. ASSUME NEW k \in 1..Len(top), top[k] = y
       PROVE  Cardinality(M) >= Limit - Stratum /\ Cardinality(high) > Limit
  <2>1. /\ Distinct(s)
        /\ \A i \in 1..Len(s) : s[i] \in ToSet(top) /\ s[i] \in S
        /\ \A z \in ToSet(top) \cap S : \E i \in 1..Len(s) : s[i] = z
        /\ \A i, j \in 1..Len(s) : i < j =>
             ~ \E a, b \in 1..Len(top) : a < b /\ top[a] = s[j] /\ top[b] = s[i]
    <3> HIDE DEF S
    <3> QED BY <1>0, <1>1, RetainIs
  <2>2. y \in ToSet(top) /\ y \in S
    BY <1>7, <1>13, <1>15 DEF ToSet
  <2> HIDE DEF S
  <2>3. PICK q \in 1..Len(s) : s[q] = y
    BY <2>1, <2>2
  <2>4. Stratum + q > Limit /\ q \in Nat
    <3>1. Stratum + q \in 1..Len(all) /\ all[Stratum + q] = y
      BY <1>2, <1>3, <1>8, <2>3
    <3>2. Stratum + q \notin 1..Len(hits)
      BY <1>5, <1>6, <3>1
    <3> QED BY <1>3, <1>5, <3>1, <3>2
  <2>5. \A i \in 1..Len(s) : \E a \in 1..Len(top) : top[a] = s[i]
    <3>1. ToSet(top) = {top[a] : a \in 1..Len(top)}
      BY DEF ToSet
    <3> QED BY <2>1, <3>1
  <2>6. ASSUME NEW i \in 1..Len(s), i < q
        PROVE  s[i] \in M
    <3>1. PICK a \in 1..Len(top) : top[a] = s[i]
      BY <2>5
    <3>2. s[i] # y
      BY <2>1, <2>3, <2>6 DEF Distinct
    <3>3. ~(k < a)
      BY <1>15, <2>1, <2>3, <2>6, <3>1
    <3>4. a < k
      BY <1>13, <1>15, <3>1, <3>2, <3>3
    <3>5. <<y, s[i]>> \notin MoreImportant
      BY <1>12, <1>15, <3>1, <3>4 DEF InOrder
    <3> QED BY <1>11, <1>13, <3>1, <3>2, <3>5
  <2>7. Cardinality(M) >= Limit - Stratum
    <3>1. Limit - Stratum \in Nat /\ \A i \in 1..(Limit - Stratum) : i \in 1..Len(s) /\ i < q
      BY <1>2, <1>3, <2>4
    <3>2. \A i \in 1..(Limit - Stratum) : s[i] \in M
      BY <2>6, <3>1
    <3>3. \A i, j \in 1..(Limit - Stratum) : s[i] = s[j] => i = j
      BY <2>1, <3>1 DEF Distinct
    <3> DEFINE n == Limit - Stratum
    <3>4. n \in Nat /\ (\A i \in 1..n : s[i] \in M) /\ \A i, j \in 1..n : s[i] = s[j] => i = j
      BY <3>1, <3>2, <3>3
    <3> HIDE DEF n
    <3>5. Cardinality(M) >= n
      BY <1>11, <3>4, ListFits
    <3> QED BY <3>5 DEF n
  <2>8. Cardinality(high) > Limit
    <3> DEFINE n == Limit + 1
    <3>1. n \in Nat /\ \A i \in 1..n : i \in 1..Stratum \/ (i \in Stratum + 1..Len(all) /\ i - Stratum \in 1..Len(s))
      BY <1>2, <1>3, <1>8, <2>4
    <3>2. \A i \in 1..Stratum : all[i] = recent[i]
      BY <1>2, <1>8
    <3>3. \A i \in Stratum + 1..Len(all) : all[i] = s[i - Stratum]
      BY <1>2, <1>8
    <3>4. \A i \in 1..n : all[i] \in high
      <4>1. \A i \in 1..Len(s) : s[i] \in high
        BY <1>13, <2>5
      <4> QED BY <1>9, <3>1, <3>2, <3>3, <4>1
    <3>5. ASSUME NEW i \in 1..n, NEW j \in 1..n, all[i] = all[j]
          PROVE  i = j
      <4>1. CASE i \in 1..Stratum /\ j \in 1..Stratum
        BY <1>8, <3>2, <3>5, <4>1 DEF Distinct
      <4>2. CASE i \notin 1..Stratum /\ j \notin 1..Stratum
        <5>1. s[i - Stratum] = s[j - Stratum] /\ i - Stratum \in 1..Len(s) /\ j - Stratum \in 1..Len(s)
          BY <3>1, <3>3, <3>5, <4>2
        <5>2. i - Stratum = j - Stratum
          BY <2>1, <5>1 DEF Distinct
        <5> QED BY <1>3, <3>1, <5>2
      <4>3. \A a \in 1..Stratum, b \in 1..Len(s) : recent[a] # s[b]
        BY <1>0, <1>8, <2>1
      <4>4. CASE i \in 1..Stratum /\ j \notin 1..Stratum
        BY <3>1, <3>2, <3>3, <3>5, <4>3, <4>4
      <4>5. CASE i \notin 1..Stratum /\ j \in 1..Stratum
        BY <3>1, <3>2, <3>3, <3>5, <4>3, <4>5
      <4> QED BY <4>1, <4>2, <4>4, <4>5
    <3> HIDE DEF n
    <3>6. Cardinality(high) \in Nat /\ Cardinality(high) >= n
      BY <3>1, <3>4, <3>5, ListFits
    <3> QED BY <1>3, <3>6 DEF n
  <2> QED BY <2>7, <2>8
<1> QED BY <1>10, <1>14, <1>15 DEF M

-----------------------------------------------------------------------------
(* The merge of a visible search *)

\* A set of numbers has a least one.
LEMMA LeastNumber ==
    ASSUME NEW T, \A y \in T : y \in Nat, T # {}
    PROVE  \E m \in T : \A y \in T : ~(y < m)
<1> DEFINE R == {ss \in Nat \X Nat : ss[1] < ss[2]}
<1>1. IsWellFoundedOn(R, Nat)
  BY NatLessThanWellFounded, Zenon DEF OpToRel
<1>2. T \subseteq Nat
  OBVIOUS
<1> HIDE DEF R
<1>3. PICK m \in T : \A y \in T : ~(<<y, m>> \in R)
  BY <1>1, <1>2, WFMin
<1>4. \A y \in T : y < m => <<y, m>> \in R
  BY DEF R
<1> QED BY <1>3, <1>4

\* The stable sort is a strict total order of the positions, by similarity first.
LEMMA SortedIs ==
    ASSUME NEW all \in Seq(Cells), NEW R, R = Sorted(all)
    PROVE  \A i, j \in 1..Len(all) :
            /\ Similarity(all[i]) \in Nat
            /\ <<i, j>> \in R <=> \/ Similarity(all[i]) > Similarity(all[j])
                                  \/ Similarity(all[i]) = Similarity(all[j]) /\ i < j
<1>1. DOMAIN all = 1..Len(all) /\ \A i \in 1..Len(all) : all[i] \in Cells
  OBVIOUS
<1>2. \A i \in 1..Len(all) : Similarity(all[i]) \in Nat
  BY <1>1, RoomsAssumption
<1> QED BY <1>1, <1>2 DEF Sorted

\* Each id has a first position, at least as close as any other of its own.
LEMMA Foremost ==
    ASSUME NEW all \in Seq(Cells), NEW p \in 1..Len(all)
    PROVE  \E f \in Firsts(all) :
              all[f].id = all[p].id /\ Similarity(all[f]) >= Similarity(all[p])
<1> DEFINE R == Sorted(all)
           T == {i \in 1..Len(all) : all[i].id = all[p].id}
           Before(i) == {j \in T : <<j, i>> \in R}
           N == {Cardinality(Before(i)) : i \in T}
<1>1. \A i, j \in 1..Len(all) :
        /\ Similarity(all[i]) \in Nat
        /\ <<i, j>> \in R <=> \/ Similarity(all[i]) > Similarity(all[j])
                              \/ Similarity(all[i]) = Similarity(all[j]) /\ i < j
  BY SortedIs
<1> HIDE DEF R
<1>2. T \subseteq 1..Len(all) /\ p \in T /\ IsFiniteSet(T)
  <2>1. IsFiniteSet(1..Len(all))
    BY FS_Interval
  <2>2. T \subseteq 1..Len(all) /\ p \in T
    OBVIOUS
  <2> HIDE DEF T
  <2> QED BY <2>1, <2>2, FS_Subset
<1>3. \A i \in T : Before(i) \subseteq T
  OBVIOUS
<1>4. \A i \in T : IsFiniteSet(Before(i)) /\ Cardinality(Before(i)) \in Nat
  <2> HIDE DEF T, Before
  <2> QED BY <1>2, <1>3, FS_Subset, FS_CardinalityType
<1>5. PICK f \in T : \A j \in T : ~(Cardinality(Before(j)) < Cardinality(Before(f)))
  <2>1. (\A y \in N : y \in Nat) /\ N # {}
    <3> HIDE DEF T, Before
    <3> QED BY <1>2, <1>4
  <2>2. PICK m \in N : \A y \in N : ~(y < m)
    <3> HIDE DEF N
    <3> QED BY <2>1, LeastNumber
  <2>3. PICK f \in T : m = Cardinality(Before(f))
    BY <2>2
  <2> QED BY <2>2, <2>3
<1>6. \A j \in T : <<j, f>> \notin R
  <2> SUFFICES ASSUME NEW j \in T, <<j, f>> \in R PROVE FALSE
    OBVIOUS
  <2>1. \A i \in T : <<i, j>> \in R => <<i, f>> \in R
    <3> SUFFICES ASSUME NEW i \in T, <<i, j>> \in R PROVE <<i, f>> \in R
      OBVIOUS
    <3>1. i \in 1..Len(all) /\ j \in 1..Len(all) /\ f \in 1..Len(all)
      BY <1>2
    <3> HIDE DEF T
    <3> DEFINE u == Similarity(all[i])  v == Similarity(all[j])  w == Similarity(all[f])
    <3>2. /\ u \in Nat /\ v \in Nat /\ w \in Nat
          /\ u > v \/ (u = v /\ i < j)
          /\ v > w \/ (v = w /\ j < f)
      BY <1>1, <3>1
    <3>3. u > w \/ (u = w /\ i < f) => <<i, f>> \in R
      BY <1>1, <3>1
    <3> HIDE DEF u, v, w
    <3> QED BY <3>1, <3>2, <3>3
  <2>2. <<j, j>> \notin R
    <3>1. j \in 1..Len(all)
      BY <1>2
    <3> QED BY <1>1, <3>1
  <2>3. Before(j) \subseteq Before(f) /\ Before(j) # Before(f)
    <3>1. Before(j) \subseteq Before(f)
      BY <2>1
    <3>2. j \in Before(f) /\ j \notin Before(j)
      BY <2>2
    <3> HIDE DEF Before
    <3> QED BY <3>1, <3>2
  <2> HIDE DEF Before, T
  <2>4. Cardinality(Before(j)) < Cardinality(Before(f))
    <3>1. Cardinality(Before(j)) <= Cardinality(Before(f))
          /\ (Cardinality(Before(j)) = Cardinality(Before(f)) => Before(j) = Before(f))
      BY <1>4, <2>3, FS_Subset
    <3> QED BY <1>4, <2>3, <3>1
  <2> QED BY <1>5, <2>4
<1>7. f \in 1..Len(all) /\ all[f].id = all[p].id
  BY <1>2
<1>8. f \in Firsts(all)
  <2>1. DOMAIN all = 1..Len(all)
    OBVIOUS
  <2>2. \A j \in 1..Len(all) : all[j].id = all[f].id => j \in T
    BY <1>7
  <2> HIDE DEF T
  <2> QED BY <1>6, <1>7, <2>1, <2>2 DEF Firsts, R
<1>9. Similarity(all[f]) >= Similarity(all[p])
  <2>1. <<p, f>> \notin R
    BY <1>2, <1>6
  <2> HIDE DEF T
  <2> DEFINE u == Similarity(all[p])  w == Similarity(all[f])
  <2>2. u \in Nat /\ w \in Nat /\ ~(u > w)
    BY <1>1, <1>7, <2>1
  <2> HIDE DEF u, w
  <2>3. w >= u
    BY <2>2
  <2> QED BY <2>3 DEF u, w
<1> QED BY <1>7, <1>8, <1>9

DistinctIds(s) == \A i, j \in 1..Len(s) : s[i].id = s[j].id => i = j

LEMMA FirstsDiffer ==
    ASSUME NEW all \in Seq(Cells), NEW i \in Firsts(all), NEW j \in Firsts(all), all[i].id = all[j].id
    PROVE  i = j
<1> DEFINE R == Sorted(all)
<1>1. DOMAIN all = 1..Len(all)
  OBVIOUS
<1>2. i \in 1..Len(all) /\ j \in 1..Len(all) /\ <<i, j>> \notin R /\ <<j, i>> \notin R
  BY <1>1 DEF Firsts
<1>3. \A a, b \in 1..Len(all) :
        /\ Similarity(all[a]) \in Nat
        /\ <<a, b>> \in R <=> \/ Similarity(all[a]) > Similarity(all[b])
                              \/ Similarity(all[a]) = Similarity(all[b]) /\ a < b
  BY SortedIs
<1> HIDE DEF R
<1> QED BY <1>2, <1>3

\* The answer hits has y's id, at least as close, or is full of rows at least as
\* close.
Covered(y, hits) ==
    \/ \E i \in 1..Len(hits) : hits[i].id = y.id /\ <<y, hits[i]>> \notin Closer
    \/ Len(hits) = Limit /\ \A i \in 1..Len(hits) : <<y, hits[i]>> \notin Closer

LEMMA CloserIs ==
    ASSUME NEW y \in Cells, NEW z \in Cells
    PROVE  /\ Similarity(y) \in Nat /\ Similarity(z) \in Nat
           /\ <<y, z>> \notin Closer <=> Similarity(z) >= Similarity(y)
<1>1. Similarity(y) \in Nat /\ Similarity(z) \in Nat
  BY RoomsAssumption
<1>2. <<y, z>> \in Closer <=> Similarity(y) > Similarity(z)
  BY DEF Closer
<1> QED BY <1>1, <1>2

\* g is the merged list before the cut: in order of similarity, each id once, and
\* each at least as close as anywhere in the two lists.
Uncut(g, hits, all) ==
    /\ Len(hits) \in Nat /\ Len(hits) <= Len(g) /\ Len(hits) <= Limit
    /\ Len(hits) = Len(g) \/ Len(hits) = Limit
    /\ \A i \in 1..Len(hits) : hits[i] = g[i]
    /\ \A i, j \in 1..Len(g) : i < j => Similarity(g[i]) >= Similarity(g[j])
    /\ DistinctIds(g)
    /\ \A p \in 1..Len(all) : \E k \in 1..Len(g) :
         g[k].id = all[p].id /\ Similarity(g[k]) >= Similarity(all[p])

LEMMA MergeOrder ==
    ASSUME NEW a \in Seq(Cells), NEW b \in Seq(Cells), NEW hits \in MergeSearchHits(a, b),
           NEW all, all = a \o b
    PROVE  \E g \in Seq(Cells) : Uncut(g, hits, all)
<1>1. all \in Seq(Cells) /\ IsFiniteSet(Firsts(all)) /\ Firsts(all) \subseteq 1..Len(all)
  BY MergeIs
<1>2. PICK order \in Rankings(Firsts(all), Sorted(all)) : CutOf(hits, all, order)
  BY MergeIs
<1> DEFINE g == [k \in 1..Len(order) |-> all[order[k]]]
<1>3. Len(g) = Len(order) /\ \A k \in 1..Len(g) : g[k] = all[order[k]] /\ order[k] \in 1..Len(all)
  BY <1>2 DEF CutOf
<1>4. /\ order \in Seq(Firsts(all)) /\ Distinct(order) /\ InOrder(order, Sorted(all))
      /\ \A x \in Firsts(all) : \E i \in 1..Len(order) : order[i] = x
  BY <1>1, <1>2, RankingIs
<1>5. g \in Seq(Cells) /\ hits = Truncate(g, Limit)
  BY <1>2 DEF CutOf
<1> HIDE DEF g
<1>6. /\ Len(hits) \in Nat /\ Len(hits) <= Len(g) /\ Len(hits) <= Limit
      /\ Len(hits) = Len(g) \/ Len(hits) = Limit
      /\ \A i \in 1..Len(hits) : hits[i] = g[i]
  BY <1>5, RetrievalAssumption, TruncateIs
<1>7. ASSUME NEW i \in 1..Len(g), NEW j \in 1..Len(g), i < j
      PROVE  Similarity(g[i]) >= Similarity(g[j])
  <2> DEFINE u == Similarity(all[order[i]])  v == Similarity(all[order[j]])
  <2>1. <<order[j], order[i]>> \notin Sorted(all)
    BY <1>3, <1>4, <1>7 DEF InOrder
  <2>2. u \in Nat /\ v \in Nat /\ ~(v > u)
    BY <1>1, <1>3, <2>1, SortedIs
  <2> HIDE DEF u, v
  <2>3. u >= v
    BY <2>2
  <2> QED BY <1>3, <2>3 DEF u, v
<1>8. DistinctIds(g)
  <2> SUFFICES ASSUME NEW i \in 1..Len(g), NEW j \in 1..Len(g), g[i].id = g[j].id
               PROVE  i = j
    BY DEF DistinctIds
  <2>1. \A k \in 1..Len(g) : order[k] \in Firsts(all)
    <3> HIDE DEF Firsts
    <3> QED BY <1>3, <1>4
  <2>2. order[i] = order[j]
    <3>1. order[i] \in Firsts(all) /\ order[j] \in Firsts(all)
      BY <2>1
    <3>2. all[order[i]].id = all[order[j]].id
      BY <1>3
    <3> QED BY <1>1, <3>1, <3>2, FirstsDiffer
  <2> QED BY <1>3, <1>4, <2>2 DEF Distinct
<1>9. ASSUME NEW p \in 1..Len(all)
      PROVE  \E k \in 1..Len(g) : g[k].id = all[p].id /\ Similarity(g[k]) >= Similarity(all[p])
  <2>1. PICK f \in Firsts(all) : all[f].id = all[p].id /\ Similarity(all[f]) >= Similarity(all[p])
    BY <1>1, Foremost
  <2>2. PICK k \in 1..Len(order) : order[k] = f
    BY <1>4
  <2> QED BY <1>3, <2>1, <2>2
<1>10. Uncut(g, hits, all)
  BY <1>6, <1>7, <1>8, <1>9 DEF Uncut
<1> QED BY <1>5, <1>10

LEMMA Pigeons ==
    ASSUME NEW n \in Nat, NEW m \in Nat, NEW f,
           \A i \in 1..n : f[i] \in 1..m,
           \A i, j \in 1..n : f[i] = f[j] => i = j
    PROVE  n <= m
<1> DEFINE h == [i \in 1..n |-> f[i]]
<1>1. h \in Injection(1..n, 1..m)
  BY DEF Injection, IsInjective
<1>2. IsFiniteSet(1..n) /\ Cardinality(1..n) = n /\ IsFiniteSet(1..m) /\ Cardinality(1..m) = m
  <2>1. \A k \in Nat : IsFiniteSet(1..k) /\ Cardinality(1..k) = k
    BY FS_Interval
  <2> QED BY <2>1
<1> HIDE DEF h
<1>3. Cardinality(1..n) <= Cardinality(1..m)
  BY <1>1, <1>2, FS_Injection
<1> QED BY <1>2, <1>3

\* What one of the lists covers the merge covers.
LEMMA MergeCovers ==
    ASSUME NEW a \in Seq(Cells), NEW b \in Seq(Cells), NEW hits \in MergeSearchHits(a, b),
           NEW t, t = a \/ t = b, DistinctIds(t), NEW y \in Cells, Covered(y, t)
    PROVE  Covered(y, hits)
<1> DEFINE all == a \o b
<1>0. PICK g \in Seq(Cells) : Uncut(g, hits, all)
  BY MergeOrder
<1>1. /\ Len(hits) \in Nat /\ Len(hits) <= Len(g) /\ Len(hits) <= Limit
      /\ Len(hits) = Len(g) \/ Len(hits) = Limit
      /\ \A i \in 1..Len(hits) : hits[i] = g[i]
      /\ \A i, j \in 1..Len(g) : i < j => Similarity(g[i]) >= Similarity(g[j])
      /\ DistinctIds(g)
      /\ \A p \in 1..Len(all) : \E k \in 1..Len(g) :
           g[k].id = all[p].id /\ Similarity(g[k]) >= Similarity(all[p])
  BY <1>0 DEF Uncut
<1>2. t \in Seq(Cells) /\ \A i \in 1..Len(t) : \E p \in 1..Len(all) : all[p] = t[i]
  <2>1. Len(a) \in Nat /\ Len(b) \in Nat /\ Len(all) = Len(a) + Len(b)
        /\ (\A i \in 1..Len(a) : all[i] = a[i]) /\ \A i \in 1..Len(b) : all[Len(a) + i] = b[i]
    OBVIOUS
  <2> HIDE DEF all
  <2>2. CASE t = a
    BY <2>1, <2>2
  <2>3. CASE t = b
    <3>1. \A i \in 1..Len(b) : Len(a) + i \in 1..Len(all)
      BY <2>1
    <3> QED BY <2>1, <2>3, <3>1
  <2> QED BY <2>2, <2>3
<1> HIDE DEF all
<1>3. \A i \in 1..Len(t) : \E k \in 1..Len(g) : g[k].id = t[i].id /\ Similarity(g[k]) >= Similarity(t[i])
  <2>1. \A p \in 1..Len(all) : \E k \in 1..Len(g) :
          g[k].id = all[p].id /\ Similarity(g[k]) >= Similarity(all[p])
    BY <1>1
  <2> SUFFICES ASSUME NEW i \in 1..Len(t)
               PROVE  \E k \in 1..Len(g) : g[k].id = t[i].id /\ Similarity(g[k]) >= Similarity(t[i])
    OBVIOUS
  <2>2. PICK p \in 1..Len(all) : all[p] = t[i]
    BY <1>2
  <2>3. PICK k \in 1..Len(g) : g[k].id = all[p].id /\ Similarity(g[k]) >= Similarity(all[p])
    BY <2>1
  <2> QED BY <2>2, <2>3, Zenon
<1>4. Len(g) \in Nat /\ Len(t) \in Nat /\ Limit \in Nat
      /\ (\A k \in 1..Len(g) : g[k] \in Cells) /\ \A i \in 1..Len(t) : t[i] \in Cells
  BY <1>2, RetrievalAssumption
<1>5. /\ \A z \in Cells : Similarity(z) \in Nat
      /\ \A z \in Cells : <<y, z>> \notin Closer <=> Similarity(z) >= Similarity(y)
  BY CloserIs
<1>6. \A k \in 1..Len(hits) : k \in 1..Len(g)
  BY <1>1, <1>4
<1>7. ASSUME NEW i \in 1..Len(t), <<y, t[i]>> \notin Closer
      PROVE  \E k \in 1..Len(g) : g[k].id = t[i].id /\ Similarity(g[k]) >= Similarity(y)
  <2>1. PICK k \in 1..Len(g) : g[k].id = t[i].id /\ Similarity(g[k]) >= Similarity(t[i])
    BY <1>3
  <2>2. Similarity(t[i]) >= Similarity(y)
    BY <1>4, <1>5, <1>7
  <2>3. Similarity(g[k]) >= Similarity(y)
    <3>1. Similarity(g[k]) \in Nat /\ Similarity(t[i]) \in Nat /\ Similarity(y) \in Nat
      BY <1>4, <1>5
    <3> QED BY <2>1, <2>2, <3>1
  <2> QED BY <2>1, <2>3
\* A row at least as close at a place before the cut or beyond it.
<1>8. ASSUME NEW k \in 1..Len(g), Similarity(g[k]) >= Similarity(y)
      PROVE  \A i \in 1..k : <<y, g[i]>> \notin Closer
  <2> SUFFICES ASSUME NEW i \in 1..k PROVE <<y, g[i]>> \notin Closer
    OBVIOUS
  <2>1. i \in 1..Len(g) /\ (i = k \/ i < k)
    BY <1>4
  <2>2. Similarity(g[i]) \in Nat /\ Similarity(g[k]) \in Nat /\ Similarity(y) \in Nat
    BY <1>4, <1>5, <2>1
  <2>3. i = k \/ Similarity(g[i]) >= Similarity(g[k])
    BY <1>1, <2>1
  <2>4. Similarity(g[i]) >= Similarity(y)
    <3>1. CASE i = k
      BY <1>8, <3>1
    <3>2. CASE Similarity(g[i]) >= Similarity(g[k])
      BY <1>8, <2>2, <3>2
    <3> QED BY <2>3, <3>1, <3>2
  <2> QED BY <1>4, <1>5, <2>1, <2>4
<1>9. CASE \E i \in 1..Len(t) : t[i].id = y.id /\ <<y, t[i]>> \notin Closer
  <2>1. PICK k \in 1..Len(g) : g[k].id = y.id /\ Similarity(g[k]) >= Similarity(y)
    BY <1>7, <1>9
  <2>2. \A i \in 1..k : <<y, g[i]>> \notin Closer
    BY <1>8, <2>1
  <2>3. CASE k <= Len(hits)
    <3>1. k \in 1..Len(hits) /\ k \in 1..k /\ hits[k] = g[k]
      BY <1>1, <1>4, <2>3
    <3> QED BY <2>1, <2>2, <3>1 DEF Covered
  <2>4. CASE ~(k <= Len(hits))
    <3>1. Len(hits) = Limit /\ \A i \in 1..Len(hits) : i \in 1..k
      BY <1>1, <1>4, <2>4
    <3> QED BY <1>1, <2>2, <3>1 DEF Covered
  <2> QED BY <2>3, <2>4
<1>10. CASE Len(t) = Limit /\ \A i \in 1..Len(t) : <<y, t[i]>> \notin Closer
  <2> DEFINE Place(i, k) == g[k].id = t[i].id /\ Similarity(g[k]) >= Similarity(y)
             K == [i \in 1..Limit |-> CHOOSE k \in 1..Len(g) : Place(i, k)]
  <2>1. \A i \in 1..Limit : \E k \in 1..Len(g) : Place(i, k)
    BY <1>7, <1>10
  <2>2. \A i \in 1..Limit : K[i] \in 1..Len(g) /\ Place(i, K[i])
    <3> HIDE DEF Place
    <3> QED BY <2>1
  <2> HIDE DEF K
  <2>3. \A i, j \in 1..Limit : K[i] = K[j] => i = j
    BY <1>10, <2>2 DEF DistinctIds
  <2>4. Limit <= Len(g)
    BY <1>4, <2>2, <2>3, Pigeons
  <2>5. Len(hits) = Limit
    BY <1>1, <1>4, <2>4
  <2>6. ASSUME NEW i \in 1..Limit, <<y, g[i]>> \in Closer
        PROVE  FALSE
    <3> DEFINE m == i - 1
    <3>1. m \in Nat /\ m < Limit /\ i \in 1..Len(g)
      BY <1>4, <2>4
    <3>2. \A k \in 1..Len(g) : Similarity(g[k]) >= Similarity(y) => k \in 1..m
      <4> SUFFICES ASSUME NEW k \in 1..Len(g), Similarity(g[k]) >= Similarity(y), k \notin 1..m
                   PROVE  FALSE
        OBVIOUS
      <4>1. i \in 1..k
        BY <1>4, <3>1
      <4> QED BY <1>8, <2>6, <4>1
    <3>3. \A j \in 1..Limit : K[j] \in 1..m
      BY <2>2, <3>2
    <3> HIDE DEF m
    <3>4. Limit <= m
      BY <1>4, <2>3, <3>1, <3>3, Pigeons
    <3> QED BY <1>4, <3>1, <3>4
  <2> QED BY <1>1, <2>5, <2>6 DEF Covered
<1> QED BY <1>9, <1>10 DEF Covered

LEMMA MergeDistinct ==
    ASSUME NEW a \in Seq(Cells), NEW b \in Seq(Cells), NEW hits \in MergeSearchHits(a, b)
    PROVE  DistinctIds(hits)
<1> DEFINE all == a \o b
<1>1. PICK g \in Seq(Cells) : Uncut(g, hits, all)
  BY MergeOrder
<1>2. \A i \in 1..Len(hits) : i \in 1..Len(g)
  BY <1>1 DEF Uncut
<1> QED BY <1>1, <1>2 DEF DistinctIds, Uncut

-----------------------------------------------------------------------------
(* What the answers owe to the rows that were live throughout *)

\* A request has seen the palace as it is now.
Window(x, live) == x.steady \subseteq live /\ live \subseteq x.ever /\ x.ever \subseteq Cells

WakeOK(x) ==
    x.kind = "wakeup" =>
        /\ x.top # None =>
            BestOf(x.top, Of(x.steady, x.ns), Of(x.ever, x.ns), MoreImportant, Limit)
        /\ x.recent # None =>
            BestOf(x.recent, Of(x.steady, x.ns), Of(x.ever, x.ns), Fresher, Stratum)
        /\ x.at \in {"append", "replied"} => Promise(x)

\* The row y's wall is still to be searched.
Ahead(x, y) == x.at = "search" /\ \E w \in x.walls : WallOrder[w] = y.ns

Owed(x) == {y \in x.steady : y.ns \in AlwaysVisible /\ Similarity(y) > 0}

SearchOK(x) ==
    x.kind = "visible" =>
        /\ x.at \in {"walls", "stats"} => x.hits = <<>>
        /\ x.at = "stats" =>
            \A i \in DOMAIN WallOrder : WallOrder[i] \in {"own", "global"} => i \in x.walls
        /\ x.at \in {"search", "append", "replied"} =>
            DistinctIds(x.hits) /\ \A y \in Owed(x) : Covered(y, x.hits) \/ Ahead(x, y)

ServeOK(x, live) == Window(x, live) /\ WakeOK(x) /\ SearchOK(x)

ServeInv == \A c \in Conns : req[c] # None => ServeOK(req[c], LiveNow)

LEMMA ServeStep ==
    ASSUME TypeOK, ServeInv, NEW c \in Conns, NEW x, Becomes(c, x), UNCHANGED row, ServeOK(x, LiveNow)
    PROVE  ServeInv'
<1>1. req' = [req EXCEPT ![c] = x]
  BY DEF Becomes
<1>2. req'[c] = x /\ \A d \in Conns : d # c => req'[d] = req[d]
  BY <1>1 DEF TypeOK
<1>3. LiveNow' = LiveNow
  BY DEF LiveNow
<1>4. \A d \in Conns : req'[d] # None => ServeOK(req'[d], LiveNow)
  BY <1>2 DEF ServeInv
<1> QED BY <1>3, <1>4 DEF ServeInv

\* A list read now has every row that was live throughout, or is full, and only
\* rows that were live at some time.
LEMMA ReadIsBest ==
    ASSUME NEW x, Window(x, LiveNow), NEW R, NEW n, NEW list,
           BestOf(list, Live(x.ns), Live(x.ns), R, n)
    PROVE  BestOf(list, Of(x.steady, x.ns), Of(x.ever, x.ns), R, n)
<1>1. Of(x.steady, x.ns) \subseteq Live(x.ns) /\ Live(x.ns) \subseteq Of(x.ever, x.ns)
  BY DEF Window, LiveNow, Of, Live
<1> QED BY <1>1, BestKept

LEMMA PromiseKept ==
    ASSUME NEW x \in Requests, Window(x, LiveNow), x.top \in Seq(Cells), x.recent \in Seq(Cells),
           BestOf(x.top, Of(x.steady, x.ns), Of(x.ever, x.ns), MoreImportant, Limit),
           BestOf(x.recent, Of(x.steady, x.ns), Of(x.ever, x.ns), Fresher, Stratum),
           NEW hits \in Essentials(x.top, x.recent),
           NEW z \in Requests, z.hits = hits, z.ns = x.ns, z.steady = x.steady, z.ever = x.ever
    PROVE  Promise(z)
<1> DEFINE low == Of(x.steady, x.ns)
           high == Of(x.ever, x.ns)
<1>1. low \subseteq high /\ high \subseteq Cells
  BY DEF Window, Of
<1> SUFFICES ASSUME NEW y \in low, y \notin ToSet(hits)
             PROVE  /\ Cardinality(NoWorseThan(z, y, Fresher)) >= Stratum
                    /\ Cardinality(NoWorseThan(z, y, MoreImportant)) >= Limit - Stratum
                    /\ Cardinality(Of(z.ever, z.ns)) > Limit
  BY DEF Promise, Of
<1>2. y.ns = x.ns
  BY DEF Of
<1>3. \A R : NoWorseThan(z, y, R) = {v \in high \ {y} : <<y, v>> \notin R}
  BY <1>2 DEF NoWorseThan, Of
<1>4. Of(z.ever, z.ns) = high
  OBVIOUS
<1> HIDE DEF low, high
<1>5. BestOf(x.top, low, high, MoreImportant, Limit) /\ BestOf(x.recent, low, high, Fresher, Stratum)
  BY DEF low, high
<1>6. /\ Cardinality({v \in high \ {y} : <<y, v>> \notin Fresher}) >= Stratum
      /\ Cardinality({v \in high \ {y} : <<y, v>> \notin MoreImportant}) >= Limit - Stratum
      /\ Cardinality(high) > Limit
  BY <1>1, <1>5, EssentialsKeep
<1> QED BY <1>3, <1>4, <1>6

\* A wall with a live row is listed.
LEMMA WallListed ==
    ASSUME TypeOK, NEW y \in LiveNow, y.ns \in AlwaysVisible, NEW walls,
           \A i \in DOMAIN WallOrder :
                \/ WallOrder[i] \in {"own", "global"}
                \/ WallOrder[i] \in Imports /\ StoreStats[WallOrder[i]] > 0
                => i \in walls
    PROVE  \E w \in walls : WallOrder[w] = y.ns
<1>1. y \in Cells /\ row[y] = "live" /\ y.ns \in Namespaces
  BY RoomsAssumption DEF LiveNow
<1>2. PICK w \in DOMAIN WallOrder : WallOrder[w] = y.ns
  <2>1. WallOrder \in Seq(Namespaces) /\ y.ns \in ToSet(WallOrder)
    BY <1>1, RetrievalAssumption
  <2>2. ToSet(WallOrder) = {WallOrder[i] : i \in DOMAIN WallOrder}
    BY <2>1 DEF ToSet
  <2> QED BY <2>1, <2>2
<1>3. StoreStats[y.ns] > 0
  <2> DEFINE S == {z \in Cells : z.ns = y.ns /\ row[z] # "absent"}
  <2>1. StoreStats[y.ns] = Cardinality(S)
    BY <1>1 DEF StoreStats
  <2>2. y \in S /\ S \subseteq Cells
    BY <1>1
  <2> HIDE DEF S
  <2>3. IsFiniteSet(S) /\ S # {}
    BY <2>2, CellsFinite
  <2>4. Cardinality(S) \in Nat /\ Cardinality(S) # 0
    BY <2>3, FS_CardinalityType, FS_EmptySet
  <2> QED BY <2>1, <2>4
<1> QED BY <1>2, <1>3 DEF AlwaysVisible

\* A search of y's wall covers y.
LEMMA WallCovers ==
    ASSUME NEW ns, NEW list \in SearchMemories(ns, Limit)
    PROVE  /\ list \in Seq(Cells) /\ DistinctIds(list)
           /\ \A y \in LiveNow : y.ns = ns /\ Similarity(y) > 0 => Covered(y, list)
<1>1. BestOf(list, Found(ns), Found(ns), Closer, Limit)
  BY RetrievalAssumption, SearchIs
<1>2. Found(ns) \subseteq Cells /\ (\A z \in Found(ns) : z.ns = ns)
      /\ \A y \in LiveNow : y.ns = ns /\ Similarity(y) > 0 => y \in Found(ns)
  BY DEF Found, Live, LiveNow
<1>3. list \in Seq(Found(ns)) /\ Distinct(list)
  BY <1>1 DEF BestOf
<1>4. list \in Seq(Cells) /\ \A i \in 1..Len(list) : list[i] \in Found(ns)
  BY <1>2, <1>3
<1>5. DistinctIds(list)
  BY <1>2, <1>3, <1>4, RoomsAssumption DEF Distinct, DistinctIds
<1>6. ASSUME NEW y \in Found(ns)
      PROVE  Covered(y, list)
  <2>1. y \in Cells /\ <<y, y>> \notin Closer
    <3>1. y \in Cells
      BY <1>2
    <3>2. Similarity(y) \in Nat
      BY <3>1, RoomsAssumption
    <3> QED BY <3>1, <3>2 DEF Closer
  <2> QED BY <1>1, <2>1 DEF BestOf, Covered
<1> QED BY <1>2, <1>4, <1>5, <1>6

LEMMA ServeServe ==
    ASSUME TypeOK, LedgerInv, ServeInv, NEW c \in Conns, Serve(c)
    PROVE  ServeInv'
<1> DEFINE x == req[c]
<1>0. ASSUME x # None
      PROVE  /\ x \in Requests /\ KindAt(x) /\ Window(x, LiveNow) /\ WakeOK(x) /\ SearchOK(x)
             /\ x.hits \in Seq(Cells) /\ x.steady \subseteq LiveNow
  BY <1>0, Underway DEF LedgerInv, ServeInv, ServeOK, Window, Requests
<1>a. UNCHANGED others => UNCHANGED row
  BY DEF others
<1>1. CASE ReadTop(c)
  <2>1. PICK list \in ListMemories(x.ns, Limit) : Becomes(c, [x EXCEPT !.top = list])
    BY <1>1, ReadTopIs
  <2>2. UNCHANGED row /\ x # None /\ x.at = "join"
    BY <1>1, <1>a, ReadTopIs DEF At
  <2> DEFINE z == [x EXCEPT !.top = list]
  <2>3. z.kind = x.kind /\ z.ns = x.ns /\ z.at = x.at /\ z.top = list /\ z.recent = x.recent
        /\ z.steady = x.steady /\ z.ever = x.ever
    BY <1>0, <2>2 DEF Requests
  <2>4. BestOf(list, Of(x.steady, x.ns), Of(x.ever, x.ns), MoreImportant, Limit)
    BY <1>0, <2>1, <2>2, RetrievalAssumption, ListIs, ReadIsBest
  <2>5. x.kind = "wakeup"
    BY <1>0, <2>2 DEF KindAt
  <2> HIDE DEF z
  <2>6. WakeOK(z) /\ SearchOK(z) /\ Window(z, LiveNow)
    BY <1>0, <2>2, <2>3, <2>4, <2>5 DEF WakeOK, SearchOK, Window
  <2> QED BY <2>1, <2>2, <2>6, ServeStep DEF ServeOK, z
<1>2. CASE ReadRecent(c)
  <2>1. PICK list \in RecentMemories(x.ns, Stratum) : Becomes(c, [x EXCEPT !.recent = list])
    BY <1>2, ReadRecentIs
  <2>2. UNCHANGED row /\ x # None /\ x.at = "join"
    BY <1>2, <1>a, ReadRecentIs DEF At
  <2> DEFINE z == [x EXCEPT !.recent = list]
  <2>3. z.kind = x.kind /\ z.ns = x.ns /\ z.at = x.at /\ z.top = x.top /\ z.recent = list
        /\ z.steady = x.steady /\ z.ever = x.ever
    BY <1>0, <2>2 DEF Requests
  <2>4. BestOf(list, Of(x.steady, x.ns), Of(x.ever, x.ns), Fresher, Stratum)
    BY <1>0, <2>1, <2>2, RetrievalAssumption, RecentIs, ReadIsBest
  <2>5. x.kind = "wakeup"
    BY <1>0, <2>2 DEF KindAt
  <2> HIDE DEF z
  <2>6. WakeOK(z) /\ SearchOK(z) /\ Window(z, LiveNow)
    BY <1>0, <2>2, <2>3, <2>4, <2>5 DEF WakeOK, SearchOK, Window
  <2> QED BY <2>1, <2>2, <2>6, ServeStep DEF ServeOK, z
<1>3. CASE ReadDoctrine(c)
  <2>1. PICK list \in Seq(Cells) : Becomes(c, [x EXCEPT !.doctrine = list])
    BY <1>3, ReadDoctrineIs
  <2>2. UNCHANGED row /\ x # None /\ x.at = "join"
    BY <1>3, <1>a, ReadDoctrineIs DEF At
  <2> DEFINE z == [x EXCEPT !.doctrine = list]
  <2>3. z.kind = x.kind /\ z.ns = x.ns /\ z.at = x.at /\ z.top = x.top /\ z.recent = x.recent
        /\ z.steady = x.steady /\ z.ever = x.ever
    BY <1>0, <2>2 DEF Requests
  <2>5. x.kind = "wakeup"
    BY <1>0, <2>2 DEF KindAt
  <2> HIDE DEF z
  <2>6. WakeOK(z) /\ SearchOK(z) /\ Window(z, LiveNow)
    BY <1>0, <2>2, <2>3, <2>5 DEF WakeOK, SearchOK, Window
  <2> QED BY <2>1, <2>2, <2>6, ServeStep DEF ServeOK, z
<1>4. CASE Compose(c)
  <2>1. PICK hits \in Essentials(x.top, x.recent) :
          Becomes(c, [x EXCEPT !.at = "append", !.hits = hits, !.events = WakeupEvents(c, hits)])
    BY <1>4, ComposeIs
  <2>2. UNCHANGED row /\ x # None /\ x.at = "join" /\ x.top \in Seq(Cells) /\ x.recent \in Seq(Cells)
        /\ None \notin {x.top, x.recent, x.doctrine}
    BY <1>4, <1>a, ComposeIs DEF At
  <2> DEFINE z == [x EXCEPT !.at = "append", !.hits = hits, !.events = WakeupEvents(c, hits)]
  <2>3. z.kind = x.kind /\ z.ns = x.ns /\ z.at = "append" /\ z.top = x.top /\ z.recent = x.recent
        /\ z.hits = hits /\ z.steady = x.steady /\ z.ever = x.ever
    BY <1>0, <2>2 DEF Requests
  <2>4. z \in Requests
    BY <2>1 DEF Becomes
  <2>5. x.kind = "wakeup"
    BY <1>0, <2>2 DEF KindAt
  <2> HIDE DEF z
  <2>6. /\ BestOf(x.top, Of(x.steady, x.ns), Of(x.ever, x.ns), MoreImportant, Limit)
        /\ BestOf(x.recent, Of(x.steady, x.ns), Of(x.ever, x.ns), Fresher, Stratum)
    BY <1>0, <2>2, <2>5 DEF WakeOK
  <2>7. Promise(z)
    BY <1>0, <2>1, <2>2, <2>3, <2>4, <2>6, PromiseKept
  <2>8. WakeOK(z) /\ SearchOK(z) /\ Window(z, LiveNow)
    BY <1>0, <2>2, <2>3, <2>5, <2>6, <2>7 DEF WakeOK, SearchOK, Window
  <2> QED BY <2>1, <2>2, <2>8, ServeStep DEF ServeOK, z
<1>5. CASE ListMemberships(c)
  <2>1. PICK walls \in SUBSET DOMAIN WallOrder :
          /\ \A i \in DOMAIN WallOrder : WallOrder[i] \in {"own", "global"} => i \in walls
          /\ Becomes(c, [x EXCEPT !.at = "stats", !.walls = walls])
    BY <1>5, ListMembershipsIs
  <2>2. UNCHANGED row /\ x # None /\ x.at = "walls"
    BY <1>5, <1>a, ListMembershipsIs DEF At
  <2> DEFINE z == [x EXCEPT !.at = "stats", !.walls = walls]
  <2>3. z.kind = x.kind /\ z.at = "stats" /\ z.walls = walls /\ z.hits = x.hits
        /\ z.steady = x.steady /\ z.ever = x.ever
    BY <1>0, <2>2 DEF Requests
  <2>5. x.kind = "visible" /\ x.hits = <<>>
    BY <1>0, <2>2 DEF KindAt, SearchOK
  <2> HIDE DEF z
  <2>8. WakeOK(z) /\ SearchOK(z) /\ Window(z, LiveNow)
    BY <1>0, <2>1, <2>2, <2>3, <2>5 DEF WakeOK, SearchOK, Window
  <2> QED BY <2>1, <2>2, <2>8, ServeStep DEF ServeOK, z
<1>5a. CASE ListImports(c)
  <2>1. PICK walls \in SUBSET DOMAIN WallOrder :
          /\ x.walls \subseteq walls
          /\ \A i \in DOMAIN WallOrder :
                WallOrder[i] \in Imports /\ StoreStats[WallOrder[i]] > 0 => i \in walls
          /\ Becomes(c, [x EXCEPT !.at = "search", !.walls = walls])
    BY <1>5a, ListImportsIs
  <2>2. UNCHANGED row /\ x # None /\ x.at = "stats"
    BY <1>5a, <1>a, ListImportsIs DEF At
  <2> DEFINE z == [x EXCEPT !.at = "search", !.walls = walls]
  <2>3. z.kind = x.kind /\ z.at = "search" /\ z.walls = walls /\ z.hits = x.hits
        /\ z.steady = x.steady /\ z.ever = x.ever
    BY <1>0, <2>2 DEF Requests
  <2>4. x.kind = "visible"
    BY <1>0, <2>2 DEF KindAt
  <2>5. /\ x.hits = <<>>
        /\ \A i \in DOMAIN WallOrder :
            \/ WallOrder[i] \in {"own", "global"}
            \/ WallOrder[i] \in Imports /\ StoreStats[WallOrder[i]] > 0
            => i \in walls
    <3>1. /\ x.hits = <<>>
          /\ \A i \in DOMAIN WallOrder : WallOrder[i] \in {"own", "global"} => i \in x.walls
      BY <1>0, <2>2, <2>4 DEF SearchOK
    <3> QED BY <2>1, <3>1
  <2> HIDE DEF z
  <2>6. DistinctIds(z.hits)
    BY <2>3, <2>5 DEF DistinctIds
  <2>7. \A y \in Owed(z) : Ahead(z, y)
    <3> SUFFICES ASSUME NEW y \in Owed(z) PROVE \E w \in walls : WallOrder[w] = y.ns
      BY <2>3 DEF Ahead
    <3>1. y \in LiveNow /\ y.ns \in AlwaysVisible
      BY <1>0, <2>2, <2>3 DEF Owed
    <3> QED BY <2>5, <3>1, WallListed
  <2>8. WakeOK(z) /\ SearchOK(z) /\ Window(z, LiveNow)
    BY <1>0, <2>2, <2>3, <2>4, <2>6, <2>7 DEF WakeOK, SearchOK, Window
  <2> QED BY <2>1, <2>2, <2>8, ServeStep DEF ServeOK, z
<1>6. CASE SearchWall(c)
  <2>1. UNCHANGED row /\ x # None /\ x.at = "search"
    BY <1>6, <1>a, SearchWallIs DEF At
  <2>2. PICK w \in x.walls : \E list \in SearchMemories(WallOrder[w], Limit) :
          \E hits \in MergeSearchHits(x.hits, list) :
            Becomes(c, [x EXCEPT !.walls = @ \ {w}, !.hits = hits])
    BY <1>6, SearchWallIs
  <2>3. PICK list \in SearchMemories(WallOrder[w], Limit) : \E hits \in MergeSearchHits(x.hits, list) :
            Becomes(c, [x EXCEPT !.walls = @ \ {w}, !.hits = hits])
    BY <2>2
  <2>4. PICK hits \in MergeSearchHits(x.hits, list) :
            Becomes(c, [x EXCEPT !.walls = @ \ {w}, !.hits = hits])
    BY <2>3
  <2> DEFINE z == [x EXCEPT !.walls = @ \ {w}, !.hits = hits]
  <2>5. z.kind = x.kind /\ z.at = "search" /\ z.walls = x.walls \ {w} /\ z.hits = hits
        /\ z.steady = x.steady /\ z.ever = x.ever
    BY <1>0, <2>1 DEF Requests
  <2> HIDE DEF z
  <2>6. x.kind = "visible"
    BY <1>0, <2>1 DEF KindAt
  <2>7. /\ list \in Seq(Cells) /\ DistinctIds(list)
        /\ \A y \in LiveNow : y.ns = WallOrder[w] /\ Similarity(y) > 0 => Covered(y, list)
    BY <2>3, WallCovers
  <2>8. DistinctIds(x.hits) /\ \A y \in Owed(x) : Covered(y, x.hits) \/ Ahead(x, y)
    BY <1>0, <2>1, <2>6 DEF SearchOK
  <2>9. DistinctIds(hits)
    BY <1>0, <2>1, <2>4, <2>7, MergeDistinct
  <2>10. ASSUME NEW y \in Owed(z)
         PROVE  Covered(y, hits) \/ Ahead(z, y)
    <3>1. y \in Owed(x) /\ y \in LiveNow /\ y \in Cells /\ Similarity(y) > 0
      BY <1>0, <2>1, <2>5 DEF Owed, LiveNow
    <3>2. ASSUME Covered(y, x.hits) PROVE Covered(y, hits)
      BY <1>0, <2>1, <2>4, <2>7, <2>8, <3>1, <3>2, MergeCovers
    <3>3. ASSUME Covered(y, list) PROVE Covered(y, hits)
      BY <1>0, <2>1, <2>4, <2>7, <3>1, <3>3, MergeCovers
    <3>4. CASE Ahead(x, y)
      <4>1. PICK v \in x.walls : WallOrder[v] = y.ns
        BY <3>4 DEF Ahead
      <4>2. CASE v = w
        BY <2>7, <3>1, <3>3, <4>1, <4>2
      <4>3. CASE v # w
        BY <2>5, <4>1, <4>3 DEF Ahead
      <4> QED BY <4>2, <4>3
    <3> QED BY <2>8, <3>1, <3>2, <3>4
  <2>11. WakeOK(z) /\ SearchOK(z) /\ Window(z, LiveNow)
    BY <1>0, <2>1, <2>5, <2>6, <2>9, <2>10 DEF WakeOK, SearchOK, Window
  <2> QED BY <2>1, <2>4, <2>11, ServeStep DEF ServeOK, z
<1>7. CASE SearchDone(c)
  <2> DEFINE z == [x EXCEPT !.at = "append", !.hits = x.hits, !.events = EventsOf(c, "Search", x.hits)]
  <2>1. UNCHANGED row /\ x # None /\ x.at = "search" /\ x.walls = {} /\ Becomes(c, z)
    BY <1>7, <1>a, SearchDoneIs DEF At, Serves
  <2>2. z.kind = x.kind /\ z.at = "append" /\ z.hits = x.hits /\ z.steady = x.steady /\ z.ever = x.ever
    BY <1>0, <2>1 DEF Requests
  <2> HIDE DEF z
  <2>3. x.kind = "visible"
    BY <1>0, <2>1 DEF KindAt
  <2>4. DistinctIds(x.hits) /\ \A y \in Owed(x) : Covered(y, x.hits)
    BY <1>0, <2>1, <2>3 DEF SearchOK, Ahead
  <2>5. DistinctIds(z.hits) /\ \A y \in Owed(z) : Covered(y, z.hits)
    BY <2>2, <2>4 DEF Owed
  <2>6. WakeOK(z) /\ SearchOK(z) /\ Window(z, LiveNow)
    BY <1>0, <2>1, <2>2, <2>3, <2>5 DEF WakeOK, SearchOK, Window
  <2> QED BY <2>1, <2>6, ServeStep DEF ServeOK
<1>8. CASE SearchOne(c) \/ Browse(c)
  <2>1. PICK hits, kind : Serves(c, hits, kind)
    BY <1>8, ReadOneIs
  <2>2. UNCHANGED row /\ x # None /\ x.kind \in {"personal", "browse"}
    BY <1>8, <1>a, ReadOneIs DEF At
  <2> DEFINE z == [x EXCEPT !.at = "append", !.hits = hits, !.events = EventsOf(c, kind, hits)]
  <2>3. Becomes(c, z)
    BY <2>1 DEF Serves
  <2>4. z.kind = x.kind /\ z.steady = x.steady /\ z.ever = x.ever
    BY <1>0, <2>2 DEF Requests
  <2> HIDE DEF z
  <2>5. WakeOK(z) /\ SearchOK(z) /\ Window(z, LiveNow)
    BY <1>0, <2>2, <2>4 DEF WakeOK, SearchOK, Window
  <2> QED BY <2>2, <2>3, <2>5, ServeStep DEF ServeOK
<1>9. ASSUME NEW z, Becomes(c, z), UNCHANGED row, x # None, x.at = "append",
             z.at \in {"append", "replied"}, z.kind = x.kind, z.ns = x.ns, z.top = x.top,
             z.recent = x.recent, z.hits = x.hits, z.steady = x.steady, z.ever = x.ever
      PROVE  ServeInv'
  <2>1. WakeOK(z)
    <3>1. Promise(x) => Promise(z)
      BY <1>9 DEF Promise, NoWorseThan
    <3> QED BY <1>0, <1>9, <3>1 DEF WakeOK
  <2>2. SearchOK(z)
    BY <1>0, <1>9 DEF SearchOK, Owed, Ahead
  <2>3. Window(z, LiveNow)
    BY <1>0, <1>9 DEF Window
  <2> QED BY <1>9, <2>1, <2>2, <2>3, ServeStep DEF ServeOK
<1>10. CASE Append1(c)
  <2> DEFINE z == [x EXCEPT !.events = Tail(@)]
  <2>1. UNCHANGED row /\ x # None /\ x.at = "append" /\ Becomes(c, z)
    BY <1>10, AppendIs DEF At
  <2>2. /\ z.at = "append" /\ z.kind = x.kind /\ z.ns = x.ns /\ z.top = x.top
        /\ z.recent = x.recent /\ z.hits = x.hits /\ z.steady = x.steady /\ z.ever = x.ever
    BY <1>0, <2>1 DEF Requests
  <2> HIDE DEF z
  <2> QED BY <1>9, <2>1, <2>2
<1>11. CASE Answer(c)
  <2> DEFINE z == [x EXCEPT !.at = "replied"]
  <2>1. UNCHANGED row /\ x # None /\ x.at = "append" /\ Becomes(c, z)
    BY <1>11, <1>a, AnswerIs DEF At
  <2>2. /\ z.at = "replied" /\ z.kind = x.kind /\ z.ns = x.ns /\ z.top = x.top
        /\ z.recent = x.recent /\ z.hits = x.hits /\ z.steady = x.steady /\ z.ever = x.ever
    BY <1>0, <2>1 DEF Requests
  <2> HIDE DEF z
  <2> QED BY <1>9, <2>1, <2>2
<1>12. CASE Received(c)
  <2>1. req' = [req EXCEPT ![c] = None] /\ UNCHANGED row
    BY <1>12 DEF Received
  <2>2. \A d \in Conns : req'[d] # None => req'[d] = req[d] /\ req[d] # None
    BY <2>1 DEF TypeOK
  <2> QED BY <2>1, <2>2 DEF ServeInv, LiveNow
<1> QED BY <1>1, <1>2, <1>3, <1>4, <1>5, <1>5a, <1>6, <1>7, <1>8, <1>10, <1>11, <1>12 DEF Serve

\* Someone else's write takes from what is owed, or adds to what may come before.
LEMMA ServeWritten ==
    ASSUME NEW x \in Requests, NEW live, ServeOK(x, live), live \subseteq Cells, NEW y \in Cells, NEW to,
           NEW after, after = IF to = "live" THEN live \cup {y} ELSE live \ {y}
    PROVE  ServeOK(Seen(x, y, to), after)
<1> DEFINE z == Seen(x, y, to)
<1>1. z.kind = x.kind /\ z.ns = x.ns /\ z.at = x.at /\ z.walls = x.walls /\ z.top = x.top
      /\ z.recent = x.recent /\ z.hits = x.hits
  BY DEF Seen, Requests
<1>2. z.steady = (IF to = "live" THEN x.steady ELSE x.steady \ {y})
      /\ z.ever = (IF to = "live" THEN x.ever \cup {y} ELSE x.ever)
  BY DEF Seen, Requests
<1> HIDE DEF z
<1>3. x.steady \subseteq live /\ live \subseteq x.ever /\ x.ever \subseteq Cells
  BY DEF ServeOK, Window
<1>4. z.steady \subseteq x.steady /\ x.ever \subseteq z.ever /\ Window(z, after)
  BY <1>2, <1>3 DEF Window
<1>5. z.ever \subseteq Cells
  BY <1>4 DEF Window
<1>6. Of(z.steady, z.ns) \subseteq Of(x.steady, x.ns) /\ Of(x.ever, x.ns) \subseteq Of(z.ever, z.ns)
      /\ Of(z.ever, z.ns) \subseteq Cells
  BY <1>1, <1>4, <1>5 DEF Of
<1>7. SearchOK(z)
  <2>1. Owed(z) \subseteq Owed(x) /\ \A u : Ahead(x, u) => Ahead(z, u)
    BY <1>1, <1>4 DEF Owed, Ahead
  <2> QED BY <1>1, <2>1 DEF ServeOK, SearchOK
<1>8. Promise(x) => Promise(z)
  <2> SUFFICES ASSUME Promise(x), NEW u \in Of(z.steady, z.ns), u \notin ToSet(z.hits)
               PROVE  /\ Cardinality(NoWorseThan(z, u, Fresher)) >= Stratum
                      /\ Cardinality(NoWorseThan(z, u, MoreImportant)) >= Limit - Stratum
                      /\ Cardinality(Of(z.ever, z.ns)) > Limit
    BY DEF Promise
  <2>1. /\ Cardinality(NoWorseThan(x, u, Fresher)) >= Stratum
        /\ Cardinality(NoWorseThan(x, u, MoreImportant)) >= Limit - Stratum
        /\ Cardinality(Of(x.ever, x.ns)) > Limit
    BY <1>1, <1>6 DEF Promise
  <2>2. ASSUME NEW A, NEW B, A \subseteq B, B \subseteq Cells
        PROVE  Cardinality(A) \in Nat /\ Cardinality(B) \in Nat /\ Cardinality(A) <= Cardinality(B)
    <3>1. IsFiniteSet(A) /\ IsFiniteSet(B)
      BY <2>2, CellsFinite
    <3> QED BY <2>2, <3>1, FS_Subset, FS_CardinalityType
  <2>3. \A R : NoWorseThan(x, u, R) \subseteq NoWorseThan(z, u, R) /\ NoWorseThan(z, u, R) \subseteq Cells
    BY <1>4, <1>5 DEF NoWorseThan
  <2>4. \A R : /\ Cardinality(NoWorseThan(x, u, R)) \in Nat /\ Cardinality(NoWorseThan(z, u, R)) \in Nat
               /\ Cardinality(NoWorseThan(x, u, R)) <= Cardinality(NoWorseThan(z, u, R))
    BY <2>2, <2>3
  <2>5. /\ Cardinality(Of(x.ever, x.ns)) \in Nat /\ Cardinality(Of(z.ever, z.ns)) \in Nat
        /\ Cardinality(Of(x.ever, x.ns)) <= Cardinality(Of(z.ever, z.ns))
    BY <1>6, <2>2
  <2>6. Stratum \in Nat /\ Limit \in Nat
    BY RetrievalAssumption
  <2>7. Cardinality(NoWorseThan(z, u, Fresher)) >= Stratum
    BY <2>1, <2>4, <2>6
  <2>8. Cardinality(NoWorseThan(z, u, MoreImportant)) >= Limit - Stratum
    BY <2>1, <2>4, <2>6
  <2>9. Cardinality(Of(z.ever, z.ns)) > Limit
    BY <2>1, <2>5, <2>6
  <2> QED BY <2>7, <2>8, <2>9
<1>9. \A t, R, n : BestOf(t, Of(x.steady, x.ns), Of(x.ever, x.ns), R, n)
                   => BestOf(t, Of(z.steady, z.ns), Of(z.ever, z.ns), R, n)
  BY <1>6, BestKept
<1>10. WakeOK(z)
  BY <1>1, <1>8, <1>9 DEF ServeOK, WakeOK
<1> QED BY <1>4, <1>7, <1>10 DEF ServeOK, z

LEMMA ServeNext == TypeOK /\ LedgerInv /\ ServeInv /\ [Next]_vars => ServeInv'
<1> SUFFICES ASSUME TypeOK, LedgerInv, ServeInv, [Next]_vars PROVE ServeInv'
  OBVIOUS
<1>1. ASSUME NEW c \in Conns, Serve(c)
      PROVE  ServeInv'
  BY <1>1, ServeServe
<1>2. ASSUME UNCHANGED <<req, row>>
      PROVE  ServeInv'
  BY <1>2 DEF ServeInv, LiveNow
<1>3. ASSUME NEW c \in Conns, NEW kind \in Kinds, NEW ns \in Namespaces,
             NEW room \in RoomNames \cup {None}, Receive(c, kind, ns, room)
      PROVE  ServeInv'
  <2>1. UNCHANGED row
    BY <1>3, ReceiveIs
  <2>2. PICK x \in Requests :
          /\ req' = [req EXCEPT ![c] = x]
          /\ x.kind = kind /\ x.hits = <<>> /\ x.top = None /\ x.recent = None
          /\ x.steady = LiveNow /\ x.ever = LiveNow
          /\ x.at \in {"join", "walls", "read"}
          /\ (kind = "visible" <=> x.at = "walls")
    BY <1>3, ReceiveIs
  <2>3. req'[c] = x /\ \A d \in Conns : d # c => req'[d] = req[d]
    BY <2>2 DEF TypeOK
  <2>4. ServeOK(x, LiveNow)
    <3>1. LiveNow \subseteq Cells
      BY DEF LiveNow
    <3> QED BY <2>2, <3>1 DEF ServeOK, WakeOK, SearchOK, Window
  <2>5. \A d \in Conns : req'[d] # None => ServeOK(req'[d], LiveNow)
    BY <2>3, <2>4 DEF ServeInv
  <2>6. LiveNow' = LiveNow
    BY <2>1 DEF LiveNow
  <2> QED BY <2>5, <2>6 DEF ServeInv
<1>4. ASSUME NEW y \in Cells, NEW to \in States, Write(y, to)
      PROVE  ServeInv'
  <2>1. /\ row' = [row EXCEPT ![y] = to]
        /\ \A c \in Conns : req'[c] = IF req[c] = None THEN None ELSE Seen(req[c], y, to)
    BY <1>4, WriteIs
  <2>2. LiveNow \subseteq Cells /\ LiveNow' = IF to = "live" THEN LiveNow \cup {y} ELSE LiveNow \ {y}
    <3>1. \A u \in Cells : row'[u] = IF u = y THEN to ELSE row[u]
      BY <2>1 DEF TypeOK
    <3> QED BY <3>1 DEF LiveNow
  <2>3. ASSUME NEW c \in Conns, req'[c] # None
        PROVE  ServeOK(req'[c], LiveNow')
    <3>1. req[c] # None /\ req'[c] = Seen(req[c], y, to)
      BY <2>1, <2>3
    <3>2. req[c] \in Requests /\ ServeOK(req[c], LiveNow)
      BY <3>1, Underway DEF ServeInv
    <3> DEFINE live == LiveNow
               after == LiveNow'
               x == req[c]
    <3>3. x \in Requests /\ ServeOK(x, live) /\ live \subseteq Cells
          /\ after = IF to = "live" THEN live \cup {y} ELSE live \ {y}
      BY <2>2, <3>2
    <3> HIDE DEF live, after, x
    <3>4. ServeOK(Seen(x, y, to), after)
      BY <3>3, ServeWritten
    <3> QED BY <3>1, <3>4 DEF after, x
  <2> QED BY <2>3 DEF ServeInv
<1>5. ASSUME NEW ns \in Orgs, Membership(ns)
      PROVE  ServeInv'
  BY <1>2, <1>5 DEF Membership
<1>6. ASSUME NEW t \in 1..MaxTime, Prune(t)
      PROVE  ServeInv'
  BY <1>2, <1>6 DEF Prune
<1>7. CASE Tick
  BY <1>2, <1>7 DEF Tick
<1>8. CASE UNCHANGED vars
  BY <1>2, <1>8 DEF vars
<1> QED
  <2>1. Kinds = {"wakeup", "visible", "personal", "browse"} /\ {"own", "doctrine"} \subseteq Namespaces
    BY RetrievalAssumption DEF Kinds
  <2> QED BY <1>1, <1>3, <1>4, <1>5, <1>6, <1>7, <1>8, <2>1 DEF Next, States

LEMMA ServeInvHolds == Spec => [](TypeOK /\ LedgerInv /\ ServeInv)
<1>1. Init => TypeOK /\ LedgerInv /\ ServeInv
  <2>1. Init => ServeInv
    BY DEF Init, ServeInv
  <2> QED BY <2>1, TypeInit, LedgerInvInit
<1>2. TypeOK /\ LedgerInv /\ ServeInv /\ [Next]_vars => (TypeOK /\ LedgerInv /\ ServeInv)'
  BY TypeStep, LedgerNext, ServeNext
<1> QED BY <1>1, <1>2, PTL DEF Spec

\* WakeupPromise (wakeup, list_memories, recent_memories): although the three
\* reads of the join see the wall at three moments, with writes between them, a
\* row live throughout is served unless enough others come before it.
THEOREM WakeupKeepsPromise == Spec => []WakeupPromise
<1>1. TypeOK /\ LedgerInv /\ ServeInv => WakeupPromise
  <2> SUFFICES ASSUME TypeOK, ServeInv, NEW c \in Conns, At(c, "replied"), req[c].kind = "wakeup",
                      NEW x \in {y \in req[c].steady : y.ns = req[c].ns}
               PROVE  \/ x \in Served(c)
                      \/ /\ Cardinality(NoWorse(c, x, Fresher)) >= Stratum
                         /\ Cardinality(NoWorse(c, x, MoreImportant)) >= Limit - Stratum
                         /\ Cardinality({y \in req[c].ever : y.ns = req[c].ns}) > Limit
    BY DEF WakeupPromise
  <2>1. Promise(req[c])
    BY DEF At, ServeInv, ServeOK, WakeOK
  <2>2. NoWorse(c, x, Fresher) = NoWorseThan(req[c], x, Fresher)
        /\ NoWorse(c, x, MoreImportant) = NoWorseThan(req[c], x, MoreImportant)
    BY DEF NoWorse, NoWorseThan
  <2>3. x \in Of(req[c].steady, req[c].ns) /\ Served(c) = ToSet(req[c].hits)
        /\ {y \in req[c].ever : y.ns = req[c].ns} = Of(req[c].ever, req[c].ns)
    BY DEF Of, Served
  <2> QED BY <2>1, <2>2, <2>3 DEF Promise
<1> QED BY <1>1, ServeInvHolds, PTL

\* BestServed (search_memories, merge_search_hits_with_walls): merging and
\* cutting wall by wall, while rows and memberships change, no answer shows an id
\* twice or leaves out a row live throughout for one that is less close.
THEOREM SearchServesBest == Spec => []BestServed
<1>1. TypeOK /\ LedgerInv /\ ServeInv => BestServed
  <2> SUFFICES ASSUME TypeOK, ServeInv, NEW c \in Conns, At(c, "replied"), req[c].kind = "visible"
               PROVE  /\ \A i, j \in 1..Len(req[c].hits) :
                          req[c].hits[i].id = req[c].hits[j].id => i = j
                      /\ \A x \in {y \in req[c].steady : y.ns \in AlwaysVisible /\ Similarity(y) > 0} :
                          \/ \E y \in Served(c) : y.id = x.id /\ <<x, y>> \notin Closer
                          \/ Len(req[c].hits) = Limit /\ \A y \in Served(c) : <<x, y>> \notin Closer
    BY DEF BestServed
  <2> DEFINE hits == req[c].hits
  <2>1. req[c] \in Requests /\ req[c].at = "replied" /\ ServeOK(req[c], LiveNow)
    BY Underway DEF At, ServeInv
  <2>2. DistinctIds(hits) /\ \A y \in Owed(req[c]) : Covered(y, hits)
    BY <2>1 DEF ServeOK, SearchOK, Ahead
  <2>3. hits \in Seq(Cells)
    BY <2>1 DEF Requests
  <2>4. Served(c) = {hits[i] : i \in 1..Len(hits)}
    <3>1. DOMAIN hits = 1..Len(hits)
      BY <2>3
    <3> QED BY <3>1 DEF Served, ToSet
  <2> HIDE DEF hits
  <2>5. \A x \in Owed(req[c]) :
          \/ \E y \in Served(c) : y.id = x.id /\ <<x, y>> \notin Closer
          \/ Len(hits) = Limit /\ \A y \in Served(c) : <<x, y>> \notin Closer
    BY <2>2, <2>4 DEF Covered
  <2> QED BY <2>2, <2>5 DEF Owed, DistinctIds, hits
<1> QED BY <1>1, ServeInvHolds, PTL

-----------------------------------------------------------------------------
(* What a list of the ledger shows *)

\* An event asked for is shown, or the list is full of events that come first.
LEMMA ListEventsShow ==
    ASSUME TypeOK, NEW scope, NEW since, NEW n \in Nat, NEW list \in ListEvents(scope, since, n),
           NEW e \in Asked(scope, since)
    PROVE  \/ e \in ToSet(list)
           \/ Len(list) = n /\ \A f \in ToSet(list) : f.ts > e.ts \/ (f.ts = e.ts /\ f.rank <= e.rank)
<1> DEFINE es == Asked(scope, since)
<1>1. es \subseteq ledger /\ IsFiniteSet(ledger) /\ ledger \subseteq Events
  BY DEF Asked, TypeOK
<1>2. PICK s \in Rankings(es, Newer(es)) : list = Truncate(s, n)
  BY DEF ListEvents
<1>3. \A f \in es : f.ts \in Nat /\ f.rank \in Nat
  BY <1>1 DEF Events
<1>4. \A f, g \in es : <<f, g>> \in Newer(es) <=> f.ts > g.ts \/ (f.ts = g.ts /\ f.rank < g.rank)
  BY DEF Newer
<1> HIDE DEF es
<1>5. BestOf(list, es, es, Newer(es), n)
  BY <1>1, <1>2, FS_Subset, CutRankingIsBest
<1>6. e \in es
  BY DEF es
<1>7. list \in Seq(es) /\ ToSet(list) = {list[i] : i \in 1..Len(list)}
      /\ \A i \in 1..Len(list) : list[i] \in es
  <2>1. list \in Seq(es)
    BY <1>5 DEF BestOf
  <2>2. DOMAIN list = 1..Len(list) /\ \A i \in 1..Len(list) : list[i] \in es
    BY <2>1
  <2> QED BY <2>1, <2>2 DEF ToSet
<1>8. \/ \E i \in 1..Len(list) : list[i] = e
      \/ Len(list) = n /\ \A i \in 1..Len(list) : <<e, list[i]>> \notin Newer(es)
  BY <1>5, <1>6 DEF BestOf
<1>9. CASE \E i \in 1..Len(list) : list[i] = e
  BY <1>7, <1>9
<1>10. CASE Len(list) = n /\ \A i \in 1..Len(list) : <<e, list[i]>> \notin Newer(es)
  <2>1. ASSUME NEW i \in 1..Len(list)
        PROVE  list[i].ts > e.ts \/ (list[i].ts = e.ts /\ list[i].rank <= e.rank)
    <3>1. list[i] \in es /\ ~(e.ts > list[i].ts \/ (e.ts = list[i].ts /\ e.rank < list[i].rank))
      BY <1>4, <1>6, <1>7, <1>10
    <3>2. list[i].ts \in Nat /\ list[i].rank \in Nat /\ e.ts \in Nat /\ e.rank \in Nat
      BY <1>3, <1>6, <3>1
    <3> QED BY <3>1, <3>2
  <2> QED BY <1>7, <1>10, <2>1
<1> QED BY <1>8, <1>9, <1>10

\* The rows an answer shows.
Rows(x) == ToSet(x.hits) \cup (IF x.kind = "wakeup" THEN ToSet(x.doctrine) ELSE {})

\* Each of them has an event.
LEMMA RowsHaveEvents ==
    ASSUME TypeOK, LedgerInv, NEW c \in Conns, At(c, "replied"), NEW y \in Rows(req[c])
    PROVE  \E e \in ledger \cup unlogged : e.rid = req[c].rid /\ e.ns = y.ns /\ e.id = y.id
<1> DEFINE x == req[c]
           n == Len(x.hits)
<1>1. x \in Requests /\ x # None /\ x.at = "replied"
  BY Underway DEF At
<1>2. PICK F, k : EventsFor(x, F) /\ Written(x, Logged(x.rid), F, k)
  BY <1>1 DEF LedgerInv, Page
<1>3. \A i \in 1..Len(F) : F[i] \in Logged(x.rid)
  BY <1>1, <1>2 DEF Written
<1>4. \A e \in Logged(x.rid) : e \in ledger \cup unlogged /\ e.rid = x.rid
  BY DEF Logged
<1>5. x.hits \in Seq(Cells) /\ n \in Nat
  BY <1>1 DEF Requests
<1>6. F \in Seq(Events) /\ Len(F) \in Nat
  <2>1. F \in Seq(Events)
    BY <1>2 DEF EventsFor
  <2> QED BY <2>1
<1> SUFFICES \E i \in 1..Len(F) : F[i].ns = y.ns /\ F[i].id = y.id
  BY <1>3, <1>4
<1>7. CASE x.kind = "wakeup"
  <2> DEFINE d == x.doctrine
  <2>1. d \in Seq(Cells) /\ Len(d) \in Nat /\ Len(F) = n + Len(d)
    BY <1>2, <1>7 DEF EventsFor
  <2>2. CASE y \in ToSet(x.hits)
    <3>1. PICK i \in 1..n : y = x.hits[i]
      <4>1. DOMAIN x.hits = 1..n
        BY <1>5
      <4> QED BY <2>2, <4>1 DEF ToSet
    <3>2. i \in 1..Len(F)
      <4> HIDE DEF n, d
      <4> QED BY <1>5, <2>1
    <3>3. F[i].ns = x.hits[i].ns /\ F[i].id = x.hits[i].id
      BY <1>2 DEF EventsFor
    <3> QED BY <3>1, <3>2, <3>3
  <2>3. CASE y \in ToSet(d)
    <3>1. PICK j \in 1..Len(d) : y = d[j]
      <4>1. DOMAIN d = 1..Len(d)
        BY <2>1
      <4> QED BY <2>3, <4>1 DEF ToSet
    <3>2. n + j \in 1..Len(F)
      <4> HIDE DEF n, d
      <4> QED BY <1>5, <2>1
    <3>3. F[n + j].ns = d[j].ns /\ F[n + j].id = d[j].id
      BY <1>2, <1>7 DEF EventsFor, DoctrineListed
    <3> QED BY <3>1, <3>2, <3>3
  <2> QED BY <1>7, <2>2, <2>3 DEF Rows
<1>8. CASE x.kind # "wakeup"
  <2>1. Len(F) = n + 0
    BY <1>2, <1>8 DEF EventsFor
  <2>2. PICK i \in 1..n : y = x.hits[i]
    <3>1. DOMAIN x.hits = 1..n
      BY <1>5
    <3> QED BY <1>8, <3>1 DEF Rows, ToSet
  <2>3. i \in 1..Len(F)
    BY <1>5, <2>1
  <2>4. F[i].ns = x.hits[i].ns /\ F[i].id = x.hits[i].id
    BY <1>2 DEF EventsFor
  <2> QED BY <2>2, <2>3, <2>4
<1> QED BY <1>7, <1>8

LEMMA ShownIs ==
    ASSUME NEW n \in {None} \cup 0..LedgerCap + 1
    PROVE  Shown(n) \in Nat
<1>1. LedgerDefault \in Nat /\ LedgerCap \in Nat
  BY RetrievalAssumption
<1>2. n = None \/ n \in Nat
  BY <1>1
<1> QED BY <1>1, <1>2 DEF Shown

\* AuditShows (retrieval_ledger_list, list_retrieval_events): whatever requests
\* append and prune at once, the event of a row an answered request served is in
\* every list of the ledger that covers it, unless it was lost or pruned or the
\* list is full of events that come first.
THEOREM AuditAccounts == Spec => []AuditShows
<1>1. TypeOK /\ LedgerInv => AuditShows
  <2> SUFFICES ASSUME TypeOK, LedgerInv, NEW c \in Conns, At(c, "replied"), NEW x \in Rows(req[c]),
                      NEW ns \in {None, x.ns}, NEW since \in 0..now,
                      NEW n \in {None} \cup 0..LedgerCap + 1, NEW list \in LedgerList(ns, since, n)
               PROVE  \E e \in ledger \cup unlogged :
                        /\ e.rid = req[c].rid /\ e.ns = x.ns /\ e.id = x.id
                        /\ \/ e \in ToSet(list) \/ e \in unlogged \/ e.ts < since
                           \/ /\ Len(list) = Shown(n)
                              /\ \A f \in ToSet(list) :
                                    f.ts > e.ts \/ (f.ts = e.ts /\ f.rank <= e.rank)
    BY DEF AuditShows, Rows, Served
  <2>1. PICK e \in ledger \cup unlogged : e.rid = req[c].rid /\ e.ns = x.ns /\ e.id = x.id
    BY RowsHaveEvents
  <2>2. e.ts \in Nat /\ e.ns \in Namespaces /\ since \in Nat
    BY DEF TypeOK, Events
  <2> SUFFICES ASSUME e \in ledger, e.ts >= since
               PROVE  \/ e \in ToSet(list)
                      \/ /\ Len(list) = Shown(n)
                         /\ \A f \in ToSet(list) :
                                f.ts > e.ts \/ (f.ts = e.ts /\ f.rank <= e.rank)
    BY <2>1, <2>2
  <2> DEFINE scope == IF ns = None THEN Namespaces ELSE {ns}
  <2>3. list \in ListEvents(scope, since, Shown(n))
    BY DEF LedgerList
  <2>4. e.ns \in scope
    BY <2>1, <2>2
  <2> HIDE DEF scope
  <2>5. e \in Asked(scope, since)
    BY <2>4 DEF Asked
  <2>6. Shown(n) \in Nat
    BY ShownIs
  <2> QED BY <2>3, <2>5, <2>6, ListEventsShow
<1>2. Spec => [](TypeOK /\ LedgerInv)
  BY ServeInvHolds, PTL
<1> QED BY <1>1, <1>2, PTL

=============================================================================
