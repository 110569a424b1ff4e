----------------------------- MODULE Retrieval ------------------------------
(***************************************************************************)
(* Wake-up, search and browse, and the ledger of what they served.  Each is  *)
(* several database round trips: a wake-up joins three independent reads, a  *)
(* visible-scope search lists its walls and then reads them one by one, and  *)
(* each event is appended to the ledger on its own.  Memories are written,   *)
(* corrected and deleted, memberships change and the ledger is pruned in     *)
(* between.  One principal, whose private namespace is "own".                *)
(***************************************************************************)
EXTENDS Rooms

CONSTANTS
    Conns,          \* concurrent requests
    WallOrder,      \* the namespaces in string order
    Orgs,           \* org walls, which take a membership to read
    Imports,        \* ns_import_* walls, open to all
    Palaces,        \* what the palace may hold at the start
    Limit,          \* WAKEUP_PERSONAL_LIMIT, and the limit of a search
    Stratum,        \* WAKEUP_RECENT_STRATUM
    DoctrineLimit,  \* WAKEUP_DOCTRINE_LIMIT
    LedgerDefault,  \* events the ledger's list shows unless asked for a number
    LedgerCap,      \* and the most it shows
    MaxRequests,    \* bound: requests
    MaxWrites,      \* bound: writes to the palace and to memberships
    MaxFaults,      \* bound: failed ledger appends
    MaxTime         \* bound: seconds that pass

ASSUME RetrievalAssumption ==
    /\ Limit \in Nat /\ Stratum \in Nat /\ Stratum < Limit
    /\ DoctrineLimit \in Nat /\ LedgerDefault \in Nat /\ LedgerCap \in Nat
    /\ Palaces \subseteq [Cells -> {"absent", "live", "superseded"}]
    /\ {"own", "global", "doctrine"} \cup Orgs \cup Imports \subseteq Namespaces
    /\ WallOrder \in Seq(Namespaces) /\ Namespaces \subseteq ToSet(WallOrder)

VARIABLES
    member,     \* the org walls the principal is a member of
    ledger,     \* the retrieval_ledger table: a set of events
    now,        \* the wall clock in seconds
    req,        \* the request each connection serves, or None
    unlogged,   \* observation: events whose append failed or that were pruned
    used        \* how much of each bound is spent

vars == <<row, member, ledger, now, req, unlogged, used>>

Kinds == {"wakeup", "visible", "personal", "browse"}

Init ==
    /\ row \in Palaces
    /\ member \in SUBSET Orgs
    /\ ledger = {} /\ now = 0
    /\ req = [c \in Conns |-> None]
    /\ unlogged = {}
    /\ used = [requests |-> 0, writes |-> 0, faults |-> 0]

Spend(what) == used' = [used EXCEPT ![what] = @ + 1]

At(c, step) == req[c] # None /\ req[c].at = step

-----------------------------------------------------------------------------
(* Requests *)

\* `steady` and `ever` observe which rows were live all along, or at any time.
Receive(c, kind, ns, room) ==
    /\ req[c] = None /\ used.requests < MaxRequests
    /\ Spend("requests")
    /\ req' = [req EXCEPT ![c] =
        [kind |-> kind, ns |-> ns, room |-> room, rid |-> used.requests,
         at |-> IF kind = "wakeup" THEN "join" ELSE IF kind = "visible" THEN "walls" ELSE "read",
         walls |-> {}, top |-> None, recent |-> None, doctrine |-> None,
         hits |-> <<>>, events |-> <<>>,
         steady |-> {x \in Cells : row[x] = "live"}, ever |-> {x \in Cells : row[x] = "live"}]]
    /\ UNCHANGED <<row, member, ledger, now, unlogged>>

Event(c, kind, x, rank) ==
    [rid |-> req[c].rid, kind |-> kind, ns |-> x.ns, id |-> x.id, rank |-> rank, ts |-> now]

\* One event per hit, in rank order.
EventsOf(c, kind, hits) == [i \in 1..Len(hits) |-> Event(c, kind, hits[i], i - 1)]

-----------------------------------------------------------------------------
(* wakeup *)

\* The three reads of the join, in any order.
ReadTop(c) ==
    /\ At(c, "join") /\ req[c].top = None
    /\ \E list \in ListMemories(req[c].ns, Limit) : req' = [req EXCEPT ![c].top = list]
    /\ UNCHANGED <<row, member, ledger, now, unlogged, used>>

ReadRecent(c) ==
    /\ At(c, "join") /\ req[c].recent = None
    /\ \E list \in RecentMemories(req[c].ns, Stratum) : req' = [req EXCEPT ![c].recent = list]
    /\ UNCHANGED <<row, member, ledger, now, unlogged, used>>

ReadDoctrine(c) ==
    /\ At(c, "join") /\ req[c].doctrine = None
    /\ \E list \in ListMemories("doctrine", DoctrineLimit) : req' = [req EXCEPT ![c].doctrine = list]
    /\ UNCHANGED <<row, member, ledger, now, unlogged, used>>

EssentialsTopFirst(top, recent) ==
    {Truncate(top \o s, Limit) : s \in Retain(recent, Cells \ ToSet(top))}

\* The recency stratum is admitted first; the lexicographic order fills up.
Essentials(top, recent) ==
    {Truncate(recent \o s, Limit) : s \in Retain(top, Cells \ ToSet(recent))}

\* The strata are told apart in the ledger, and doctrine ranks start again.
StratumOf(c, x) ==
    IF x \in ToSet(req[c].recent) THEN "WakeupRecent" ELSE "WakeupLexicographic"

Compose(c) ==
    /\ At(c, "join") /\ None \notin {req[c].top, req[c].recent, req[c].doctrine}
    /\ \E hits \in Essentials(req[c].top, req[c].recent) :
        req' = [req EXCEPT
            ![c].at = "append", ![c].hits = hits,
            ![c].events = [i \in 1..Len(hits) |-> Event(c, StratumOf(c, hits[i]), hits[i], i - 1)]
                          \o EventsOf(c, "WakeupDoctrine", req[c].doctrine)]
    /\ UNCHANGED <<row, member, ledger, now, unlogged, used>>

-----------------------------------------------------------------------------
(* search_memories and browse_memories *)

\* list_namespaces_for_principal.
Memberships == member

\* The positions in string order of a set of walls.
Places(walls) == {i \in DOMAIN WallOrder : WallOrder[i] \in walls}

\* First own, global and the memberships.
ListMemberships(c) ==
    /\ At(c, "walls")
    /\ req' = [req EXCEPT ![c].at = "stats",
                          ![c].walls = Places({"own", "global"} \cup Memberships)]
    /\ UNCHANGED <<row, member, ledger, now, unlogged, used>>

\* Then, from store_stats, every import wall that has a row.
ListImports(c) ==
    /\ At(c, "stats")
    /\ req' = [req EXCEPT ![c].at = "search",
                          ![c].walls = @ \cup Places({ns \in Imports : StoreStats[ns] > 0})]
    /\ UNCHANGED <<row, member, ledger, now, unlogged, used>>

\* The order of a stable sort by similarity, of the positions of a list.
Sorted(all) ==
    {p \in (DOMAIN all) \X (DOMAIN all) :
        \/ Similarity(all[p[1]]) > Similarity(all[p[2]])
        \/ Similarity(all[p[1]]) = Similarity(all[p[2]]) /\ p[1] < p[2]}

MergeLastWins(a, b) ==
    LET all == a \o b
        lasts == {i \in DOMAIN all :
                    \A j \in DOMAIN all : all[j].id = all[i].id => <<i, j>> \notin Sorted(all)} IN
    {Truncate([k \in DOMAIN order |-> all[order[k]]], Limit) : order \in Rankings(lasts, Sorted(all))}

\* merge_search_hits_with_walls: a stable sort by similarity, the first
\* occurrence of each id, and the cut, at every wall anew.
MergeSearchHits(a, b) ==
    LET all == a \o b
        firsts == {i \in DOMAIN all :
                    \A j \in DOMAIN all : all[j].id = all[i].id => <<j, i>> \notin Sorted(all)} IN
    {Truncate([k \in DOMAIN order |-> all[order[k]]], Limit) : order \in Rankings(firsts, Sorted(all))}

SearchWall(c) ==
    /\ At(c, "search")
    /\ \E w \in req[c].walls :
        /\ \A v \in req[c].walls : w <= v
        /\ \E list \in SearchMemories(WallOrder[w], Limit) :
           \E hits \in MergeSearchHits(req[c].hits, list) :
            req' = [req EXCEPT ![c].walls = @ \ {w}, ![c].hits = hits]
    /\ UNCHANGED <<row, member, ledger, now, unlogged, used>>

SearchDone(c) ==
    /\ At(c, "search") /\ req[c].walls = {}
    /\ req' = [req EXCEPT ![c].at = "append", ![c].events = EventsOf(c, "Search", req[c].hits)]
    /\ UNCHANGED <<row, member, ledger, now, unlogged, used>>

\* A search of one namespace.
SearchOne(c) ==
    /\ At(c, "read") /\ req[c].kind = "personal"
    /\ \E hits \in SearchMemories(req[c].ns, Limit) :
        req' = [req EXCEPT ![c].at = "append", ![c].hits = hits,
                           ![c].events = EventsOf(c, "Search", hits)]
    /\ UNCHANGED <<row, member, ledger, now, unlogged, used>>

Browse(c) ==
    /\ At(c, "read") /\ req[c].kind = "browse"
    /\ \E hits \in ListMemoriesFiltered(req[c].ns, req[c].room, Limit) :
        req' = [req EXCEPT ![c].at = "append", ![c].hits = hits,
                           ![c].events = EventsOf(c, "Browse", hits)]
    /\ UNCHANGED <<row, member, ledger, now, unlogged, used>>

-----------------------------------------------------------------------------
(* The ledger *)

KeyOfRank(e) == [rid |-> e.rid, id |-> e.id, rank |-> e.rank]

\* The record key: rl_<id>_<kind>_<namespace>_<memory>_<rank>.
LedgerKey(e) == [rid |-> e.rid, kind |-> e.kind, ns |-> e.ns, id |-> e.id, rank |-> e.rank]

\* One CREATE per event: a collision or a failure is passed over, and the
\* first error is only logged.
Append1(c) ==
    LET e == Head(req[c].events) IN
    /\ At(c, "append") /\ req[c].events # <<>>
    /\ req' = [req EXCEPT ![c].events = Tail(@)]
    /\ \/ /\ ledger' = IF \E f \in ledger : LedgerKey(f) = LedgerKey(e) THEN ledger
                       ELSE ledger \cup {e}
          /\ UNCHANGED <<unlogged, used>>
       \/ /\ used.faults < MaxFaults
          /\ Spend("faults")
          /\ unlogged' = unlogged \cup {e}
          /\ UNCHANGED ledger
    /\ UNCHANGED <<row, member, now>>

Answer(c) ==
    /\ At(c, "append") /\ req[c].events = <<>>
    /\ req' = [req EXCEPT ![c].at = "replied"]
    /\ UNCHANGED <<row, member, ledger, now, unlogged, used>>

Received(c) ==
    /\ At(c, "replied")
    /\ req' = [req EXCEPT ![c] = None]
    /\ UNCHANGED <<row, member, ledger, now, unlogged, used>>

\* prune_retrieval_events.
Aged(before) == {e \in ledger : e.ts < before}

\* The prune route, for an admin.
Prune(before) ==
    LET old == Aged(before) IN
    /\ old # {}
    /\ ledger' = ledger \ old
    /\ unlogged' = unlogged \cup old
    /\ UNCHANGED <<row, member, now, req, used>>

\* The events a list of the ledger is about, and its order but for the rank.
Asked(namespaces, since) == {e \in ledger : e.ns \in namespaces /\ e.ts >= since}

NewerOnly(es) == {p \in es \X es : p[1].ts > p[2].ts}

\* Newest first, then by rank.
Newer(es) ==
    {p \in es \X es : p[1].ts > p[2].ts \/ (p[1].ts = p[2].ts /\ p[1].rank < p[2].rank)}

\* list_retrieval_events.
ListEvents(namespaces, since, n) ==
    LET es == Asked(namespaces, since) IN {Truncate(s, n) : s \in Rankings(es, Newer(es))}

\* How many events a request for n of them, or for no number, is shown.
Shown(n) ==
    LET asked == IF n = None THEN LedgerDefault ELSE n IN
    IF asked < LedgerCap THEN asked ELSE LedgerCap

\* The list route: of one namespace, or of all of them when none is named.
LedgerList(ns, since, n) ==
    ListEvents(IF ns = None THEN Namespaces ELSE {ns}, since, Shown(n))

-----------------------------------------------------------------------------
(* Everyone else *)

\* A memory is saved, deleted or superseded.
Write(x, to) ==
    /\ used.writes < MaxWrites
    /\ <<row[x], to>> \in {<<"absent", "live">>, <<"live", "absent">>, <<"live", "superseded">>}
    /\ Spend("writes")
    /\ row' = [row EXCEPT ![x] = to]
    /\ req' = [c \in Conns |-> IF req[c] = None THEN None ELSE
                [req[c] EXCEPT !.steady = IF to = "live" THEN @ ELSE @ \ {x},
                               !.ever = IF to = "live" THEN @ \cup {x} ELSE @]]
    /\ UNCHANGED <<member, ledger, now, unlogged>>

\* grant_ns_membership and its revocation.
Membership(ns) ==
    /\ used.writes < MaxWrites
    /\ Spend("writes")
    /\ member' = IF ns \in member THEN member \ {ns} ELSE member \cup {ns}
    /\ UNCHANGED <<row, ledger, now, req, unlogged>>

Tick ==
    /\ now < MaxTime /\ now' = now + 1
    /\ UNCHANGED <<row, member, ledger, req, unlogged, used>>

-----------------------------------------------------------------------------

Serve(c) ==
    \/ ReadTop(c) \/ ReadRecent(c) \/ ReadDoctrine(c) \/ Compose(c)
    \/ ListMemberships(c) \/ ListImports(c) \/ SearchWall(c) \/ SearchDone(c) \/ SearchOne(c) \/ Browse(c)
    \/ Append1(c) \/ Answer(c) \/ Received(c)

\* Wake-ups and browses of the own namespace or the doctrine wall.
Next ==
    \/ \E c \in Conns :
        \/ Serve(c)
        \/ Receive(c, "visible", "own", None) \/ Receive(c, "personal", "own", None)
        \/ \E ns \in {"own", "doctrine"} : Receive(c, "wakeup", ns, None)
        \/ \E r \in RoomNames \cup {None} : Receive(c, "browse", "own", r)
    \/ \E x \in Cells, to \in {"absent", "live", "superseded"} : Write(x, to)
    \/ \E ns \in Orgs : Membership(ns)
    \/ \E t \in 1..MaxTime : Prune(t)
    \/ Tick

Spec == Init /\ [][Next]_vars

-----------------------------------------------------------------------------
(* Properties *)

Served(c) == ToSet(req[c].hits)
\* The rows that R does not place after x.
NoWorse(c, x, R) == {y \in req[c].ever \ {x} : y.ns = x.ns /\ <<x, y>> \notin R}

\* What a wake-up promises although its reads see the wall at three different
\* moments: a row that was live throughout is served if it was among the
\* freshest all along, if it was among the most important beyond the recency
\* stratum, or if the wall never had more rows than a wake-up shows.
WakeupPromise ==
    \A c \in Conns : At(c, "replied") /\ req[c].kind = "wakeup" =>
        \A x \in {y \in req[c].steady : y.ns = req[c].ns} :
            \/ x \in Served(c)
            \/ /\ Cardinality(NoWorse(c, x, Fresher)) >= Stratum
               /\ Cardinality(NoWorse(c, x, MoreImportant)) >= Limit - Stratum
               /\ Cardinality({y \in req[c].ever : y.ns = req[c].ns}) > Limit

\* The walls a visible search may show whatever changes meanwhile.
AlwaysVisible == {"own", "global"} \cup Imports

\* A visible search merges wall by wall and cuts each time, and still misses
\* nothing better than what it shows: a row that was live throughout, in a wall
\* visible throughout, is served, or its id is from a wall where it is at least
\* as close, or the answer is full of rows at least as close; and no id is
\* served twice.
BestServed ==
    \A c \in Conns : At(c, "replied") /\ req[c].kind = "visible" =>
        /\ \A i, j \in 1..Len(req[c].hits) :
            req[c].hits[i].id = req[c].hits[j].id => i = j
        /\ \A x \in {y \in req[c].steady : y.ns \in AlwaysVisible /\ Similarity(y) > 0} :
            \/ \E y \in Served(c) : y.id = x.id /\ <<x, y>> \notin Closer
            \/ Len(req[c].hits) = Limit /\ \A y \in Served(c) : <<x, y>> \notin Closer

\* The ledger is exact: by the time a request is answered, every row it served
\* has an event with the wall it came from and its rank, doctrine rows of a
\* wake-up included, unless an append failed or an admin pruned it; and the
\* ledger has no event that is not of a row served.
LedgerExact ==
    \A c \in Conns : At(c, "replied") =>
        LET logged == {e \in ledger \cup unlogged : e.rid = req[c].rid}
            mine == {e \in logged : e.kind # "WakeupDoctrine"} IN
        /\ {[ns |-> e.ns, id |-> e.id, rank |-> e.rank] : e \in mine}
             = {[ns |-> req[c].hits[i].ns, id |-> req[c].hits[i].id, rank |-> i - 1] :
                    i \in 1..Len(req[c].hits)}
        /\ Cardinality(mine) = Len(req[c].hits)
        /\ req[c].kind = "wakeup" =>
            Cardinality(logged \ mine) = Len(req[c].doctrine)

\* What an auditor can rely on: whatever other requests append meanwhile, any
\* list of the ledger - of the row's wall or of all walls, since any moment, with
\* any limit - accounts for every row an answered request served, doctrine
\* included: it has the row's event, or the event is older than asked for, was
\* lost or pruned, or does not fit: the list is full of events that are not
\* older and of no later rank.
AuditShows ==
    \A c \in Conns : At(c, "replied") =>
        \A x \in Served(c) \cup (IF req[c].kind = "wakeup" THEN ToSet(req[c].doctrine) ELSE {}) :
        \A ns \in {None, x.ns}, since \in 0..now, n \in {None} \cup 0..LedgerCap + 1 :
        \A list \in LedgerList(ns, since, n) :
            \E e \in ledger \cup unlogged :
                /\ e.rid = req[c].rid /\ e.ns = x.ns /\ e.id = x.id
                /\ \/ e \in ToSet(list) \/ e \in unlogged \/ e.ts < since
                   \/ /\ Len(list) = Shown(n)
                      /\ \A f \in ToSet(list) :
                            f.ts > e.ts \/ (f.ts = e.ts /\ f.rank <= e.rank)

=============================================================================
