----------------------------- MODULE Knowledge ------------------------------
(***************************************************************************)
(* The knowledge graph: entity nodes and temporal triples behind the         *)
(* `/kg/...` routes.  Neither table's key names a namespace: a node is keyed *)
(* by the entity, a triple by `<subject>:<predicate>:<object>`, and the      *)
(* namespace is a column.  An add takes four database round trips, so adds,  *)
(* invalidations, deletes and failures interleave inside it.  Authorization  *)
(* and the namespace a request resolves to are the Access module's.          *)
(*                                                                         *)
(* A fact is a subject, a predicate and an object; Key is the joined string, *)
(* which is not injective since the parts may hold the separator.            *)
(***************************************************************************)
EXTENDS Naturals, FiniteSets

CONSTANTS
    Conns,          \* concurrent requests
    Facts,          \* subject-predicate-object facts
    Subject(_),     \* the parts of a fact that have a node
    Object(_),
    Key(_),         \* its record key
    Namespaces,
    Times,          \* readings of the daemon's clock, in seconds
    None,
    FindLimit,      \* how many triples find_triples returns at most
    TimelineLimit,  \* ... and kg_timeline
    MaxRequests,    \* bound: requests of other clients
    MaxFaults       \* bound: failed round trips, lost replies and crashes

VARIABLES
    entity,     \* the entities table: per entity its namespace, or None
    triple,     \* the triples table: per key [fact, ns, valid_to], or None;
                \* valid_to is None while the fact stands
    unmade,     \* observation: the entities whose node could not be written
    call,       \* the request each connection serves, or None
    used        \* how much of each bound is spent

tables == <<entity, triple, unmade>>

Entities == {Subject(f) : f \in Facts} \cup {Object(f) : f \in Facts}
Keys == {Key(f) : f \in Facts}
Ops == {"add", "invalidate", "delete", "query"}
Triple == [fact : Facts, ns : Namespaces, valid_to : Times \cup {None}]

ASSUME NoneIsNothing == None \notin Namespaces \cup Triple \cup Entities \cup Times

KInit ==
    /\ entity = [e \in Entities |-> None]
    /\ triple = [k \in Keys |-> None]
    /\ unmade = {}
    /\ call = [c \in Conns |-> None]

-----------------------------------------------------------------------------
(* What the reads return *)

Held == {triple[k] : k \in {j \in Keys : triple[j] # None}}

\* The answers LIMIT leaves possible.  kg_timeline sorts by valid_from, which is
\* the clients' to say, and find_triples not at all: any rows may come first.
Limited(rows, limit) ==
    {shown \in SUBSET rows :
        Cardinality(shown) = IF Cardinality(rows) <= limit THEN Cardinality(rows) ELSE limit}

\* find_triples: each part that is given must match (None is a wildcard; so is
\* the predicate here).
FindTriples(ns, s, o) ==
    Limited({t \in Held : /\ t.ns = ns
                          /\ s \in {None, Subject(t.fact)}
                          /\ o \in {None, Object(t.fact)}}, FindLimit)

Timeline(ns) == Limited({t \in Held : t.ns = ns}, TimelineLimit)

\* query_entity's second read.
TriplesOf(ns, e) ==
    {t \in Held : t.ns = ns /\ (Subject(t.fact) = e \/ Object(t.fact) = e)}

\* query_entity: a triple of e is outgoing, or else incoming.
Split(ts, e) ==
    [outgoing |-> {t \in ts : Subject(t.fact) = e},
     incoming |-> {t \in ts : Subject(t.fact) # e}]

-----------------------------------------------------------------------------
(* Control *)

Spend(what) == used' = [used EXCEPT ![what] = @ + 1]

At(c, step) == call[c] # None /\ call[c].at = step

Goto(c, step) == call' = [call EXCEPT ![c].at = step]

Answer(c, status, r) ==
    call' = [call EXCEPT ![c].at = "replied", ![c].status = status, ![c].reply = r]

Reply(c, r) == Answer(c, "ok", r)

Refuse(c) == Answer(c, "error", None)

\* A query is about a fact's subject.
Request(op, ns, f) ==
    [op |-> op, ns |-> ns, fact |-> f, status |-> None, reply |-> None,
     at |-> CASE op = "add" -> "subject" [] op = "query" -> "node" [] OTHER -> "write"]

-----------------------------------------------------------------------------
(* add_triple *)

\* CREATE of a node: the first namespace to name an entity owns its node, and
\* an error, collision or not, is ignored.
CreateNode(c, e, next) ==
    /\ Goto(c, next)
    /\ \/ /\ entity' = [entity EXCEPT ![e] = IF @ = None THEN call[c].ns ELSE @]
          /\ UNCHANGED <<unmade, used>>
       \/ /\ used.faults < MaxFaults
          /\ Spend("faults")
          /\ unmade' = unmade \cup {e}
          /\ UNCHANGED entity
    /\ UNCHANGED triple

AddSubjectOnly(c) == At(c, "subject") /\ CreateNode(c, Subject(call[c].fact), "select")

AddSubject(c) == At(c, "subject") /\ CreateNode(c, Subject(call[c].fact), "object")

AddObject(c) == At(c, "object") /\ CreateNode(c, Object(call[c].fact), "select")

\* A row of this key is the answer: of any namespace, closed ones included.
AddSelect(c) ==
    LET held == triple[Key(call[c].fact)] IN
    /\ At(c, "select")
    /\ IF held # None THEN Reply(c, held) ELSE Goto(c, "create")
    /\ UNCHANGED <<tables, used>>

AddUpserts(c) ==
    LET new == [fact |-> call[c].fact, ns |-> call[c].ns, valid_to |-> None] IN
    /\ At(c, "create")
    /\ triple' = [triple EXCEPT ![Key(call[c].fact)] = new]
    /\ Reply(c, new)
    /\ UNCHANGED <<entity, unmade, used>>

\* CREATE: a row that appeared since the select is an error.
AddCreate(c) ==
    LET k == Key(call[c].fact)
        new == [fact |-> call[c].fact, ns |-> call[c].ns, valid_to |-> None] IN
    /\ At(c, "create")
    /\ \/ triple[k] # None /\ Refuse(c) /\ UNCHANGED triple
       \/ /\ triple[k] = None
          /\ triple' = [triple EXCEPT ![k] = new]
          /\ Reply(c, new)
    /\ UNCHANGED <<entity, unmade, used>>

-----------------------------------------------------------------------------
(* invalidate_triple, delete_triple and query_entity *)

\* The row is changed only in its own namespace, and its end is now, whether it
\* had one or not; 204 either way.
Invalidate(c) ==
    LET k == Key(call[c].fact) IN
    /\ At(c, "write") /\ call[c].op = "invalidate"
    /\ \E now \in Times :
        triple' = IF triple[k] # None /\ triple[k].ns = call[c].ns
                  THEN [triple EXCEPT ![k].valid_to = now] ELSE triple
    /\ Reply(c, None)
    /\ UNCHANGED <<entity, unmade, used>>

\* 404 when nothing was deleted; the nodes stay.
Delete(c) ==
    LET k == Key(call[c].fact)
        hit == triple[k] # None /\ triple[k].ns = call[c].ns IN
    /\ At(c, "write") /\ call[c].op = "delete"
    /\ triple' = IF hit THEN [triple EXCEPT ![k] = None] ELSE triple
    /\ Answer(c, IF hit THEN "ok" ELSE "error", None)
    /\ UNCHANGED <<entity, unmade, used>>

\* The node is shown to its own namespace only.
QueryNode(c) ==
    LET e == Subject(call[c].fact) IN
    /\ At(c, "node")
    /\ call' = [call EXCEPT ![c].at = "triples",
                            ![c].reply = IF entity[e] = call[c].ns THEN e ELSE None]
    /\ UNCHANGED <<tables, used>>

QueryTriples(c) ==
    LET e == Subject(call[c].fact)
        r == Split(TriplesOf(call[c].ns, e), e) IN
    /\ At(c, "triples")
    /\ Reply(c, [node |-> call[c].reply, outgoing |-> r.outgoing, incoming |-> r.incoming])
    /\ UNCHANGED <<tables, used>>

Serve(c) ==
    \/ AddSubject(c) \/ AddObject(c) \/ AddSelect(c) \/ AddCreate(c)
    \/ Invalidate(c) \/ Delete(c)
    \/ QueryNode(c) \/ QueryTriples(c)

\* A round trip other than a node write fails: 500.
StoreError(c) ==
    /\ call[c] # None /\ call[c].at \notin {"subject", "object", "replied"}
    /\ used.faults < MaxFaults
    /\ Spend("faults")
    /\ Refuse(c)
    /\ UNCHANGED tables

-----------------------------------------------------------------------------
(* Properties *)

\* No triple hangs in the air: both its entities have nodes, in some namespace,
\* or the write of the node failed and add_triple went on without.  Nodes are
\* written two round trips before the triple, while others add and delete.
TriplesHaveNodes ==
    \A k \in {j \in Keys : triple[j] # None} :
        \A e \in {Subject(triple[k].fact), Object(triple[k].fact)} :
            entity[e] # None \/ e \in unmade

Retired(t) == t # None /\ t.valid_to # None

\* History is not rewritten: a triple that was invalidated stays so, in its
\* namespace and with its fact, until an admin deletes the row; a repeated add
\* reads it back.  (Its end moves when it is invalidated again.)
ClosedStaysClosed ==
    [][\A k \in Keys :
        Retired(triple[k]) /\ triple'[k] # None =>
            /\ Retired(triple'[k])
            /\ triple'[k].ns = triple[k].ns /\ triple'[k].fact = triple[k].fact]_triple

=============================================================================
