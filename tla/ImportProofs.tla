---------------------------- MODULE ImportProofs ----------------------------
(***************************************************************************)
(* Proofs about Import and the Knowledge it extends, for any number of       *)
(* connections, facts, namespaces and source rows, whatever keys collide.    *)
(*                                                                         *)
(* What makes the counts true is what the importer knows between its two     *)
(* requests, of tables that everybody writes: no step but a delete, which is *)
(* on record, takes a row away or opens it again.                            *)
(***************************************************************************)
EXTENDS Import, NaturalsInduction, WellFoundedInduction, TLAPS

-----------------------------------------------------------------------------
(* The invariant *)

CallSteps == {"subject", "object", "select", "create", "write", "node", "triples", "replied"}

IsCall(x) ==
    x \in [op : Ops, ns : Namespaces, fact : Facts, status : {None, "ok", "error"},
           reply : {x.reply}, at : CallSteps]

Calls ==
    /\ \E S : call \in [Conns -> S]
    /\ \A c \in Conns : call[c] # None => IsCall(call[c])

\* A triple is stored under its own key.
Graph ==
    /\ triple \in [Keys -> Triple \cup {None}]
    /\ entity \in [Entities -> Namespaces \cup {None}]
    /\ \A k \in Keys : triple[k] # None => Key(triple[k].fact) = k

\* The row the importer is at is of the kind its step handles.
Walk ==
    /\ memory \in [Ids -> Stored \cup {None}]
    /\ outcome \in [Rows -> {None, "added", "deduped", "skipped"}]
    /\ at \in {"off", "done", "check", "store", "add", "close", "migrate"}
    /\ todo \subseteq Rows
    /\ at \in {"check", "store"} => todo # {} /\ IsMemory(Current)
    /\ at \in {"add", "close"} => todo # {} /\ ~IsMemory(Current)
    /\ at = "migrate" => \A r \in todo : IsMemory(r)
    /\ at \notin {"add", "close"} => call[Cli] = None

\* The key has a row, or had one that somebody deleted during the run.
There(k) == k \in gone \/ triple[k] # None

\* ... and it is not an open one of the target.
Ended(k) ==
    \/ k \in gone
    \/ triple[k] # None /\ (triple[k].ns = Target => triple[k].valid_to # None)

AddSteps == {"subject", "object", "select", "create", "replied"}

\* A request of the importer is about the row it is at, and what it was told
\* of that row still holds.
Asked ==
    call[Cli] # None =>
        /\ call[Cli].fact = Current.fact /\ call[Cli].ns = Target
        /\ at = "add" => call[Cli].op = "add" /\ call[Cli].at \in AddSteps
        /\ at = "close" => call[Cli].op = "invalidate" /\ call[Cli].at \in {"write", "replied"}

Heard ==
    /\ at = "add" /\ call[Cli] # None /\ call[Cli].at = "replied" /\ call[Cli].status # "error"
         => There(Key(Current.fact))
    /\ at = "close" => There(Key(Current.fact))
    /\ at = "close" /\ call[Cli] # None /\ call[Cli].at = "replied" /\ call[Cli].status # "error"
         => Ended(Key(Current.fact))

ImpInv == Calls /\ Graph /\ Walk /\ Asked /\ Heard /\ Accounted

-----------------------------------------------------------------------------
(* The rows of the source *)

\* A set of numbers has a least one.
LEMMA LeastNumber ==
    ASSUME NEW T, \A y \in T : y \in Nat, T # {}
    PROVE  \E m \in T : \A y \in T : ~(y < m)
<1> DEFINE R == {ss \in Nat \X Nat : ss[1] < ss[2]}
<1>1. IsWellFoundedOn(R, Nat)
  BY NatLessThanWellFounded, Zenon DEF OpToRel
<1>2. T \subseteq Nat
  OBVIOUS
<1> HIDE DEF R
<1>3. PICK m \in T : \A y \in T : ~(<<y, m>> \in R)
  BY <1>1, <1>2, WFMin
<1>4. \A y \in T : y < m => <<y, m>> \in R
  BY DEF R
<1> QED
  BY <1>3, <1>4

\* A row is a memory of the source, or a fact of the graph.
RowOK(r) == r.row \in Nat /\ IF IsMemory(r) THEN r.id \in Ids ELSE r.fact \in Facts

LEMMA RowKinds == \A r \in Rows : RowOK(r)
<1>0. /\ Source.memories \in Seq(MemoryRow) /\ Source.triples \in Seq(TripleRow)
      /\ Len(Source.memories) \in Nat
  <2>1. Source.memories \in Seq(MemoryRow)
    BY ImportAssumption
  <2>2. Source.triples \in Seq(TripleRow)
    BY ImportAssumption
  <2> QED
    BY <2>1, <2>2
<1>1. ASSUME NEW r \in ImportMemories
      PROVE  RowOK(r)
  <2>1. PICK i \in DOMAIN Source.memories :
          r = [id |-> Source.memories[i].id, label |-> Source.memories[i].label, row |-> i]
    BY DEF ImportMemories
  <2>2. i \in Nat /\ Source.memories[i] \in MemoryRow
    BY <1>0
  <2>3. Source.memories[i].id \in Ids
    BY <2>2 DEF MemoryRow
  <2> QED
    BY <2>1, <2>2, <2>3 DEF RowOK, IsMemory
<1>2. ASSUME NEW r \in ImportTriples
      PROVE  RowOK(r)
  <2>1. PICK i \in Mapped :
          r = [fact |-> FactOf(Names[Source.triples[i].subject], Names[Source.triples[i].object]),
               ended |-> Source.triples[i].ended, row |-> Len(Source.memories) + i]
    BY DEF ImportTriples
  <2>2. i \in Nat /\ {Source.triples[i].subject, Source.triples[i].object} \subseteq Named
    BY <1>0 DEF Mapped
  <2>3. FactOf(Names[Source.triples[i].subject], Names[Source.triples[i].object]) \in Facts
    BY <2>2, ImportAssumption DEF Named
  <2>4. Len(Source.memories) + i \in Nat
    BY <1>0, <2>2
  <2> QED
    BY <2>1, <2>3, <2>4 DEF RowOK, IsMemory
<1> QED
  BY <1>1, <1>2 DEF Rows

\* Of some rows, one is the first.
LEMMA FirstIs ==
    ASSUME NEW rows, rows \subseteq Rows, rows # {}
    PROVE  First(rows) \in rows /\ First(rows) \in Rows
<1> DEFINE T == {r.row : r \in rows}
<1>1. (\A y \in T : y \in Nat) /\ T # {}
  BY RowKinds DEF RowOK
<1>2. PICK m \in T : \A y \in T : ~(y < m)
  <2> HIDE DEF T
  <2> QED
    BY <1>1, LeastNumber
<1>3. PICK r \in rows : m = r.row
  BY <1>2
<1> DEFINE Least(x) == \A s \in rows : x.row <= s.row
<1>4. Least(r)
  <2>1. \A s \in rows : s.row \in Nat
    BY RowKinds DEF RowOK
  <2>2. \A s \in rows : ~(s.row < r.row)
    BY <1>2, <1>3
  <2> QED
    BY <2>1, <2>2
<1>5. First(rows) = CHOOSE x \in rows : Least(x)
  BY DEF First
<1> HIDE DEF Least
<1> QED
  BY <1>3, <1>4, <1>5

-----------------------------------------------------------------------------
(* What a step may do to the tables *)

LEMMA GraphSame == ASSUME Graph, UNCHANGED <<entity, triple>> PROVE Graph'
  BY DEF Graph

LEMMA NodeCreated ==
    ASSUME Graph, NEW e, NEW n \in Namespaces, UNCHANGED triple,
           entity' = [entity EXCEPT ![e] = IF @ = None THEN n ELSE @]
    PROVE  Graph'
  BY DEF Graph

LEMMA RowSet ==
    ASSUME Graph, NEW k \in Keys, NEW x, x = None \/ (x \in Triple /\ Key(x.fact) = k),
           UNCHANGED entity, triple' = [triple EXCEPT ![k] = x]
    PROVE  /\ Graph' /\ triple'[k] = x
           /\ \A j \in Keys \ {k} : triple'[j] = triple[j]
<1>1. /\ triple' \in [Keys -> Triple \cup {None}] /\ triple'[k] = x
      /\ \A j \in Keys \ {k} : triple'[j] = triple[j]
  BY DEF Graph
<1>2. \A j \in Keys : triple'[j] # None => Key(triple'[j].fact) = j
  BY <1>1 DEF Graph
<1> QED
  BY <1>1, <1>2 DEF Graph

\* A row is kept, its namespace too, and never opened again.
Keeps(t, u) == u # None /\ u.ns = t.ns /\ (t.valid_to # None => u.valid_to # None)

Forward ==
    /\ gone \subseteq gone'
    /\ \A k \in Keys : triple[k] # None => k \in gone' \/ Keeps(triple[k], triple'[k])

LEMMA ForwardSame == ASSUME gone \subseteq gone', UNCHANGED triple PROVE Forward
  BY DEF Forward, Keeps

LEMMA ForwardKeeps ==
    ASSUME Forward, NEW k \in Keys
    PROVE  (There(k) => There(k)') /\ (Ended(k) => Ended(k)')
  BY DEF Forward, Keeps, There, Ended

-----------------------------------------------------------------------------
(* The graph's handlers *)

\* The request of c goes on as h.
Becomes(c, h) ==
    /\ call[c] # None /\ IsCall(h)
    /\ h.op = call[c].op /\ h.ns = call[c].ns /\ h.fact = call[c].fact
    /\ call' = [call EXCEPT ![c] = h]

LEMMA GotoBecomes ==
    ASSUME Calls, NEW c \in Conns, call[c] # None, NEW step \in CallSteps, Goto(c, step)
    PROVE  \E h : Becomes(c, h) /\ h.at = step /\ h.status = call[c].status
<1>1. PICK x : x = call[c]
  OBVIOUS
<1>2. IsCall(x)
  BY <1>1 DEF Calls
<1>3. PICK h : h = [x EXCEPT !.at = step]
  OBVIOUS
<1>4. /\ h.op = x.op /\ h.ns = x.ns /\ h.fact = x.fact /\ h.at = step /\ h.status = x.status
      /\ h.reply = x.reply /\ IsCall(h)
  BY <1>2, <1>3 DEF IsCall
<1>5. call' = [call EXCEPT ![c] = h]
  BY <1>1, <1>3 DEF Goto
<1> QED
  BY <1>1, <1>4, <1>5 DEF Becomes

LEMMA AnswerBecomes ==
    ASSUME Calls, NEW c \in Conns, call[c] # None, NEW status \in {"ok", "error"}, NEW r,
           Answer(c, status, r)
    PROVE  \E h : Becomes(c, h) /\ h.at = "replied" /\ h.status = status
<1>1. PICK x : x = call[c]
  OBVIOUS
<1>2. IsCall(x)
  BY <1>1 DEF Calls
<1>3. PICK h : h = [x EXCEPT !.at = "replied", !.status = status, !.reply = r]
  OBVIOUS
<1>4. /\ h.op = x.op /\ h.ns = x.ns /\ h.fact = x.fact /\ h.at = "replied" /\ h.status = status
      /\ h.reply = r /\ IsCall(h)
  BY <1>2, <1>3 DEF IsCall, CallSteps
<1>5. call' = [call EXCEPT ![c] = h]
  BY <1>1, <1>3 DEF Answer, Calls
<1> QED
  BY <1>1, <1>4, <1>5 DEF Becomes

\* What an answer says of the request's row.
Told(c, h) ==
    /\ call[c].op = "add" /\ call[c].at \in AddSteps =>
        /\ h.at \in AddSteps
        /\ h.at = "replied" /\ h.status # "error" => triple'[Key(call[c].fact)] # None
    /\ call[c].op = "invalidate" /\ call[c].at \in {"write", "replied"} =>
        /\ h.at = "replied"
        /\ triple'[Key(call[c].fact)].ns = call[c].ns /\ triple'[Key(call[c].fact)] # None
             => h.status = "error" \/ triple'[Key(call[c].fact)].valid_to # None

Effect(c) == Graph' /\ Forward /\ \E h : Becomes(c, h) /\ Told(c, h)

LEMMA NodeEffect ==
    ASSUME Calls, Graph, NEW c \in Conns, AddSubject(c) \/ AddObject(c), gone \subseteq gone'
    PROVE  Effect(c)
<1>1. PICK n \in Namespaces : n = call[c].ns
  BY DEF AddSubject, AddObject, At, Calls, IsCall
<1>2. PICK e \in {Subject(call[c].fact), Object(call[c].fact)}, step \in {"object", "select"} :
         CreateNode(c, e, step)
  BY DEF AddSubject, AddObject
<1>3. call[c] # None /\ Goto(c, step) /\ step \in CallSteps /\ UNCHANGED triple
  BY <1>2 DEF AddSubject, AddObject, At, CreateNode, CallSteps
<1>4. Graph'
  BY <1>1, <1>2, <1>3, NodeCreated, GraphSame DEF CreateNode, tables
<1>5. PICK h : Becomes(c, h) /\ h.at = step
  BY <1>3, GotoBecomes
<1>6. Told(c, h)
  BY <1>2, <1>5 DEF Told, AddSteps, AddSubject, AddObject, At
<1> QED
  BY <1>3, <1>4, <1>5, <1>6, ForwardSame DEF Effect

LEMMA SelectEffect ==
    ASSUME Calls, Graph, NEW c \in Conns, AddSelect(c), gone \subseteq gone'
    PROVE  Effect(c)
<1>1. call[c] # None /\ call[c].at = "select" /\ Graph' /\ Forward /\ UNCHANGED triple
  BY GraphSame, ForwardSame DEF AddSelect, At, tables
<1>2. PICK t : t = triple[Key(call[c].fact)]
  OBVIOUS
<1>3. CASE t # None
  <2>1. Answer(c, "ok", t)
    BY <1>2, <1>3 DEF AddSelect, Reply
  <2>2. PICK h : Becomes(c, h) /\ h.at = "replied" /\ h.status = "ok"
    BY <1>1, <2>1, AnswerBecomes
  <2>3. Told(c, h)
    BY <1>1, <1>2, <1>3, <2>2 DEF Told, AddSteps
  <2> QED
    BY <1>1, <2>2, <2>3 DEF Effect
<1>4. CASE t = None
  <2>1. Goto(c, "create") /\ "create" \in CallSteps
    BY <1>2, <1>4 DEF AddSelect, CallSteps
  <2>2. PICK h : Becomes(c, h) /\ h.at = "create"
    BY <1>1, <2>1, GotoBecomes
  <2>3. Told(c, h)
    BY <1>1, <2>2 DEF Told, AddSteps
  <2> QED
    BY <1>1, <2>2, <2>3 DEF Effect
<1> QED
  BY <1>3, <1>4

LEMMA CreateEffect ==
    ASSUME Calls, Graph, NEW c \in Conns, AddCreate(c), gone \subseteq gone'
    PROVE  Effect(c)
<1>1. call[c] # None /\ call[c].at = "create" /\ IsCall(call[c]) /\ UNCHANGED entity
  BY DEF AddCreate, At, Calls
<1>2. PICK k \in Keys : k = Key(call[c].fact)
  BY <1>1 DEF IsCall, Keys
<1>3. PICK x : x = [fact |-> call[c].fact, ns |-> call[c].ns, valid_to |-> None]
  OBVIOUS
<1>4. x \in Triple /\ Key(x.fact) = k /\ x # None
  BY <1>1, <1>2, <1>3, NoneIsNothing DEF IsCall, Triple
<1>5. CASE triple[k] # None /\ Refuse(c) /\ UNCHANGED triple
  <2>1. PICK h : Becomes(c, h) /\ h.at = "replied" /\ h.status = "error"
    BY <1>1, <1>5, AnswerBecomes DEF Refuse
  <2>2. Told(c, h)
    BY <1>1, <2>1 DEF Told, AddSteps
  <2> QED
    BY <1>1, <1>5, <2>1, <2>2, GraphSame, ForwardSame DEF Effect, tables
<1>6. CASE triple[k] = None /\ triple' = [triple EXCEPT ![k] = x] /\ Reply(c, x)
  <2>1. PICK h : Becomes(c, h) /\ h.at = "replied" /\ h.status = "ok"
    BY <1>1, <1>6, AnswerBecomes DEF Reply
  <2>2. Graph' /\ triple'[k] = x /\ \A j \in Keys \ {k} : triple'[j] = triple[j]
    BY <1>1, <1>4, <1>6, RowSet
  <2>3. Forward
    BY <1>6, <2>2 DEF Forward, Keeps
  <2>4. Told(c, h)
    BY <1>1, <1>2, <1>4, <2>1, <2>2 DEF Told, AddSteps
  <2> QED
    BY <2>1, <2>2, <2>3, <2>4 DEF Effect
<1> QED
  BY <1>2, <1>3, <1>5, <1>6 DEF AddCreate

LEMMA InvalidateEffect ==
    ASSUME Calls, Graph, NEW c \in Conns, Invalidate(c), gone \subseteq gone'
    PROVE  Effect(c)
<1>1. call[c] # None /\ call[c].at = "write" /\ IsCall(call[c]) /\ UNCHANGED entity
      /\ call[c].op = "invalidate"
  BY DEF Invalidate, At, Calls
<1>2. PICK k \in Keys : k = Key(call[c].fact)
  BY <1>1 DEF IsCall, Keys
<1>3. PICK h : Becomes(c, h) /\ h.at = "replied" /\ h.status = "ok"
  BY <1>1, AnswerBecomes DEF Invalidate, Reply
<1>4. CASE triple[k] # None /\ triple[k].ns = call[c].ns
  <2>1. PICK t : t = triple[k]
    OBVIOUS
  <2>2. t \in Triple /\ Key(t.fact) = k
    BY <1>4, <2>1 DEF Graph
  <2>3. PICK now \in Times : triple' = [triple EXCEPT ![k].valid_to = now]
    BY <1>2, <1>4 DEF Invalidate
  <2>4. PICK x : x = [t EXCEPT !.valid_to = now]
    OBVIOUS
  <2>5. x \in Triple /\ x.fact = t.fact /\ x.ns = t.ns /\ x.valid_to # None /\ x # None
    BY <2>2, <2>4, NoneIsNothing DEF Triple
  <2>0. triple' = [triple EXCEPT ![k] = x]
    BY <2>1, <2>3, <2>4
  <2>6. Graph' /\ triple'[k] = x /\ \A j \in Keys \ {k} : triple'[j] = triple[j]
    BY <1>1, <2>0, <2>2, <2>5, RowSet
  <2>7. Forward
    BY <2>1, <2>5, <2>6 DEF Forward, Keeps
  <2>8. Told(c, h)
    BY <1>1, <1>2, <1>3, <2>5, <2>6 DEF Told
  <2> QED
    BY <1>3, <2>6, <2>7, <2>8 DEF Effect
<1>5. CASE ~(triple[k] # None /\ triple[k].ns = call[c].ns)
  <2>1. UNCHANGED triple
    BY <1>2, <1>5 DEF Invalidate
  <2>2. Told(c, h)
    BY <1>1, <1>2, <1>3, <1>5, <2>1 DEF Told
  <2> QED
    BY <1>1, <1>3, <2>1, <2>2, GraphSame, ForwardSame DEF Effect, tables
<1> QED
  BY <1>4, <1>5

LEMMA DeleteEffect ==
    ASSUME Calls, Graph, NEW c \in Conns, Delete(c), gone \subseteq gone',
           \A k \in Keys : triple[k] # None /\ triple'[k] = None => k \in gone'
    PROVE  Effect(c)
<1>1. call[c] # None /\ call[c].at = "write" /\ IsCall(call[c]) /\ UNCHANGED entity
      /\ call[c].op = "delete"
  BY DEF Delete, At, Calls
<1>2. PICK k \in Keys : k = Key(call[c].fact)
  BY <1>1 DEF IsCall, Keys
<1>3. PICK s \in {"ok", "error"} : Answer(c, s, None)
  BY DEF Delete
<1>4. PICK h : Becomes(c, h) /\ h.at = "replied" /\ h.status = s
  BY <1>1, <1>3, AnswerBecomes
<1>5. Told(c, h)
  BY <1>1 DEF Told
<1>6. CASE triple' = [triple EXCEPT ![k] = None]
  <2>1. Graph' /\ triple'[k] = None /\ \A j \in Keys \ {k} : triple'[j] = triple[j]
    BY <1>1, <1>6, RowSet
  <2>2. Forward
    BY <2>1 DEF Forward, Keeps
  <2> QED
    BY <1>4, <1>5, <2>1, <2>2 DEF Effect
<1>7. CASE UNCHANGED triple
  BY <1>1, <1>4, <1>5, <1>7, GraphSame, ForwardSame DEF Effect, tables
<1> QED
  BY <1>2, <1>6, <1>7 DEF Delete

LEMMA QueryEffect ==
    ASSUME Calls, Graph, NEW c \in Conns, QueryNode(c) \/ QueryTriples(c), gone \subseteq gone'
    PROVE  Effect(c)
<1>1. /\ call[c] # None /\ call[c].at \in {"node", "triples"} /\ IsCall(call[c])
      /\ Graph' /\ Forward
  BY GraphSame, ForwardSame DEF QueryNode, QueryTriples, At, Calls, tables
<1>2. \A h : Told(c, h)
  BY <1>1 DEF Told, AddSteps
<1>3. CASE QueryNode(c)
  <2>1. PICK x : x = call[c]
    OBVIOUS
  <2>2. PICK r : r = IF entity[Subject(x.fact)] = x.ns THEN Subject(x.fact) ELSE None
    OBVIOUS
  <2>3. PICK h : h = [x EXCEPT !.at = "triples", !.reply = r]
    OBVIOUS
  <2>4. h.op = x.op /\ h.ns = x.ns /\ h.fact = x.fact /\ h.reply = r /\ IsCall(h)
    BY <1>1, <2>1, <2>3 DEF IsCall, CallSteps
  <2>5. call' = [call EXCEPT ![c] = h]
    BY <1>3, <2>1, <2>2, <2>3 DEF QueryNode, Calls
  <2>6. Becomes(c, h)
    BY <1>1, <2>1, <2>4, <2>5 DEF Becomes
  <2> QED
    BY <1>1, <1>2, <2>6 DEF Effect
<1>4. CASE QueryTriples(c)
  <2>1. PICK r : Answer(c, "ok", r)
    BY <1>4 DEF QueryTriples, Reply
  <2> QED
    BY <1>1, <1>2, <2>1, AnswerBecomes DEF Effect
<1> QED
  BY <1>3, <1>4

LEMMA ServeEffect ==
    ASSUME Calls, Graph, NEW c \in Conns, Handle(c)
    PROVE  Effect(c)
<1>1. gone \subseteq gone' /\ \A k \in Keys : triple[k] # None /\ triple'[k] = None => k \in gone'
  BY DEF Handle
<1> QED
  BY <1>1, NodeEffect, SelectEffect, CreateEffect, InvalidateEffect, DeleteEffect, QueryEffect
     DEF Handle, Serve

-----------------------------------------------------------------------------
(* The counts *)

\* What Accounted says of one counted row.
Good(r) ==
    IF IsMemory(r)
    THEN Duplicate(r.id) \/ \E j \in Ids : j \in gone /\ Text(j) = Text(r.id)
    ELSE There(Key(r.fact)) /\ (r.ended => Ended(Key(r.fact)))

LEMMA AccountedIs ==
    Accounted <=> \A r \in Rows : outcome[r] \in {"added", "deduped"} => Good(r)
  BY DEF Accounted, Good, There, Ended

LEMMA AccountedNext ==
    Accounted' <=> \A r \in Rows : outcome'[r] \in {"added", "deduped"} => Good(r)'
  BY DEF Accounted, Good, There, Ended

\* A live memory stays live, or its end is on record.
MemoryForward ==
    /\ gone \subseteq gone'
    /\ \A j \in Ids : memory[j] # None /\ memory[j].state = "live" =>
          j \in gone' \/ (memory'[j] # None /\ memory'[j].state = "live")

LEMMA MemorySame == ASSUME gone \subseteq gone', UNCHANGED memory PROVE MemoryForward
  BY DEF MemoryForward

LEMMA GoodKept ==
    ASSUME Forward, MemoryForward, NEW r \in Rows, Good(r)
    PROVE  Good(r)'
<1>1. CASE IsMemory(r)
  BY <1>1 DEF Good, Duplicate, MemoryForward
<1>2. CASE ~IsMemory(r)
  <2>1. r.fact \in Facts
    BY <1>2, RowKinds DEF RowOK
  <2>2. PICK k \in Keys : k = Key(r.fact)
    BY <2>1 DEF Keys
  <2>3. (There(k) => There(k)') /\ (Ended(k) => Ended(k)')
    BY ForwardKeeps
  <2> QED
    BY <1>2, <2>2, <2>3 DEF Good
<1> QED
  BY <1>1, <1>2

LEMMA CallSet ==
    ASSUME Calls, NEW c \in Conns, NEW x, x = None \/ IsCall(x), call' = [call EXCEPT ![c] = x]
    PROVE  Calls' /\ call'[c] = x /\ \A d \in Conns \ {c} : call'[d] = call[d]
<1>1. PICK S : call \in [Conns -> S]
  BY DEF Calls
<1>2. call' \in [Conns -> S \cup {x}] /\ call'[c] = x /\ \A d \in Conns \ {c} : call'[d] = call[d]
  BY <1>1
<1>3. \A d \in Conns : call'[d] # None => IsCall(call'[d])
  BY <1>2 DEF Calls
<1>4. \A d \in Conns : IsCall(call'[d]) => IsCall(call[d])'
  BY DEF IsCall
<1> QED
  BY <1>2, <1>3, <1>4 DEF Calls

LEMMA CallsSame == ASSUME Calls, UNCHANGED call PROVE Calls'
  BY DEF Calls, IsCall

LEMMA BeginKinds ==
    ASSUME NEW rows \in SUBSET Rows
    PROVE  /\ Begin(rows) \in {"done", "check", "add"}
           /\ Begin(rows) = "check" => rows # {} /\ IsMemory(First(rows))
           /\ Begin(rows) = "add" => rows # {} /\ ~IsMemory(First(rows))
  BY DEF Begin

\* The tables and the other requests after a step that leaves the importer be.
Tables == Calls /\ Graph /\ memory \in [Ids -> Stored \cup {None}]

LEMMA CurrentIs ==
    ASSUME Walk, todo # {}
    PROVE  Current \in todo /\ Current \in Rows
  BY FirstIs DEF Walk, Current

\* A row is counted.
LEMMA CountKeeps ==
    ASSUME ImpInv, Tables', Forward, MemoryForward,
           at \in {"check", "store", "add", "close", "migrate"}, todo # {}, call'[Cli] = None,
           NEW r, r = Current, NEW how \in {"added", "deduped", "skipped"}, Count(how),
           how # "skipped" => Good(r)'
    PROVE  ImpInv'
<1> USE DEF ImpInv
<1>1. PICK rest : rest = todo \ {Current}
  OBVIOUS
<1>2. r \in Rows /\ rest \in SUBSET Rows
  BY <1>1, CurrentIs DEF Walk
<1>3. /\ todo' = rest /\ outcome' = [outcome EXCEPT ![r] = how]
      /\ at' = IF at = "migrate" THEN at ELSE Begin(rest)
  BY <1>1 DEF Count
<1>4. outcome' \in [Rows -> {None, "added", "deduped", "skipped"}]
  BY <1>2, <1>3 DEF Walk
<1>5. at' = "migrate" => \A x \in rest : IsMemory(x)
  <2>1. at' = "migrate" => at = "migrate"
    BY <1>2, <1>3, BeginKinds
  <2> QED
    BY <1>1, <2>1 DEF Walk
<1>6. Walk'
  <2>1. PICK b : b = Begin(rest)
    OBVIOUS
  <2>2. /\ b \in {"done", "check", "add"}
        /\ b = "check" => rest # {} /\ IsMemory(First(rest))
        /\ b = "add" => rest # {} /\ ~IsMemory(First(rest))
    BY <1>2, <2>1, BeginKinds
  <2> QED
    BY <1>2, <1>3, <1>4, <1>5, <2>1, <2>2 DEF Walk, Tables, Current
<1>7. at' # "close"
  BY <1>2, <1>3, BeginKinds
<1>8. Asked' /\ Heard'
  BY <1>7 DEF Asked, Heard
<1>9. \A s \in Rows : outcome'[s] \in {"added", "deduped"} => Good(s)'
  <2> SUFFICES ASSUME NEW s \in Rows, outcome'[s] \in {"added", "deduped"} PROVE Good(s)'
    OBVIOUS
  <2>1. CASE s = r
    BY <1>2, <1>3, <2>1 DEF Walk
  <2>2. CASE s # r
    BY <1>2, <1>3, <2>2, AccountedIs, GoodKept DEF Walk
  <2> QED
    BY <2>1, <2>2
<1>10. Accounted'
  BY <1>9, AccountedNext
<1> QED
  BY <1>6, <1>8, <1>10 DEF Tables

\* The importer stays where it is; its request, if it has one, is untouched or failed.
LEMMA RestKeeps ==
    ASSUME ImpInv, Tables', Forward, MemoryForward, UNCHANGED <<todo, at, outcome>>,
           \/ call'[Cli] = call[Cli]
           \/ /\ call[Cli] # None /\ call'[Cli].fact = call[Cli].fact
              /\ call'[Cli].ns = call[Cli].ns /\ call'[Cli].op = call[Cli].op
              /\ call'[Cli].at = "replied" /\ call'[Cli].status = "error"
    PROVE  ImpInv'
<1> USE DEF ImpInv
<1>1. Walk'
  BY DEF Walk, Tables, Current
<1>2. Asked'
  BY DEF Asked, Current, AddSteps, Walk
<1>3. Heard'
  <2>1. CASE at \in {"add", "close"}
    <3>1. Current \in Rows /\ ~IsMemory(Current)
      BY <2>1, CurrentIs DEF Walk
    <3>2. Current.fact \in Facts
      BY <3>1, RowKinds DEF RowOK
    <3>3. PICK k \in Keys : k = Key(Current.fact)
      BY <3>2 DEF Keys
    <3>4. k = Key(Current.fact)'
      BY <3>3 DEF Current
    <3>5. (There(k) => There(k)') /\ (Ended(k) => Ended(k)')
      BY ForwardKeeps
    <3>6. There(k)' => There(Key(Current.fact))'
      BY <3>4 DEF There
    <3>7. Ended(k)' => Ended(Key(Current.fact))'
      BY <3>4 DEF Ended
    <3> QED
      BY <3>3, <3>5, <3>6, <3>7 DEF Heard
  <2>2. CASE at \notin {"add", "close"}
    BY <2>2 DEF Heard
  <2> QED
    BY <2>1, <2>2
<1>4. \A s \in Rows : outcome'[s] \in {"added", "deduped"} => Good(s)'
  BY AccountedIs, GoodKept
<1>5. Accounted'
  BY <1>4, AccountedNext
<1> QED
  BY <1>1, <1>2, <1>3, <1>5 DEF Tables

LEMMA TablesSame ==
    ASSUME ImpInv, UNCHANGED <<tables, call, memory>> PROVE Tables'
  BY CallsSame, GraphSame DEF ImpInv, Walk, Tables, tables

-----------------------------------------------------------------------------
(* The importer *)

LEMMA RunKeeps ==
    ASSUME ImpInv, NEW where \in {"daemon", "store"}, Run(where)
    PROVE  ImpInv'
<1> USE DEF ImpInv
<1>1. Tables'
  BY TablesSame DEF Run
<1>2. call'[Cli] = None
  BY DEF Run, Walk
<1>3. PICK rows \in {Rows, MemoryRows} : todo' = rows /\ (where = "store" => rows = MemoryRows)
                                          /\ (where # "store" => rows = Rows)
  BY DEF Run
<1>4. rows \in SUBSET Rows
  BY <1>3 DEF MemoryRows
<1>5. /\ at' \in {"migrate", "done", "check", "add"}
      /\ at' = "migrate" => rows = MemoryRows
      /\ at' = "check" => rows # {} /\ IsMemory(First(rows))
      /\ at' = "add" => rows # {} /\ ~IsMemory(First(rows))
  <2>1. CASE where = "store"
    BY <1>3, <2>1 DEF Run
  <2>2. CASE where # "store"
    <3>1. at' = Begin(rows)
      BY <1>3, <2>2 DEF Run
    <3> QED
      BY <1>4, <3>1, BeginKinds
  <2> QED
    BY <2>1, <2>2
<1>6. outcome' = [r \in Rows |-> None]
  BY DEF Run
<1>7. at' = "migrate" => \A r \in rows : IsMemory(r)
  BY <1>5 DEF MemoryRows
<1>8. Walk'
  BY <1>1, <1>2, <1>3, <1>4, <1>5, <1>6, <1>7 DEF Walk, Tables, Current
<1>9. Asked' /\ Heard'
  BY <1>2, <1>5 DEF Asked, Heard
<1>10. Accounted'
  BY <1>6, AccountedNext, ImportAssumption
<1> QED
  BY <1>1, <1>8, <1>9, <1>10 DEF Tables

LEMMA ThrottledKeeps == ASSUME ImpInv, Throttled PROVE ImpInv'
<1>1. /\ Tables' /\ Forward /\ MemoryForward /\ UNCHANGED call
  BY TablesSame, ForwardSame, MemorySame DEF Throttled, tables
<1>2. CASE UNCHANGED <<todo, at, outcome>>
  BY <1>1, <1>2, RestKeeps
<1>3. CASE Count("skipped")
  <2>1. PICK r : r = Current
    OBVIOUS
  <2>2. /\ at \in {"check", "store", "add", "close", "migrate"} /\ todo # {}
        /\ call'[Cli] = None
    BY <1>1 DEF Throttled, ImpInv, Walk
  <2> QED
    BY <1>1, <1>3, <2>1, <2>2, CountKeeps
<1> QED
  BY <1>2, <1>3 DEF Throttled

LEMMA LostReplyKeeps == ASSUME ImpInv, LostReply PROVE ImpInv'
<1>1. Calls' /\ call'[Cli] = None
  BY CallSet, ImportAssumption DEF LostReply, ImpInv
<1>2. Tables' /\ Forward /\ MemoryForward
  BY <1>1, GraphSame, ForwardSame, MemorySame DEF LostReply, ImpInv, Walk, Tables, tables
<1>3. PICK r : r = Current
  OBVIOUS
<1>4. at \in {"check", "store", "add", "close", "migrate"} /\ todo # {} /\ Count("skipped")
  BY DEF LostReply, ImpInv, Walk
<1> QED
  BY <1>1, <1>2, <1>3, <1>4, CountKeeps

LEMMA CheckKeeps == ASSUME ImpInv, CheckDuplicate PROVE ImpInv'
<1> USE DEF ImpInv
<1>1. Tables' /\ Forward /\ MemoryForward /\ call'[Cli] = None
  BY TablesSame, ForwardSame, MemorySame DEF CheckDuplicate, tables, Walk
<1>2. PICK r : r = Current
  OBVIOUS
<1>3. r \in Rows /\ IsMemory(r) /\ todo # {} /\ at = "check"
  BY <1>2, CurrentIs DEF CheckDuplicate, Walk
<1>4. CASE Duplicate(r.id) /\ Count("deduped")
  <2>1. Good(r)
    BY <1>3, <1>4 DEF Good
  <2>2. Good(r)'
    BY <1>1, <1>3, <2>1, GoodKept
  <2> QED
    BY <1>1, <1>2, <1>3, <1>4, <2>2, CountKeeps
<1>5. CASE at' = "store" /\ UNCHANGED <<todo, outcome>>
  <2>1. Walk'
    BY <1>1, <1>2, <1>3, <1>5 DEF Walk, Tables, Current
  <2>2. Asked' /\ Heard'
    BY <1>1, <1>5 DEF Asked, Heard
  <2>3. \A s \in Rows : outcome'[s] \in {"added", "deduped"} => Good(s)'
    BY <1>1, <1>5, AccountedIs, GoodKept
  <2> QED
    BY <1>1, <2>1, <2>2, <2>3, AccountedNext DEF Tables
<1> QED
  BY <1>2, <1>4, <1>5 DEF CheckDuplicate

\* The store's save, whatever tier it is of.
LEMMA SaveKeeps ==
    ASSUME Walk, NEW id, NEW tier \in {"Explicit", "AutoCapture"}, Save(id, tier), UNCHANGED gone
    PROVE  /\ memory' \in [Ids -> Stored \cup {None}]
           /\ MemoryForward
           /\ id \in Ids /\ memory' # memory => Duplicate(id)'
<1>1. CASE Duplicate(id) \/ memory[id] # None
  BY <1>1 DEF Save, Walk, MemoryForward
<1>2. CASE ~(Duplicate(id) \/ memory[id] # None)
  <2>1. PICK x : x = [state |-> "live", tier |-> tier]
    OBVIOUS
  <2>2. x \in Stored /\ x.state = "live" /\ x # None
    <3>1. x \in Stored /\ x.state = "live"
      BY <2>1 DEF Stored
    <3>2. None \notin Stored
      BY ImportAssumption
    <3> QED
      BY <3>1, <3>2
  <2>3. memory' = [memory EXCEPT ![id] = x]
    BY <1>2, <2>1 DEF Save
  <2>4. /\ memory' \in [Ids -> Stored \cup {None}]
        /\ \A j \in Ids : j # id => memory'[j] = memory[j]
        /\ id \in Ids => memory'[id] = x
    BY <2>2, <2>3 DEF Walk
  <2>5. MemoryForward
    BY <1>2, <2>4 DEF MemoryForward
  <2>6. id \in Ids => Duplicate(id)'
    BY <2>2, <2>4 DEF Duplicate
  <2> QED
    BY <2>4, <2>5, <2>6
<1> QED
  BY <1>1, <1>2

LEMMA Tiers ==
    \A label : MapSource(label) \in {"Explicit", "AutoCapture"}
               /\ RetagImported(MapSource(label)) \in {"Explicit", "AutoCapture"}
  BY DEF MapSource, RetagImported

\* A row is saved and counted, as added only if it was.
LEMMA SavedKeeps ==
    ASSUME ImpInv, at \in {"store", "migrate"}, todo # {}, NEW r, r = Current,
           NEW tier \in {"Explicit", "AutoCapture"}, Save(r.id, tier),
           NEW how \in {"added", "skipped"}, Count(how), how = "added" => memory' # memory,
           UNCHANGED <<tables, call, gone>>
    PROVE  ImpInv'
<1> USE DEF ImpInv
<1>1. r \in Rows /\ IsMemory(r)
  <2>1. r \in todo /\ r \in Rows
    BY CurrentIs
  <2> QED
    BY <2>1 DEF Walk
<1>2. r.id \in Ids
  BY <1>1, RowKinds DEF RowOK
<1>3. PICK id : id = r.id
  OBVIOUS
<1>4. Save(id, tier)
  BY <1>3
<1>5. /\ memory' \in [Ids -> Stored \cup {None}]
      /\ MemoryForward
      /\ memory' # memory => Duplicate(id)'
  BY <1>2, <1>3, <1>4, SaveKeeps
<1>6. Tables' /\ Forward
  BY <1>5, CallsSame, GraphSame, ForwardSame DEF Tables, tables
<1>7. how # "skipped" => Good(r)'
  BY <1>1, <1>3, <1>5 DEF Good
<1>8. call'[Cli] = None
  BY DEF Walk
<1> QED
  BY <1>5, <1>6, <1>7, <1>8, CountKeeps

LEMMA StoreKeeps == ASSUME ImpInv, StoreMemoryIn \/ StoreUnheard PROVE ImpInv'
<1>1. PICK r : r = Current
  OBVIOUS
<1>2. PICK tier \in {"Explicit", "AutoCapture"} : tier = RetagImported(MapSource(Current.label))
  BY Tiers
<1>3. at = "store" /\ todo # {} /\ Save(r.id, tier) /\ UNCHANGED <<tables, call, gone>>
  BY <1>1, <1>2 DEF StoreMemoryIn, StoreUnheard, ImpInv, Walk
<1>4. PICK how \in {"added", "skipped"} : Count(how) /\ (how = "added" => memory' # memory)
  BY DEF StoreMemoryIn, StoreUnheard
<1> QED
  BY <1>1, <1>3, <1>4, SavedKeeps

LEMMA MigrateKeeps == ASSUME ImpInv, Migrate PROVE ImpInv'
<1>1. at = "migrate" /\ UNCHANGED <<tables, call, gone>>
  BY DEF Migrate
<1>2. CASE todo = {}
  <2>1. at' = "done" /\ UNCHANGED <<memory, todo, outcome>>
    BY <1>2 DEF Migrate
  <2>2. Tables' /\ Forward /\ MemoryForward /\ call'[Cli] = None
    BY <1>1, <2>1, TablesSame, ForwardSame, MemorySame DEF tables, ImpInv, Walk
  <2>3. Walk'
    BY <2>1, <2>2 DEF ImpInv, Walk, Tables, Current
  <2>4. Asked' /\ Heard'
    BY <2>1, <2>2 DEF Asked, Heard
  <2>5. \A s \in Rows : outcome'[s] \in {"added", "deduped"} => Good(s)'
    BY <2>1, <2>2, AccountedIs, GoodKept DEF ImpInv
  <2> QED
    BY <2>2, <2>3, <2>4, <2>5, AccountedNext DEF ImpInv, Tables
<1>3. CASE todo # {}
  <2>1. PICK r : r = Current
    OBVIOUS
  <2>2. PICK tier \in {"Explicit", "AutoCapture"} : tier = MapSource(Current.label)
    BY Tiers
  <2>3. SaveDirect
    BY <1>3 DEF Migrate
  <2>4. Save(r.id, tier)
    BY <2>1, <2>2, <2>3 DEF SaveDirect
  <2>5. PICK how \in {"added", "skipped"} : Count(how) /\ (how = "added" => memory' # memory)
    BY <2>3 DEF SaveDirect
  <2> QED
    BY <1>1, <1>3, <2>1, <2>4, <2>5, SavedKeeps
<1> QED
  BY <1>2, <1>3

\* A request goes out for the row the importer is at.
LEMMA SendKeeps == ASSUME ImpInv, AddTripleIn \/ InvalidateTripleIn PROVE ImpInv'
<1> USE DEF ImpInv
<1>1. PICK op \in {"add", "invalidate"} : Send(op) /\ op = IF at = "add" THEN "add" ELSE "invalidate"
  BY DEF AddTripleIn, InvalidateTripleIn
<1>2. at \in {"add", "close"} /\ call[Cli] = None
  BY DEF AddTripleIn, InvalidateTripleIn, Send
<1>3. Current \in Rows /\ ~IsMemory(Current)
  BY <1>2, CurrentIs DEF Walk
<1>4. PICK f \in Facts : f = Current.fact
  BY <1>3, RowKinds DEF RowOK
<1>5. PICK x : x = Request(op, Target, f)
  OBVIOUS
<1>6. /\ x.op = op /\ x.ns = Target /\ x.fact = f /\ x.status = None /\ x.reply = None
      /\ x.at = (IF op = "add" THEN "subject" ELSE "write")
      /\ IsCall(x)
  <2>1. /\ x.op = op /\ x.ns = Target /\ x.fact = f /\ x.status = None /\ x.reply = None
        /\ x.at = (IF op = "add" THEN "subject" ELSE "write")
    BY <1>5 DEF Request
  <2>2. x = [op |-> op, ns |-> Target, fact |-> f, status |-> None, reply |-> None, at |-> x.at]
    BY <1>5 DEF Request
  <2>3. op \in Ops /\ Target \in Namespaces /\ x.at \in CallSteps
    BY <2>1, ImportAssumption DEF Ops, CallSteps
  <2> QED
    BY <2>1, <2>2, <2>3 DEF IsCall
<1>7. call' = [call EXCEPT ![Cli] = x]
  BY <1>1, <1>4, <1>5 DEF Send
<1>8. Calls' /\ call'[Cli] = x
  BY <1>6, <1>7, CallSet, ImportAssumption
<1>9. UNCHANGED <<todo, at, outcome, entity, triple, memory, gone>>
  BY <1>1 DEF Send, cli, tables
<1>10. Tables' /\ Forward /\ MemoryForward
  BY <1>8, <1>9, GraphSame, ForwardSame, MemorySame DEF Tables, tables, Walk
<1>11. Walk'
  BY <1>2, <1>9, <1>10 DEF Walk, Tables, Current
<1>12. Asked'
  BY <1>1, <1>2, <1>4, <1>6, <1>8, <1>9 DEF Asked, Current, AddSteps
<1>13. Heard'
  BY <1>1, <1>6, <1>8, <1>9 DEF Heard, Current, There
<1>14. \A s \in Rows : outcome'[s] \in {"added", "deduped"} => Good(s)'
  BY <1>9, <1>10, AccountedIs, GoodKept
<1> QED
  BY <1>10, <1>11, <1>12, <1>13, <1>14, AccountedNext DEF Tables

\* An answer is read: the row is counted, or its end is next.
LEMMA ReplyKeeps == ASSUME ImpInv, Added \/ Closed PROVE ImpInv'
<1> USE DEF ImpInv
<1>1. PICK r : r = Current
  OBVIOUS
<1>2. /\ at \in {"add", "close"} /\ call[Cli] # None /\ call[Cli].at = "replied"
      /\ todo # {} /\ UNCHANGED <<entity, triple, memory, gone>>
  BY DEF Added, Closed, At, tables, Walk
<1>3. Calls' /\ call'[Cli] = None
  BY CallSet, ImportAssumption DEF Added, Closed
<1>4. Tables' /\ Forward /\ MemoryForward
  BY <1>2, <1>3, GraphSame, ForwardSame, MemorySame DEF Tables, tables, Walk
<1>5. r \in Rows /\ ~IsMemory(r)
  BY <1>1, <1>2, CurrentIs DEF Walk
<1>6. ASSUME NEW how \in {"added", "skipped"}, Count(how),
             how = "added" => Good(r)
      PROVE  ImpInv'
  <2>1. how # "skipped" => Good(r)'
    BY <1>4, <1>5, <1>6, GoodKept
  <2> QED
    BY <1>1, <1>2, <1>3, <1>4, <1>6, <2>1, CountKeeps
<1>7. CASE Added /\ call[Cli].status # "error" /\ Current.ended
  <2>1. at = "add" /\ at' = "close" /\ UNCHANGED <<todo, outcome>>
    BY <1>7 DEF Added
  <2>2. Walk'
    BY <1>1, <1>2, <1>4, <1>5, <2>1 DEF Walk, Tables, Current
  <2>3. Asked'
    BY <1>3 DEF Asked
  <2>4. There(Key(Current.fact))
    BY <1>2, <1>7, <2>1 DEF Heard
  <2>5. There(Key(Current.fact))'
    BY <1>2, <2>1, <2>4 DEF There, Current
  <2>6. Heard'
    BY <1>3, <2>1, <2>5 DEF Heard
  <2>7. \A s \in Rows : outcome'[s] \in {"added", "deduped"} => Good(s)'
    BY <1>4, <2>1, AccountedIs, GoodKept
  <2> QED
    BY <1>4, <2>2, <2>3, <2>6, <2>7, AccountedNext DEF Tables
<1>8. CASE Added /\ ~(call[Cli].status # "error" /\ Current.ended)
  <2>1. at = "add" /\ Count(IF call[Cli].status = "error" THEN "skipped" ELSE "added")
    BY <1>8 DEF Added
  <2>2. call[Cli].status # "error" => Good(r)
    BY <1>1, <1>2, <1>5, <1>8, <2>1 DEF Heard, Good
  <2> QED
    BY <1>6, <2>1, <2>2
<1>9. CASE Closed
  <2>1. at = "close" /\ Count(IF call[Cli].status = "error" THEN "skipped" ELSE "added")
    BY <1>9 DEF Closed
  <2>2. call[Cli].status # "error" => Good(r)
    BY <1>1, <1>2, <1>5, <2>1 DEF Heard, Good
  <2> QED
    BY <1>6, <2>1, <2>2
<1> QED
  BY <1>7, <1>8, <1>9

LEMMA KilledKeeps == ASSUME ImpInv, Killed PROVE ImpInv'
<1> USE DEF ImpInv
<1>1. Calls' /\ call'[Cli] = None
  BY CallSet, ImportAssumption DEF Killed
<1>2. /\ at' = "off" /\ todo' = {} /\ Tables' /\ Forward /\ MemoryForward /\ UNCHANGED outcome
  BY <1>1, GraphSame, ForwardSame, MemorySame DEF Killed, Tables, tables, Walk
<1>3. Walk'
  BY <1>1, <1>2 DEF Walk, Tables
<1>4. Asked' /\ Heard'
  BY <1>1, <1>2 DEF Asked, Heard
<1>5. \A s \in Rows : outcome'[s] \in {"added", "deduped"} => Good(s)'
  BY <1>2, AccountedIs, GoodKept
<1> QED
  BY <1>2, <1>3, <1>4, <1>5, AccountedNext DEF Tables

-----------------------------------------------------------------------------
(* Everyone else, and the daemon *)

LEMMA ReceiveKeeps ==
    ASSUME ImpInv, NEW c \in Conns, NEW op \in Ops, NEW ns \in Namespaces, NEW f \in Facts,
           Receive(c, op, ns, f)
    PROVE  ImpInv'
<1>1. PICK x : x = Request(op, ns, f)
  OBVIOUS
<1>2. IsCall(x)
  <2>1. x.reply = None /\ x.at \in CallSteps
    BY <1>1 DEF Request, CallSteps
  <2>2. x = [op |-> op, ns |-> ns, fact |-> f, status |-> None, reply |-> None, at |-> x.at]
    BY <1>1 DEF Request
  <2> QED
    BY <2>1, <2>2 DEF IsCall
<1>3. Calls' /\ call'[Cli] = call[Cli]
  BY <1>1, <1>2, CallSet, ImportAssumption DEF Receive, ImpInv
<1>4. Tables' /\ Forward /\ MemoryForward /\ UNCHANGED <<todo, at, outcome>>
  BY <1>3, GraphSame, ForwardSame, MemorySame DEF Receive, ImpInv, Tables, tables, Walk, cli
<1> QED
  BY <1>3, <1>4, RestKeeps

LEMMA AnsweredKeeps == ASSUME ImpInv, NEW c \in Conns, Answered(c) PROVE ImpInv'
<1>1. Calls' /\ call'[Cli] = call[Cli]
  BY CallSet, ImportAssumption DEF Answered, ImpInv
<1>2. Tables' /\ Forward /\ MemoryForward /\ UNCHANGED <<todo, at, outcome>>
  BY <1>1, GraphSame, ForwardSame, MemorySame DEF Answered, ImpInv, Tables, tables, Walk, cli
<1> QED
  BY <1>1, <1>2, RestKeeps

LEMMA HandleFailsKeeps == ASSUME ImpInv, NEW c \in Conns, HandleFails(c) PROVE ImpInv'
<1>1. PICK h : Becomes(c, h) /\ h.at = "replied" /\ h.status = "error"
  BY AnswerBecomes DEF HandleFails, StoreError, Refuse, ImpInv
<1>2. Calls' /\ call'[c] = h /\ \A d \in Conns \ {c} : call'[d] = call[d]
  BY <1>1, CallSet DEF Becomes, ImpInv
<1>3. Tables' /\ Forward /\ MemoryForward /\ UNCHANGED <<todo, at, outcome>>
  BY <1>2, GraphSame, ForwardSame, MemorySame
     DEF HandleFails, StoreError, ImpInv, Tables, tables, Walk, cli
<1> QED
  BY <1>1, <1>2, <1>3, RestKeeps, ImportAssumption DEF Becomes

LEMMA DaemonCrashKeeps == ASSUME ImpInv, DaemonCrash PROVE ImpInv'
<1> DEFINE h(c) == [call[c] EXCEPT !.at = "replied", !.status = "error"]
<1>1. ASSUME NEW c \in Conns, call[c] # None
      PROVE  /\ IsCall(h(c)) /\ h(c).op = call[c].op /\ h(c).ns = call[c].ns
             /\ h(c).fact = call[c].fact /\ h(c).at = "replied" /\ h(c).status = "error"
  <2>1. IsCall(call[c])
    BY <1>1 DEF ImpInv, Calls
  <2> QED
    BY <2>1 DEF IsCall, CallSteps
<1>2. call' = [c \in Conns |-> IF call[c] = None THEN None ELSE h(c)]
  BY DEF DaemonCrash
<1> HIDE DEF h
<1>3. \A c \in Conns : (call[c] = None => call'[c] = None) /\ (call[c] # None => call'[c] = h(c))
  BY <1>2
<1>4. Calls'
  <2>1. call' \in [Conns -> {None} \cup {h(c) : c \in Conns}]
    BY <1>2
  <2>2. \A c \in Conns : call'[c] # None => IsCall(call'[c])
    BY <1>1, <1>3
  <2>3. \A c \in Conns : IsCall(call'[c]) => IsCall(call[c])'
    BY DEF IsCall
  <2> QED
    BY <2>1, <2>2, <2>3 DEF Calls
<1>5. Tables' /\ Forward /\ MemoryForward /\ UNCHANGED <<todo, at, outcome>>
  BY <1>4, GraphSame, ForwardSame, MemorySame DEF DaemonCrash, ImpInv, Tables, tables, Walk, cli
<1>6. Cli \in Conns
  BY ImportAssumption
<1> QED
  BY <1>1, <1>3, <1>5, <1>6, RestKeeps

LEMMA OtherWriteKeeps ==
    ASSUME ImpInv, NEW id \in Ids, NEW to \in {"deleted", "superseded"}, OtherWrite(id, to)
    PROVE  ImpInv'
<1>1. memory[id] \in Stored
  BY DEF OtherWrite, ImpInv, Walk
<1>2. PICK x : x = IF to = "deleted" THEN None ELSE [memory[id] EXCEPT !.state = to]
  OBVIOUS
<1>3. x \in Stored \cup {None}
  <2>1. to # "deleted" => [memory[id] EXCEPT !.state = to] \in Stored
    BY <1>1 DEF Stored
  <2> QED
    BY <1>2, <2>1
<1>4. memory' = [memory EXCEPT ![id] = x] /\ gone' = gone \cup {id}
      /\ UNCHANGED <<tables, call, cli>>
  BY <1>2 DEF OtherWrite
<1>5. memory' \in [Ids -> Stored \cup {None}] /\ \A j \in Ids : j # id => memory'[j] = memory[j]
  BY <1>3, <1>4 DEF ImpInv, Walk
<1>6. MemoryForward
  <2>1. gone' = gone \cup {id}
    BY <1>4
  <2>2. \A j \in Ids : j # id => memory'[j] = memory[j]
    BY <1>5
  <2> QED
    BY <2>1, <2>2 DEF MemoryForward
<1>7. Tables' /\ Forward /\ UNCHANGED <<todo, at, outcome, call>>
  BY <1>4, <1>5, CallsSame, GraphSame, ForwardSame DEF ImpInv, Tables, tables, cli
<1> QED
  BY <1>6, <1>7, RestKeeps

LEMMA HandleKeeps == ASSUME ImpInv, NEW c \in Conns, Handle(c) PROVE ImpInv'
<1> USE DEF ImpInv
<1>1. Graph' /\ Forward
  BY ServeEffect DEF Effect
<1>2. PICK h : Becomes(c, h) /\ Told(c, h)
  BY ServeEffect DEF Effect
<1>3. Calls' /\ call'[c] = h /\ \A d \in Conns \ {c} : call'[d] = call[d]
  BY <1>2, CallSet DEF Becomes
<1>4. Tables' /\ MemoryForward /\ UNCHANGED <<todo, at, outcome>>
  BY <1>1, <1>3, MemorySame DEF Handle, Tables, Walk, cli
<1>5. CASE c # Cli
  BY <1>1, <1>3, <1>4, <1>5, RestKeeps, ImportAssumption
<1>6. CASE c = Cli
  <2>1. at \in {"add", "close"} /\ call[Cli] # None
    BY <1>2, <1>6 DEF Becomes, Walk
  <2>2. /\ h.op = call[Cli].op /\ h.ns = call[Cli].ns /\ h.fact = call[Cli].fact
        /\ call'[Cli] = h
    BY <1>2, <1>3, <1>6 DEF Becomes
  <2>3. /\ call[Cli].fact = Current.fact /\ call[Cli].ns = Target
        /\ at = "add" => call[Cli].op = "add" /\ call[Cli].at \in AddSteps
        /\ at = "close" => call[Cli].op = "invalidate" /\ call[Cli].at \in {"write", "replied"}
    BY <2>1 DEF Asked
  <2>4. Current \in Rows /\ ~IsMemory(Current)
    BY <2>1, CurrentIs DEF Walk
  <2>5. PICK k \in Keys : k = Key(Current.fact)
    BY <2>4, RowKinds DEF RowOK, Keys
  <2>6. k = Key(Current.fact)' /\ k = Key(call[Cli].fact)
    BY <1>4, <2>3, <2>5 DEF Current
  <2>7. There(k) => There(k)'
    BY <1>1, ForwardKeeps
  <2>8. Walk'
    BY <1>4, <2>1 DEF Walk, Tables, Current
  <2>9. Asked'
    BY <1>2, <1>4, <1>6, <2>1, <2>2, <2>3 DEF Asked, Told, Current
  <2>10. Heard'
    <3>1. CASE at = "add"
      <4>1. h.at = "replied" /\ h.status # "error" => triple'[k] # None
        BY <1>2, <1>6, <2>3, <2>6, <3>1 DEF Told
      <4> QED
        BY <1>4, <2>2, <2>6, <3>1, <4>1 DEF Heard, There
    <3>2. CASE at = "close"
      <4>1. There(k)'
        BY <2>5, <2>7, <3>2 DEF Heard
      <4>2. /\ h.at = "replied"
            /\ triple'[k] # None /\ triple'[k].ns = Target
                 => h.status = "error" \/ triple'[k].valid_to # None
        BY <1>2, <1>6, <2>3, <2>6, <3>2 DEF Told
      <4>3. h.status # "error" => Ended(k)'
        BY <4>1, <4>2 DEF There, Ended
      <4>4. There(Key(Current.fact))'
        BY <2>6, <4>1 DEF There
      <4>5. h.status # "error" => Ended(Key(Current.fact))'
        BY <2>6, <4>3 DEF Ended
      <4> QED
        BY <1>4, <2>2, <3>2, <4>4, <4>5 DEF Heard
    <3> QED
      BY <2>1, <3>1, <3>2
  <2>11. \A s \in Rows : outcome'[s] \in {"added", "deduped"} => Good(s)'
    BY <1>1, <1>4, AccountedIs, GoodKept
  <2> QED
    BY <1>4, <2>8, <2>9, <2>10, <2>11, AccountedNext DEF Tables
<1> QED
  BY <1>5, <1>6

-----------------------------------------------------------------------------
(* The theorems *)

LEMMA ImpInvInit == Init => ImpInv
<1> SUFFICES ASSUME Init PROVE ImpInv
  OBVIOUS
<1> USE DEF Init, KInit
<1>1. Calls
  <2>1. call \in [Conns -> {None}]
    OBVIOUS
  <2> QED
    BY <2>1 DEF Calls
<1>2. Graph
  BY DEF Graph
<1>3. Walk
  <2>1. call[Cli] = None
    BY ImportAssumption
  <2>2. todo = {} /\ at = "off" /\ memory \in [Ids -> Stored \cup {None}]
    OBVIOUS
  <2>3. outcome \in [Rows -> {None, "added", "deduped", "skipped"}]
    OBVIOUS
  <2> QED
    BY <2>1, <2>2, <2>3, Zenon DEF Walk
<1>4. Asked /\ Heard
  BY <1>3 DEF Asked, Heard, Walk
<1>5. Accounted
  BY AccountedIs, ImportAssumption
<1> QED
  BY <1>1, <1>2, <1>3, <1>4, <1>5 DEF ImpInv

LEMMA ImpInvNext == ImpInv /\ [Next]_vars => ImpInv'
<1> SUFFICES ASSUME ImpInv, [Next]_vars PROVE ImpInv'
  OBVIOUS
<1>1. CASE \E where \in {"daemon", "store"} : Run(where)
  BY <1>1, RunKeeps
<1>2. CASE Importer
  BY <1>2, CheckKeeps, StoreKeeps, MigrateKeeps, SendKeeps, ReplyKeeps DEF Importer
<1>3. CASE Throttled \/ LostReply \/ StoreUnheard
  BY <1>3, ThrottledKeeps, LostReplyKeeps, StoreKeeps
<1>4. CASE \E c \in Conns, op \in Ops, ns \in Namespaces, f \in Facts : Receive(c, op, ns, f)
  BY <1>4, ReceiveKeeps
<1>5. CASE \E c \in Conns : Handle(c) \/ HandleFails(c) \/ Answered(c)
  BY <1>5, HandleKeeps, HandleFailsKeeps, AnsweredKeeps
<1>6. CASE \E id \in Ids, to \in {"deleted", "superseded"} : OtherWrite(id, to)
  BY <1>6, OtherWriteKeeps
<1>7. CASE DaemonCrash \/ Killed
  BY <1>7, DaemonCrashKeeps, KilledKeeps
<1>8. CASE UNCHANGED vars
  <2>1. UNCHANGED <<tables, call, memory, todo, at, outcome, gone>>
    BY <1>8 DEF vars, cli
  <2>2. Tables' /\ Forward /\ MemoryForward
    BY <2>1, TablesSame, ForwardSame, MemorySame DEF tables
  <2> QED
    BY <2>1, <2>2, RestKeeps
<1> QED
  BY <1>1, <1>2, <1>3, <1>4, <1>5, <1>6, <1>7, <1>8 DEF Next

LEMMA ImpInvAlways == Spec => []ImpInv
  BY ImpInvInit, ImpInvNext, PTL DEF Spec

\* The import's counts tell the truth, whatever the source holds, however many
\* clients share the graph, whichever keys collide, and with any number of lost
\* replies, 429s, crashes, kills and re-runs (import_memories, import_kg and
\* migration.rs's import_memories).
THEOREM CountsAreTrue == Spec => []Accounted
<1>1. ImpInv => Accounted
  BY DEF ImpInv
<1> QED
  BY ImpInvAlways, <1>1, PTL

\* No import touches a row that was superseded: the store refuses an id it has a
\* row of, superseded or not, and only a delete or the sweep, which are no step of
\* the importer, takes the row away.
THEOREM RetirementIsFinal == Spec => RetiredStaysRetired
<1>1. ASSUME Walk, Next, NEW id \in Ids, memory[id] # None, memory[id].state = "superseded",
             memory'[id] # memory[id]
      PROVE  memory'[id] = None /\ UNCHANGED cli
  <2>1. ASSUME NEW x, NEW tier, Save(x, tier) PROVE memory'[id] = memory[id]
    BY <1>1, <2>1 DEF Save, Walk
  <2>2. ~StoreMemoryIn /\ ~StoreUnheard /\ ~Migrate
    BY <1>1, <2>1 DEF StoreMemoryIn, StoreUnheard, Migrate, SaveDirect
  <2>3. PICK j \in Ids, to \in {"deleted", "superseded"} : OtherWrite(j, to)
    BY <1>1, <2>2
       DEF Next, Run, Importer, CheckDuplicate, AddTripleIn, InvalidateTripleIn, Send, Added,
           Closed, Throttled, LostReply, Receive, Handle, HandleFails, Answered, DaemonCrash, Killed
  <2>4. j = id
    <3>1. PICK x : memory' = [memory EXCEPT ![j] = x]
      BY <2>3 DEF OtherWrite
    <3> QED
      BY <1>1, <3>1 DEF Walk
  <2>5. to = "deleted"
    BY <1>1, <2>3, <2>4 DEF OtherWrite
  <2>6. memory' = [memory EXCEPT ![id] = None] /\ UNCHANGED cli
    BY <2>3, <2>4, <2>5 DEF OtherWrite
  <2> QED
    BY <1>1, <2>6 DEF Walk
<1>2. ImpInv /\ [Next]_vars =>
        [\A id \in Ids : memory[id] # None /\ memory[id].state = "superseded"
                           /\ memory'[id] # memory[id]
                           => memory'[id] = None /\ UNCHANGED cli]_vars
  BY <1>1 DEF ImpInv
<1> QED
  BY ImpInvAlways, <1>2, PTL DEF Spec, RetiredStaysRetired

LEMMA OnlyHandled ==
    ASSUME Next, triple' # triple
    PROVE  \E c \in Conns : AddCreate(c) \/ Invalidate(c) \/ Delete(c)
<1>1. PICK c \in Conns : Handle(c)
  BY DEF Next, Run, Importer, CheckDuplicate, StoreMemoryIn, StoreUnheard, Migrate, AddTripleIn,
         InvalidateTripleIn, Send, Added, Closed, Throttled, LostReply, Receive, HandleFails,
         StoreError, Answered, OtherWrite, DaemonCrash, Killed, tables
<1> QED
  BY <1>1 DEF Handle, Serve, AddSubject, AddObject, CreateNode, AddSelect, QueryNode,
              QueryTriples, tables

\* History is not rewritten: a closed triple keeps its namespace and its fact and
\* stays closed until it is deleted, whatever adds and invalidations of colliding
\* keys interleave (add_triple's select and create, invalidate_triple).
THEOREM HistoryIsKept == Spec => ClosedStaysClosed
<1>1. ASSUME ImpInv, Next, triple' # triple, NEW k \in Keys, Retired(triple[k]),
             triple'[k] # None
      PROVE  /\ Retired(triple'[k])
             /\ triple'[k].ns = triple[k].ns /\ triple'[k].fact = triple[k].fact
  <2> USE DEF ImpInv, Retired
  <2>1. PICK c \in Conns : AddCreate(c) \/ Invalidate(c) \/ Delete(c)
    BY <1>1, OnlyHandled
  <2>2. PICK j : j = Key(call[c].fact)
    OBVIOUS
  <2>3. CASE AddCreate(c)
    <3>1. PICK x : triple' = triple \/ (triple[j] = None /\ triple' = [triple EXCEPT ![j] = x])
      BY <2>2, <2>3 DEF AddCreate
    <3> QED
      BY <1>1, <3>1 DEF Graph
  <2>4. CASE Invalidate(c)
    <3>1. PICK now \in Times :
            \/ triple' = triple
            \/ triple[j] # None /\ triple' = [triple EXCEPT ![j] = [triple[j] EXCEPT !.valid_to = now]]
      BY <2>2, <2>4 DEF Invalidate
    <3>2. PICK t \in Triple : t = triple[k]
      BY <1>1 DEF Graph
    <3>3. PICK x : x = [t EXCEPT !.valid_to = now]
      OBVIOUS
    <3>4. x.ns = t.ns /\ x.fact = t.fact /\ x.valid_to # None
      BY <3>2, <3>3, NoneIsNothing DEF Triple
    <3> QED
      BY <1>1, <3>1, <3>2, <3>3, <3>4 DEF Graph
  <2>5. CASE Delete(c)
    <3>1. triple' = triple \/ triple' = [triple EXCEPT ![j] = None]
      BY <2>2, <2>5 DEF Delete
    <3> QED
      BY <1>1, <3>1 DEF Graph
  <2> QED
    BY <2>1, <2>3, <2>4, <2>5
<1>2. ImpInv /\ [Next]_vars =>
        [\A k \in Keys : Retired(triple[k]) /\ triple'[k] # None =>
            /\ Retired(triple'[k])
            /\ triple'[k].ns = triple[k].ns /\ triple'[k].fact = triple[k].fact]_triple
  BY <1>1 DEF vars, tables
<1> QED
  BY ImpInvAlways, <1>2, PTL DEF Spec, ClosedStaysClosed

-----------------------------------------------------------------------------
(* Triples and their nodes *)

\* The node was written, or its write failed.
Tried(e) == entity[e] # None \/ e \in unmade

\* An add has seen to its subject's node, and then to its object's.
Grounded(h) ==
    h # None =>
        /\ h.at \in {"subject", "object", "select", "create"} => h.op = "add"
        /\ h.at \in {"object", "select", "create"} => Tried(Subject(h.fact))
        /\ h.at \in {"select", "create"} => Tried(Object(h.fact))

NodeInv == ImpInv /\ TriplesHaveNodes /\ \A c \in Conns : Grounded(call[c])

\* Where a request may be after a step.
Advanced(c) ==
    /\ call[c] # None /\ call'[c].op = call[c].op /\ call'[c].fact = call[c].fact
    /\ \/ AddSubject(c) /\ call'[c].at = "object"
       \/ AddObject(c) /\ call'[c].at = "select"
       \/ AddSelect(c) /\ call'[c].at = "create"

Moved(c) ==
    \/ call'[c] \in {call[c], None}
    \/ call'[c].at \in {"replied", "triples", "write", "node"}
    \/ call'[c].at = "subject" /\ call'[c].op = "add"
    \/ Advanced(c)

LEMMA ServeMoves ==
    ASSUME ImpInv, NEW d \in Conns, Handle(d) \/ HandleFails(d)
    PROVE  \A c \in Conns : Moved(c)
<1> USE DEF ImpInv
<1>1. call[d] # None
  BY DEF Handle, Serve, AddSubject, AddObject, AddSelect, AddCreate, Invalidate, Delete,
         QueryNode, QueryTriples, HandleFails, StoreError, At
<1>2. ASSUME NEW h, Becomes(d, h), call'[d] = h => Moved(d)
      PROVE  \A c \in Conns : Moved(c)
  <2>1. call'[d] = h /\ \A c \in Conns \ {d} : call'[c] = call[c]
    BY <1>2, CallSet DEF Becomes
  <2> QED
    BY <1>2, <2>1 DEF Moved
<1>3. ASSUME NEW status \in {"ok", "error"}, NEW r, Answer(d, status, r)
      PROVE  \A c \in Conns : Moved(c)
  <2>1. PICK h : Becomes(d, h) /\ h.at = "replied"
    BY <1>1, <1>3, AnswerBecomes
  <2> QED
    BY <1>2, <2>1 DEF Moved
<1>4. CASE AddSubject(d)
  <2>1. PICK h : Becomes(d, h) /\ h.at = "object"
    BY <1>1, <1>4, GotoBecomes DEF AddSubject, CreateNode, CallSteps
  <2> QED
    BY <1>1, <1>2, <1>4, <2>1 DEF Moved, Advanced, Becomes
<1>5. CASE AddObject(d)
  <2>1. PICK h : Becomes(d, h) /\ h.at = "select"
    BY <1>1, <1>5, GotoBecomes DEF AddObject, CreateNode, CallSteps
  <2> QED
    BY <1>1, <1>2, <1>5, <2>1 DEF Moved, Advanced, Becomes
<1>6. CASE AddSelect(d)
  <2>1. CASE Goto(d, "create")
    <3>1. PICK h : Becomes(d, h) /\ h.at = "create"
      BY <1>1, <2>1, GotoBecomes DEF CallSteps
    <3> QED
      BY <1>1, <1>2, <1>6, <3>1 DEF Moved, Advanced, Becomes
  <2> QED
    BY <1>3, <1>6, <2>1 DEF AddSelect, Reply
<1>7. CASE QueryNode(d)
  <2>1. PICK x : x = call[d]
    OBVIOUS
  <2>2. PICK r : r = IF entity[Subject(x.fact)] = x.ns THEN Subject(x.fact) ELSE None
    OBVIOUS
  <2>3. PICK h : h = [x EXCEPT !.at = "triples", !.reply = r]
    OBVIOUS
  <2>4. IsCall(x)
    BY <1>1, <2>1 DEF Calls
  <2>5. /\ h.op = x.op /\ h.ns = x.ns /\ h.fact = x.fact /\ h.reply = r /\ h.at = "triples"
        /\ IsCall(h)
    BY <2>3, <2>4 DEF IsCall, CallSteps
  <2>6. call' = [call EXCEPT ![d] = h]
    BY <1>7, <2>1, <2>2, <2>3 DEF QueryNode, Calls
  <2>7. Becomes(d, h)
    BY <1>1, <2>1, <2>5, <2>6 DEF Becomes
  <2> QED
    BY <1>2, <2>5, <2>7 DEF Moved
<1>8. CASE AddCreate(d) \/ Invalidate(d) \/ Delete(d) \/ QueryTriples(d) \/ HandleFails(d)
  BY <1>3, <1>8 DEF AddCreate, Invalidate, Delete, QueryTriples, HandleFails, StoreError, Reply,
                    Refuse
<1> QED
  BY <1>4, <1>5, <1>6, <1>7, <1>8 DEF Handle, Serve

LEMMA RequestMoves ==
    ASSUME NEW op \in Ops, NEW ns, NEW f
    PROVE  \/ Request(op, ns, f).at \in {"write", "node"}
           \/ Request(op, ns, f).at = "subject" /\ Request(op, ns, f).op = "add"
  BY DEF Request, Ops

LEMMA CallsMove ==
    ASSUME ImpInv, [Next]_vars
    PROVE  \A c \in Conns : Moved(c)
<1>0. PICK S : call \in [Conns -> S]
  BY DEF ImpInv, Calls
<1>1. ASSUME UNCHANGED call PROVE \A c \in Conns : Moved(c)
  BY <1>1 DEF Moved
<1>2. ASSUME NEW d \in Conns, call' = [call EXCEPT ![d] = None]
      PROVE  \A c \in Conns : Moved(c)
  BY <1>0, <1>2 DEF Moved
<1>3. ASSUME NEW d \in Conns, NEW op \in Ops, NEW ns, NEW f,
             call' = [call EXCEPT ![d] = Request(op, ns, f)]
      PROVE  \A c \in Conns : Moved(c)
  <2>1. PICK x : x = Request(op, ns, f)
    OBVIOUS
  <2>2. x.at \in {"write", "node"} \/ (x.at = "subject" /\ x.op = "add")
    BY <2>1, RequestMoves
  <2> QED
    BY <1>0, <1>3, <2>1, <2>2 DEF Moved
<1>4. CASE DaemonCrash
  <2> SUFFICES ASSUME NEW c \in Conns PROVE Moved(c)
    OBVIOUS
  <2>1. CASE call[c] = None
    BY <1>4, <2>1 DEF DaemonCrash, Moved
  <2>2. CASE call[c] # None
    <3>1. IsCall(call[c]) /\ call'[c] = [call[c] EXCEPT !.at = "replied", !.status = "error"]
      BY <1>4, <2>2 DEF DaemonCrash, ImpInv, Calls
    <3> QED
      BY <3>1 DEF IsCall, Moved
  <2> QED
    BY <2>1, <2>2
<1>5. CASE \E d \in Conns, op \in Ops, ns \in Namespaces, f \in Facts : Receive(d, op, ns, f)
  BY <1>3, <1>5 DEF Receive
<1>6. CASE AddTripleIn \/ InvalidateTripleIn
  <2>1. PICK op \in Ops : Send(op)
    BY <1>6 DEF AddTripleIn, InvalidateTripleIn, Ops
  <2> QED
    BY <1>3, <2>1, ImportAssumption DEF Send
<1>7. CASE Added \/ Closed \/ LostReply \/ Killed \/ (\E d \in Conns : Answered(d))
  BY <1>2, <1>7, ImportAssumption DEF Added, Closed, LostReply, Killed, Answered
<1>8. CASE \E d \in Conns : Handle(d) \/ HandleFails(d)
  BY <1>8, ServeMoves
<1>9. CASE \/ UNCHANGED vars \/ \E where \in {"daemon", "store"} : Run(where)
           \/ CheckDuplicate \/ StoreMemoryIn \/ Migrate \/ Throttled \/ StoreUnheard
           \/ \E id \in Ids, to \in {"deleted", "superseded"} : OtherWrite(id, to)
  BY <1>1, <1>9 DEF vars, Run, CheckDuplicate, StoreMemoryIn, Migrate, Throttled, StoreUnheard,
                    OtherWrite
<1> QED
  BY <1>4, <1>5, <1>6, <1>7, <1>8, <1>9 DEF Next, Importer

\* Only a node's write touches the nodes.
LEMMA OnlyNodes ==
    ASSUME Next, ~UNCHANGED <<entity, unmade>>
    PROVE  \E c \in Conns : AddSubject(c) \/ AddObject(c)
<1>1. PICK c \in Conns : Handle(c)
  BY DEF Next, Run, Importer, CheckDuplicate, StoreMemoryIn, StoreUnheard, Migrate, AddTripleIn,
         InvalidateTripleIn, Send, Added, Closed, Throttled, LostReply, Receive, HandleFails,
         StoreError, Answered, OtherWrite, DaemonCrash, Killed, tables
<1> QED
  BY <1>1 DEF Handle, Serve, AddSelect, AddCreate, Invalidate, Delete, QueryNode, QueryTriples,
              tables

LEMMA NodeTried ==
    ASSUME Graph, NEW c \in Conns, IsCall(call[c]), NEW e \in Entities, NEW next,
           CreateNode(c, e, next)
    PROVE  Tried(e)' /\ \A x \in Entities : Tried(x) => Tried(x)'
<1>1. call[c].ns \in Namespaces /\ call[c].ns # None
  BY NoneIsNothing DEF IsCall
<1>2. CASE entity' = [entity EXCEPT ![e] = IF @ = None THEN call[c].ns ELSE @] /\ UNCHANGED unmade
  <2>1. \A x \in Entities : entity[x] # None => entity'[x] # None
    BY <1>1, <1>2 DEF Graph
  <2>2. entity'[e] # None
    BY <1>1, <1>2 DEF Graph
  <2> QED
    BY <1>2, <2>1, <2>2 DEF Tried
<1>3. CASE unmade' = unmade \cup {e} /\ UNCHANGED entity
  BY <1>3 DEF Tried
<1> QED
  BY <1>2, <1>3 DEF CreateNode

LEMMA NodeInvNext == NodeInv /\ [Next]_vars => NodeInv'
<1> SUFFICES ASSUME NodeInv, [Next]_vars PROVE NodeInv'
  OBVIOUS
<1> USE DEF NodeInv
<1>0. Calls /\ Graph
  BY DEF ImpInv
<1>1. \A f \in Facts : Subject(f) \in Entities /\ Object(f) \in Entities
  BY DEF Entities
<1>2. \A c \in Conns : call[c] # None => call[c].fact \in Facts /\ IsCall(call[c])
  BY <1>0 DEF Calls, IsCall
<1>3. ASSUME NEW c \in Conns, AddSubject(c)
      PROVE  /\ \A e \in Entities : e = Subject(call[c].fact) => Tried(e)'
             /\ \A x \in Entities : Tried(x) => Tried(x)'
  <2>1. PICK e \in Entities : e = Subject(call[c].fact)
    BY <1>1, <1>2, <1>3 DEF AddSubject, At
  <2>2. Tried(e)' /\ \A x \in Entities : Tried(x) => Tried(x)'
    BY <1>0, <1>2, <1>3, <2>1, NodeTried DEF AddSubject, At
  <2> QED
    BY <2>1, <2>2
<1>4. ASSUME NEW c \in Conns, AddObject(c)
      PROVE  /\ \A e \in Entities : e = Object(call[c].fact) => Tried(e)'
             /\ \A x \in Entities : Tried(x) => Tried(x)'
  <2>1. PICK e \in Entities : e = Object(call[c].fact)
    BY <1>1, <1>2, <1>4 DEF AddObject, At
  <2>2. Tried(e)' /\ \A x \in Entities : Tried(x) => Tried(x)'
    BY <1>0, <1>2, <1>4, <2>1, NodeTried DEF AddObject, At
  <2> QED
    BY <2>1, <2>2
<1>5. \A x \in Entities : Tried(x) => Tried(x)'
  <2>1. CASE UNCHANGED <<entity, unmade>>
    BY <2>1 DEF Tried
  <2> QED
    BY <1>3, <1>4, <2>1, OnlyNodes DEF vars, tables
<1>6. ImpInv'
  BY ImpInvNext
<1>7. ASSUME NEW c \in Conns PROVE Grounded(call[c])'
  <2>1. Moved(c)
    BY CallsMove
  <2>2. CASE call'[c] = call[c]
    BY <1>1, <1>2, <1>5, <2>2 DEF Grounded
  <2>3. CASE call'[c] = None
    BY <2>3 DEF Grounded
  <2>4. CASE call'[c].at \in {"replied", "triples", "write", "node"}
    BY <2>4 DEF Grounded
  <2>5. CASE call'[c].at = "subject" /\ call'[c].op = "add"
    BY <2>5 DEF Grounded
  <2>6. CASE Advanced(c)
    <3>1. call[c] # None /\ call'[c].op = call[c].op /\ call'[c].fact = call[c].fact
      BY <2>6 DEF Advanced
    <3>2. PICK s \in Entities : s = Subject(call[c].fact)
      BY <1>1, <1>2, <3>1
    <3>3. PICK o \in Entities : o = Object(call[c].fact)
      BY <1>1, <1>2, <3>1
    <3>4. call[c].op = "add"
      BY <2>6 DEF Advanced, AddSubject, AddObject, AddSelect, At, Grounded
    <3>5. CASE AddSubject(c) /\ call'[c].at = "object"
      <4>1. Tried(s)'
        BY <1>3, <3>2, <3>5
      <4> QED
        BY <3>1, <3>2, <3>4, <3>5, <4>1 DEF Grounded
    <3>6. CASE AddObject(c) /\ call'[c].at = "select"
      <4>1. Tried(s)
        BY <3>1, <3>2, <3>6 DEF Grounded, AddObject, At
      <4>2. Tried(s)' /\ Tried(o)'
        BY <1>4, <1>5, <3>3, <3>6, <4>1
      <4> QED
        BY <3>1, <3>2, <3>3, <3>4, <3>6, <4>2 DEF Grounded
    <3>7. CASE AddSelect(c) /\ call'[c].at = "create"
      <4>1. Tried(s) /\ Tried(o)
        BY <3>1, <3>2, <3>3, <3>7 DEF Grounded, AddSelect, At
      <4>2. Tried(s)' /\ Tried(o)'
        BY <1>5, <4>1
      <4> QED
        BY <3>1, <3>2, <3>3, <3>4, <3>7, <4>2 DEF Grounded
    <3> QED
      BY <2>6, <3>5, <3>6, <3>7 DEF Advanced
  <2> QED
    BY <2>1, <2>2, <2>3, <2>4, <2>5, <2>6 DEF Moved
<1>8. ASSUME NEW k \in Keys, triple'[k] # None,
             NEW e \in {Subject(triple'[k].fact), Object(triple'[k].fact)}
      PROVE  Tried(e)'
  <2>1. ASSUME triple[k] # None, triple'[k].fact = triple[k].fact
        PROVE  Tried(e)'
    <3>1. triple[k].fact \in Facts
      BY <1>0, <2>1 DEF Graph, Triple
    <3>2. e \in Entities /\ Tried(e)
      BY <1>1, <1>8, <2>1, <3>1 DEF TriplesHaveNodes, Tried
    <3> QED
      BY <1>5, <3>2
  <2>2. CASE triple' = triple
    BY <1>8, <2>1, <2>2
  <2>3. CASE triple' # triple
    <3>1. PICK c \in Conns : AddCreate(c) \/ Invalidate(c) \/ Delete(c)
      BY <2>3, OnlyHandled DEF vars, tables
    <3>2. PICK j : j = Key(call[c].fact)
      OBVIOUS
    <3>3. CASE AddCreate(c)
      <4>1. PICK x : x = [fact |-> call[c].fact, ns |-> call[c].ns, valid_to |-> None]
        OBVIOUS
      <4>2. triple' = [triple EXCEPT ![j] = x]
        BY <2>3, <3>2, <3>3, <4>1 DEF AddCreate
      <4>3. call[c] # None /\ call[c].at = "create"
        BY <3>3 DEF AddCreate, At
      <4>4. Tried(Subject(x.fact)) /\ Tried(Object(x.fact)) /\ x.fact \in Facts
        BY <1>2, <4>1, <4>3 DEF Grounded
      <4>5. CASE k = j
        BY <1>0, <1>1, <1>5, <1>8, <4>2, <4>4, <4>5 DEF Graph
      <4>6. CASE k # j
        BY <1>0, <1>8, <2>1, <4>2, <4>6 DEF Graph
      <4> QED
        BY <4>5, <4>6
    <3>4. CASE Invalidate(c)
      <4>1. PICK now \in Times :
              triple[j] # None /\ triple' = [triple EXCEPT ![j] = [triple[j] EXCEPT !.valid_to = now]]
        BY <2>3, <3>2, <3>4 DEF Invalidate
      <4>2. CASE k = j
        <5>1. PICK t \in Triple : t = triple[k]
          BY <1>0, <4>1, <4>2 DEF Graph
        <5>2. PICK x : x = [t EXCEPT !.valid_to = now]
          OBVIOUS
        <5>3. x.fact = t.fact
          BY <5>1, <5>2 DEF Triple
        <5>4. triple'[k] = x
          BY <1>0, <4>1, <4>2, <5>1, <5>2 DEF Graph
        <5> QED
          BY <2>1, <4>1, <4>2, <5>1, <5>3, <5>4
      <4>3. CASE k # j
        BY <1>0, <1>8, <2>1, <4>1, <4>3 DEF Graph
      <4> QED
        BY <4>2, <4>3
    <3>5. CASE Delete(c)
      <4>1. triple' = [triple EXCEPT ![j] = None]
        BY <2>3, <3>2, <3>5 DEF Delete
      <4> QED
        BY <1>0, <1>8, <2>1, <4>1 DEF Graph
    <3> QED
      BY <3>1, <3>3, <3>4, <3>5
  <2> QED
    BY <2>2, <2>3
<1>9. TriplesHaveNodes'
  BY <1>8 DEF TriplesHaveNodes, Tried
<1> QED
  BY <1>6, <1>7, <1>9

\* However adds, deletes and failures interleave, a triple's entities have nodes
\* unless the write of a node failed, which add_triple ignores.
THEOREM TriplesAreGrounded == Spec => []TriplesHaveNodes
<1>1. Init => NodeInv
  BY ImpInvInit DEF Init, KInit, NodeInv, TriplesHaveNodes, Grounded
<1>2. NodeInv => TriplesHaveNodes
  BY DEF NodeInv
<1> QED
  BY <1>1, <1>2, NodeInvNext, PTL DEF Spec

=============================================================================
