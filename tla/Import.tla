------------------------------- MODULE Import -------------------------------
(***************************************************************************)
(* `ijima import`, `ijima migrate` and `ijima kg delete` against the graph   *)
(* and the palace: the client library's import_memories and import_kg, the   *)
(* row mapping of migration.rs, and the retry of rate-limited requests.      *)
(* One importer walks a source's rows, two requests per row at most, while   *)
(* other clients use the same tables; replies get lost, the daemon crashes,  *)
(* the importer is killed, and the import is run again.                      *)
(*                                                                         *)
(* The importer is the connection Cli.  A save is one step here: Palace has  *)
(* its round trips, and Corrections what they amount to.  A memory row of    *)
(* the source is its id, with Text its content, and the label the source has *)
(* for where it came from; a triple row is two entities and whether the      *)
(* source says the fact has ended.                                          *)
(***************************************************************************)
EXTENDS Knowledge, Sequences

CONSTANTS
    Cli,            \* the importer's connection, one of Conns
    Ids,            \* ids of the source's memory rows
    Text(_),        \* a memory's content
    Names,          \* the source's entity table: id -> trimmed name, "" if blank
    Source,         \* the source: its kind, its memory rows and its triple rows
    FactOf(_, _),   \* the fact between two entity names
    Target,         \* the namespace of the import
    MaxRetries,     \* MAX_RETRY_ATTEMPTS
    MaxRuns,        \* bound: runs of the importer
    MaxWrites       \* bound: other writes to the imported memories

MemoryRow == [id : Ids, label : STRING]
TripleRow == [subject : STRING, object : STRING, ended : BOOLEAN]
Stored == [state : {"live", "superseded"}, tier : {"Explicit", "AutoCapture"}]

ASSUME ImportAssumption ==
    /\ Cli \in Conns /\ Target \in Namespaces
    /\ Source.memories \in Seq(MemoryRow) /\ Source.triples \in Seq(TripleRow)
    /\ None \notin Stored \cup {"added", "deduped", "skipped"}
    /\ \A s, o \in {Names[e] : e \in DOMAIN Names} \ {""} : FactOf(s, o) \in Facts

VARIABLES
    memory,     \* the target namespace's rows: id -> [state, tier]
    todo,       \* the rows the run has left, the one it is at among them
    at,         \* where the importer is
    attempt,    \* how often the current request was answered 429
    outcome,    \* the run's counts: row -> "added", "deduped", "skipped"
    gone        \* observation: rows and keys removed since the run began

cli == <<todo, at, attempt, outcome>>
vars == <<tables, call, used, memory, cli, gone>>

-----------------------------------------------------------------------------
(* The rows to import *)

Named == {e \in DOMAIN Names : Names[e] # ""}

\* map_pipalace_kg: rows whose ends have no named entity are left out.
Mapped ==
    {i \in DOMAIN Source.triples : {Source.triples[i].subject, Source.triples[i].object} \subseteq Named}

\* Triples are re-addressed from entity ids to names, and come after the memories.
ImportTriples ==
    {[fact |-> FactOf(Names[Source.triples[i].subject], Names[Source.triples[i].object]),
      ended |-> Source.triples[i].ended, row |-> Len(Source.memories) + i] : i \in Mapped}

ImportMemories ==
    {[id |-> Source.memories[i].id, label |-> Source.memories[i].label, row |-> i] :
        i \in DOMAIN Source.memories}

\* The memories and the graph, which only mempalace has; the field row is their
\* order.
Rows == ImportMemories \cup (IF Source.kind = "mempalace" THEN ImportTriples ELSE {})

IsMemory(r) == "id" \in DOMAIN r

\* `ijima migrate` takes the memories only.
MemoryRows == {r \in Rows : IsMemory(r)}

First(rows) == CHOOSE r \in rows : \A s \in rows : r.row <= s.row

Current == First(todo)

\* map_pipalace_source and map_zeroclaw_source: an unknown label is unverified
\* for the one, deliberate for the other.
MapSource(label) ==
    IF Source.kind = "mempalace"
    THEN IF label \in {"manual-save", "diary"} THEN "Explicit" ELSE "AutoCapture"
    ELSE IF label = "conversation" THEN "AutoCapture" ELSE "Explicit"

\* retag_imported: whatever the source says of a row, it is unverified here.
RetagImported(tier) == "AutoCapture"

-----------------------------------------------------------------------------

Init ==
    /\ KInit
    /\ memory = [id \in Ids |-> None]
    /\ todo = {} /\ at = "off" /\ attempt = 0
    /\ outcome = [r \in Rows |-> None]
    /\ gone = {}
    /\ used = [requests |-> 0, faults |-> 0, runs |-> 0, writes |-> 0]

\* check_duplicate_live over the namespace.
Duplicate(id) ==
    \E j \in Ids : memory[j] # None /\ memory[j].state = "live" /\ Text(j) = Text(id)

\* Where the row under way starts.
Begin(rows) ==
    IF rows = {} THEN "done" ELSE IF IsMemory(First(rows)) THEN "check" ELSE "add"

\* run_import, or run_migrate: the latter opens the store itself, which it can
\* do only while no daemon has it open.
Run(where) ==
    /\ at \in {"off", "done"} /\ used.runs < MaxRuns
    /\ where = "store" => \A c \in Conns : call[c] = None
    /\ Spend("runs")
    /\ todo' = IF where = "store" THEN MemoryRows ELSE Rows
    /\ at' = IF where = "store" THEN "migrate" ELSE Begin(Rows)
    /\ attempt' = 0
    /\ outcome' = [r \in Rows |-> None]
    /\ gone' = {}
    /\ UNCHANGED <<tables, call, memory>>

\* The row is counted and the next one begins.
Count(how) ==
    /\ outcome' = [outcome EXCEPT ![Current] = how]
    /\ todo' = todo \ {Current}
    /\ at' = IF at = "migrate" THEN at ELSE Begin(todo \ {Current})
    /\ attempt' = 0

-----------------------------------------------------------------------------
(* send_with_retry *)

ThrottledForever ==
    /\ at \in {"check", "store", "add", "close"} /\ call[Cli] = None
    /\ attempt' = (attempt + 1) % (MaxRetries + 1)
    /\ UNCHANGED <<todo, at, outcome, tables, call, used, memory, gone>>

\* 429: the same request again after a delay, and then it is an error.
Throttled ==
    /\ at \in {"check", "store", "add", "close"} /\ call[Cli] = None
    /\ IF attempt < MaxRetries THEN attempt' = attempt + 1 /\ UNCHANGED <<todo, at, outcome>>
       ELSE Count("skipped")
    /\ UNCHANGED <<tables, call, used, memory, gone>>

\* The connection breaks before or after the daemon did its work: not retried.
LostReply ==
    /\ at \in {"check", "store", "add", "close"}
    /\ used.faults < MaxFaults
    /\ Spend("faults")
    /\ Count("skipped")
    /\ call' = [call EXCEPT ![Cli] = None]
    /\ UNCHANGED <<tables, memory, gone>>

-----------------------------------------------------------------------------
(* import_memories *)

CheckDuplicate ==
    /\ at = "check"
    /\ IF Duplicate(Current.id) THEN Count("deduped")
       ELSE at' = "store" /\ attempt' = 0 /\ UNCHANGED <<todo, outcome>>
    /\ UNCHANGED <<tables, call, used, memory, gone>>

SaveOver(id, tier) ==
    memory' = IF Duplicate(id) THEN memory
              ELSE [memory EXCEPT ![id] = [state |-> "live", tier |-> tier]]

\* The store's save: a live duplicate or a row of this id is an error.
Save(id, tier) ==
    memory' = IF Duplicate(id) \/ memory[id] # None THEN memory
              ELSE [memory EXCEPT ![id] = [state |-> "live", tier |-> tier]]

StoreMemoryIn ==
    /\ at = "store"
    /\ Save(Current.id, RetagImported(MapSource(Current.label)))
    /\ Count(IF memory' = memory THEN "skipped" ELSE "added")
    /\ UNCHANGED <<tables, call, used, gone>>

\* The save is done and its answer is lost.
StoreUnheard ==
    /\ at = "store" /\ used.faults < MaxFaults
    /\ Spend("faults")
    /\ Save(Current.id, RetagImported(MapSource(Current.label)))
    /\ Count("skipped")
    /\ UNCHANGED <<tables, call, gone>>

\* migration.rs's import_memories: no check before the save, tiers kept.
SaveDirect ==
    /\ Save(Current.id, MapSource(Current.label))
    /\ Count(IF memory' = memory THEN "skipped" ELSE "added")

Migrate ==
    /\ at = "migrate"
    /\ IF todo = {} THEN at' = "done" /\ UNCHANGED <<memory, todo, outcome, attempt>>
       ELSE SaveDirect
    /\ UNCHANGED <<tables, call, used, gone>>

-----------------------------------------------------------------------------
(* import_kg *)

Send(op) ==
    /\ call[Cli] = None
    /\ call' = [call EXCEPT ![Cli] = Request(op, Target, Current.fact)]
    /\ UNCHANGED <<cli, tables, used, memory, gone>>

AddTripleIn == at = "add" /\ Send("add")

InvalidateTripleIn == at = "close" /\ Send("invalidate")

DoneUnclosed ==
    /\ at = "add" /\ At(Cli, "replied")
    /\ Count(IF call[Cli].status = "error" THEN "skipped" ELSE "added")
    /\ call' = [call EXCEPT ![Cli] = None]
    /\ UNCHANGED <<tables, used, memory, gone>>

\* The add's answer: an ended fact has yet to be closed.
Added ==
    /\ at = "add" /\ At(Cli, "replied")
    /\ IF call[Cli].status # "error" /\ Current.ended
       THEN at' = "close" /\ attempt' = 0 /\ UNCHANGED <<todo, outcome>>
       ELSE Count(IF call[Cli].status = "error" THEN "skipped" ELSE "added")
    /\ call' = [call EXCEPT ![Cli] = None]
    /\ UNCHANGED <<tables, used, memory, gone>>

Closed ==
    /\ at = "close" /\ At(Cli, "replied")
    /\ Count(IF call[Cli].status = "error" THEN "skipped" ELSE "added")
    /\ call' = [call EXCEPT ![Cli] = None]
    /\ UNCHANGED <<tables, used, memory, gone>>

-----------------------------------------------------------------------------
(* Everyone else *)

\* Another client's request to the graph, `ijima kg delete` among them.
Receive(c, op, ns, f) ==
    /\ c # Cli /\ call[c] = None /\ at # "migrate" /\ used.requests < MaxRequests
    /\ Spend("requests")
    /\ call' = [call EXCEPT ![c] = Request(op, ns, f)]
    /\ UNCHANGED <<tables, memory, cli, gone>>

Answered(c) ==
    /\ c # Cli /\ At(c, "replied")
    /\ call' = [call EXCEPT ![c] = None]
    /\ UNCHANGED <<tables, used, memory, cli, gone>>

\* A handler's step; a key it deletes is no longer the import's to account for.
Handle(c) ==
    /\ Serve(c)
    /\ gone' = gone \cup {k \in Keys : triple[k] # None /\ triple'[k] = None}
    /\ UNCHANGED <<memory, cli>>

HandleFails(c) == StoreError(c) /\ UNCHANGED <<memory, cli, gone>>

\* An imported memory is deleted or swept, superseded or not, or a live one is
\* corrected, by someone else.
OtherWrite(id, to) ==
    /\ at # "migrate" /\ used.writes < MaxWrites
    /\ memory[id] # None /\ (to = "superseded" => memory[id].state = "live")
    /\ Spend("writes")
    /\ memory' = [memory EXCEPT ![id] = IF to = "deleted" THEN None ELSE [@ EXCEPT !.state = to]]
    /\ gone' = gone \cup {id}
    /\ UNCHANGED <<tables, call, cli>>

\* The daemon dies; its clients see their requests fail.
DaemonCrash ==
    /\ used.faults < MaxFaults /\ \E c \in Conns : call[c] # None
    /\ Spend("faults")
    /\ call' = [c \in Conns |-> IF call[c] = None THEN None
                                ELSE [call[c] EXCEPT !.at = "replied", !.status = "error"]]
    /\ UNCHANGED <<tables, memory, cli, gone>>

\* The importer is killed: its request, if any, is dropped where it is.
Killed ==
    /\ at \notin {"off", "done"} /\ used.faults < MaxFaults
    /\ Spend("faults")
    /\ at' = "off" /\ todo' = {} /\ attempt' = 0
    /\ call' = [call EXCEPT ![Cli] = None]
    /\ UNCHANGED <<outcome, tables, memory, gone>>

-----------------------------------------------------------------------------

Importer ==
    \/ CheckDuplicate \/ StoreMemoryIn \/ Migrate
    \/ AddTripleIn \/ Added \/ InvalidateTripleIn \/ Closed

Next ==
    \/ \E where \in {"daemon", "store"} : Run(where)
    \/ Importer \/ Throttled \/ LostReply \/ StoreUnheard
    \/ \E c \in Conns, op \in Ops, ns \in Namespaces, f \in Facts : Receive(c, op, ns, f)
    \/ \E c \in Conns : Handle(c) \/ HandleFails(c) \/ Answered(c)
    \/ \E id \in Ids, to \in {"deleted", "superseded"} : OtherWrite(id, to)
    \/ DaemonCrash \/ Killed

\* The importer sends its next request, whatever it is answered, and the
\* daemon serves each request; neither a 429 nor a failure is assumed away.
Fairness ==
    /\ WF_vars(Importer \/ Throttled)
    /\ \A c \in Conns : WF_vars(Handle(c))

Spec == Init /\ [][Next]_vars /\ Fairness

-----------------------------------------------------------------------------
(* Properties *)

\* The counts tell the truth: a memory counted as added or deduped has its text
\* live in the target, and a triple counted as added has a row of its key,
\* closed if the source says it has ended and the row is the target's own --
\* through lost replies, retries, crashes and a second run over what the first
\* one left behind.  What others removed since does not count.
Accounted ==
    \A r \in {s \in Rows : outcome[s] \in {"added", "deduped"}} :
        IF IsMemory(r)
        THEN \/ Duplicate(r.id)
             \/ \E j \in Ids : j \in gone /\ Text(j) = Text(r.id)
        ELSE \/ Key(r.fact) \in gone
             \/ LET t == triple[Key(r.fact)] IN
                t # None /\ (r.ended /\ t.ns = Target => t.valid_to # None)

\* A correction outlives the next import: while a row superseded in the palace is
\* there it stays as it is, though a superseded text is not a duplicate to the
\* check.  Only a delete or the sweep takes it away, and no run of the importer
\* does.  (The import after that stores the text again, as a new row.)
RetiredStaysRetired ==
    [][\A id \in Ids :
        memory[id] # None /\ memory[id].state = "superseded" /\ memory'[id] # memory[id]
          => memory'[id] = None /\ UNCHANGED cli]_vars

\* An import ends, even if the daemon rate-limits every request.
ImportEnds == at = "check" ~> at \in {"done", "off"}

\* What the import counts as added can be read back in the target namespace.
ImportedVisible ==
    \A r \in {s \in Rows : ~IsMemory(s) /\ outcome[s] = "added"} :
        \/ Key(r.fact) \in gone
        \/ \E shown \in Timeline(Target) \cup FindTriples(Target, Subject(r.fact), None) :
                \E t \in shown : t.fact = r.fact

=============================================================================
