------------------------------ MODULE Doctrine ------------------------------
(***************************************************************************)
(* Doctrine versioning: commit_doctrine_ingest and activate_doctrine_version *)
(* over the live rows of one wall and its doctrine_versions archive.         *)
(*                                                                         *)
(* Both operations run under the process-wide doctrine lock, but each is a   *)
(* chain of database round trips, one action each here.  The lock excludes   *)
(* other doctrine operations only: plain saves, corrections and deletes of   *)
(* the same wall (module Palace) fall between any two steps, and so do a     *)
(* store error, a dropped request and a crash.                              *)
(***************************************************************************)
EXTENDS Naturals, FiniteSets

CONSTANTS
    Clients,        \* concurrent doctrine requests
    Docs,           \* memory ids of the wall
    Bodies,         \* distinct content texts (equal text = equal SHA-256)
    None,           \* the absent option, row or lock holder
    PlainRevisions, \* the `revision` a plain save's body may carry
    PlainLinks,     \* the `superseded_by` it may carry
    MaxIngests,     \* bound: ingests received
    MaxRollbacks,   \* bound: rollbacks received
    MaxPlain,       \* bound: plain saves, corrections and deletes
    MaxFaults       \* bound: store errors, dropped requests and crashes

\* A row of the wall: its body, the revision it carries, if any, and its inverse
\* correction link.
LiveRow == [content : Bodies, revision : Nat \cup {None}, superseded_by : Docs \cup {None}]

\* An archived version.
Version == [version : Nat, content : Bodies, active : BOOLEAN]

\* POST /doctrine, and a rollback to a version by its number.
Asks == [op : {"ingest"}, id : Docs, content : Bodies]
          \cup [op : {"rollback"}, id : Docs, to : 1..MaxIngests]

ASSUME NoneNowhere ==
    None \notin Docs \cup Clients \cup Bodies \cup Nat \cup LiveRow \cup Asks

ASSUME PlainFields ==
    PlainRevisions \subseteq Nat \cup {None} /\ PlainLinks \subseteq Docs \cup {None}

VARIABLES
    row,        \* [Docs -> LiveRow or None]; survives a crash
    archive,    \* [Docs -> set of Version]; survives a crash
    lock,       \* doctrine_lock: its holder, or None
    pc,         \* where each handler is suspended
    req,        \* the request each handler serves
    loc,        \* its locals: the row it read, the canonical id, the revision
    ok,         \* observation: the handler's last answer was Ok
    named,      \* observation: <<id, revision, body>> answered to a client
    gone,       \* observation: docs a plain delete has removed
    forged,     \* observation: docs a plain save gave a revision of its own
    used        \* how much of each bound is spent

vars == <<row, archive, lock, pc, req, loc, ok, named, gone, forged, used>>

NoLocals == [live |-> None, canonical |-> None, revision |-> 0, content |-> None]

Init ==
    /\ row = [d \in Docs |-> None]
    /\ archive = [d \in Docs |-> {}]
    /\ lock = None
    /\ pc = [c \in Clients |-> "idle"]
    /\ req = [c \in Clients |-> None]
    /\ loc = [c \in Clients |-> NoLocals]
    /\ ok = [c \in Clients |-> FALSE]
    /\ named = {} /\ gone = {} /\ forged = {}
    /\ used = [ingests |-> 0, rollbacks |-> 0, plain |-> 0, faults |-> 0]

-----------------------------------------------------------------------------
(* Rows and versions *)

Present(d) == row[d] # None
Live(d) == Present(d) /\ row[d].superseded_by = None

\* check_duplicate_live: LIMIT 1 over the live rows that hold this body.
Holders(body) == {d \in Docs : Live(d) /\ row[d].content = body}

\* Revision of a row as an answer reports it.
RevisionOr1(r) == IF r.revision = None THEN 1 ELSE r.revision

MaxVersion(S) ==
    CHOOSE n \in {0} \cup {v.version : v \in S} : \A v \in S : v.version <= n

WithBody(d, body) == {v \in archive[d] : v.content = body}

Larger(m, n) == IF m >= n THEN m ELSE n

\* archive_outgoing: the number the outgoing body has, or is archived under.
OutgoingVersion(d, live) ==
    IF WithBody(d, live.content) # {}
    THEN (CHOOSE v \in WithBody(d, live.content) : TRUE).version
    ELSE IF live.revision # None THEN live.revision ELSE MaxVersion(archive[d]) + 1

ArchivedAlways(d, live) ==
    IF live = None THEN archive[d]
    ELSE archive[d] \cup {[version |-> MaxVersion(archive[d]) + 1,
                           content |-> live.content, active |-> FALSE]}

NotArchived(d, live) == archive[d]

\* archive_outgoing: the archive after it; an upsert on the version's key.
Archived(d, live) ==
    IF live = None \/ WithBody(d, live.content) # {}
    THEN archive[d]
    ELSE {v \in archive[d] : v.version # OutgoingVersion(d, live)}
           \cup {[version |-> OutgoingVersion(d, live), content |-> live.content,
                  active |-> FALSE]}

\* The revision half of commit_doctrine_ingest: a body asserted again keeps its
\* number, a returning body gets its old one back, a new body takes the number
\* after every one archived, live or just archived.
Allocated(d, live, body) ==
    LET out == IF live = None THEN 0 ELSE OutgoingVersion(d, live)
        rev == IF live = None \/ live.revision = None THEN 0 ELSE live.revision
    IN  IF live # None /\ live.content = body THEN out
        ELSE IF WithBody(d, body) # {}
        THEN (CHOOSE v \in WithBody(d, body) : TRUE).version
        ELSE Larger(Larger(MaxVersion(archive[d]), rev), out) + 1

\* set_active_flags: exactly the versions whose body is the live one.
Flagged(d, body) == {[v EXCEPT !.active = (v.content = body)] : v \in archive[d]}

-----------------------------------------------------------------------------
(* A handler's control *)

Spend(what) == used' = [used EXCEPT ![what] = @ + 1]

Leave(c, answer) ==
    /\ pc' = [pc EXCEPT ![c] = "idle"]
    /\ req' = [req EXCEPT ![c] = None]
    /\ loc' = [loc EXCEPT ![c] = NoLocals]
    /\ lock' = IF lock = c THEN None ELSE lock
    /\ ok' = [ok EXCEPT ![c] = answer]

Goto(c, step, locals) ==
    /\ pc' = [pc EXCEPT ![c] = step]
    /\ loc' = [loc EXCEPT ![c] = locals]
    /\ UNCHANGED <<lock, req, ok>>

\* Ok((id, revision)) for this body.
Answer(c, id, revision, body) ==
    /\ named' = named \cup {<<id, revision, body>>}
    /\ Leave(c, TRUE)

Fail(c) == Leave(c, FALSE) /\ UNCHANGED named

Receive(c, r) ==
    /\ pc[c] = "idle"
    /\ \/ r.op = "ingest" /\ used.ingests < MaxIngests /\ Spend("ingests")
       \/ r.op = "rollback" /\ used.rollbacks < MaxRollbacks /\ Spend("rollbacks")
    /\ pc' = [pc EXCEPT ![c] = "lock"]
    /\ req' = [req EXCEPT ![c] = r]
    /\ ok' = [ok EXCEPT ![c] = FALSE]
    /\ UNCHANGED <<row, archive, lock, loc, named, gone, forged>>

TakeLockUnguarded(c) ==
    /\ pc[c] = "lock"
    /\ lock' = c
    /\ pc' = [pc EXCEPT ![c] = IF req[c].op = "ingest" THEN "read" ELSE "select"]
    /\ UNCHANGED <<row, archive, req, loc, ok, named, gone, forged, used>>

TakeLock(c) ==
    /\ pc[c] = "lock" /\ lock = None
    /\ lock' = c
    /\ pc' = [pc EXCEPT ![c] = IF req[c].op = "ingest" THEN "read" ELSE "select"]
    /\ UNCHANGED <<row, archive, req, loc, ok, named, gone, forged, used>>

-----------------------------------------------------------------------------
(* commit_doctrine_ingest *)

SatisfiedByAnyHolder(c) == Present(req[c].id) /\ row[req[c].id].content = req[c].content

\* The no-op test: this body at this id, on a row that is not retired.
Satisfied(c) == Live(req[c].id) /\ row[req[c].id].content = req[c].content

ReadLive(c) ==
    /\ pc[c] = "read"
    /\ \/ /\ Satisfied(c)
          /\ Answer(c, req[c].id, RevisionOr1(row[req[c].id]), req[c].content)
       \/ /\ ~Satisfied(c)
          /\ Goto(c, "dedup", [loc[c] EXCEPT !.live = row[req[c].id]])
          /\ UNCHANGED named
    /\ UNCHANGED <<row, archive, gone, forged, used>>

\* A live row of another id that holds the body is canonical.
Dedup(c) ==
    /\ pc[c] = "dedup"
    /\ \/ \E d \in Holders(req[c].content) \ {req[c].id} :
            Goto(c, "canonical", [loc[c] EXCEPT !.canonical = d])
       \/ /\ Holders(req[c].content) = {} \/ req[c].id \in Holders(req[c].content)
          /\ Goto(c, "allocate", loc[c])
    /\ UNCHANGED <<row, archive, named, gone, forged, used>>

\* Whether this id's own row is a stale live one that has to be retired.
Stale(c) ==
    /\ loc[c].live # None
    /\ loc[c].live.superseded_by = None
    /\ loc[c].live.content # req[c].content

RecallCanonical(c) ==
    /\ pc[c] = "canonical"
    /\ LET d == loc[c].canonical IN
       \/ ~Present(d) /\ Fail(c)
       \/ Present(d) /\ ~Stale(c) /\ Answer(c, d, RevisionOr1(row[d]), req[c].content)
       \/ /\ Present(d) /\ Stale(c)
          /\ Goto(c, "retire", [loc[c] EXCEPT !.revision = RevisionOr1(row[d])])
          /\ UNCHANGED named
    /\ UNCHANGED <<row, archive, gone, forged, used>>

\* mark_superseded: an unconditional UPDATE of this id's row, if it exists.
Retire(c) ==
    /\ pc[c] = "retire"
    /\ row' = IF Present(req[c].id)
              THEN [row EXCEPT ![req[c].id].superseded_by = loc[c].canonical]
              ELSE row
    /\ Answer(c, loc[c].canonical, loc[c].revision, req[c].content)
    /\ UNCHANGED <<archive, gone, forged, used>>

\* Archive the outgoing body and fix the incoming one's revision.  Only the
\* lock's holder touches the archive, so its reads and its upsert are one step.
Allocate(c) ==
    /\ pc[c] = "allocate"
    /\ LET d == req[c].id IN
       /\ archive' = [archive EXCEPT ![d] = Archived(d, loc[c].live)]
       /\ Goto(c, "delete",
               [loc[c] EXCEPT !.revision = Allocated(d, loc[c].live, req[c].content)])
    /\ UNCHANGED <<row, named, gone, forged, used>>

DeleteRow(c) ==
    /\ pc[c] = "delete"
    /\ row' = [row EXCEPT ![req[c].id] = None]
    /\ Goto(c, "check", loc[c])
    /\ UNCHANGED <<archive, named, gone, forged, used>>

\* store_memory: its own content-dedup query ...
StoreCheck(c) ==
    /\ pc[c] = "check"
    /\ \/ Holders(req[c].content) # {} /\ Fail(c)
       \/ /\ Holders(req[c].content) = {}
          /\ Goto(c, "create", loc[c])
          /\ UNCHANGED named
    /\ UNCHANGED <<row, archive, gone, forged, used>>

\* ... and its CREATE (no target, so no supersede lock and no claim).
StoreCreate(c) ==
    /\ pc[c] = "create"
    /\ \/ Present(req[c].id) /\ Fail(c) /\ UNCHANGED row
       \/ /\ ~Present(req[c].id)
          /\ row' = [row EXCEPT ![req[c].id] =
                [content |-> req[c].content, revision |-> loc[c].revision,
                 superseded_by |-> None]]
          /\ Goto(c, "recall", loc[c])
          /\ UNCHANGED named
    /\ UNCHANGED <<archive, gone, forged, used>>

RecallStored(c) ==
    /\ pc[c] = "recall"
    /\ \/ ~Present(req[c].id) /\ Fail(c)
       \/ /\ Present(req[c].id)
          /\ Goto(c, "flags", [loc[c] EXCEPT !.content = row[req[c].id].content])
          /\ UNCHANGED named
    /\ UNCHANGED <<row, archive, gone, forged, used>>

SetFlagsRelocked(c) ==
    /\ pc[c] = "flags" /\ lock = None
    /\ archive' = [archive EXCEPT ![req[c].id] = Flagged(req[c].id, loc[c].content)]
    /\ Answer(c, req[c].id, loc[c].revision, loc[c].content)
    /\ UNCHANGED <<row, gone, forged, used>>

\* The last step of an ingest and of a rollback.
SetFlags(c) ==
    /\ pc[c] = "flags"
    /\ archive' = [archive EXCEPT ![req[c].id] = Flagged(req[c].id, loc[c].content)]
    /\ Answer(c, req[c].id, loc[c].revision,
              IF req[c].op = "ingest" THEN req[c].content ELSE loc[c].content)
    /\ UNCHANGED <<row, gone, forged, used>>

-----------------------------------------------------------------------------
(* activate_doctrine_version *)

\* Find the version, read the live row, archive the outgoing body.
Select(c) ==
    /\ pc[c] = "select"
    /\ LET d == req[c].id
           found == {v \in archive[d] : v.version = req[c].to}
       IN \/ /\ found = {} \/ ~Present(d)
             /\ Fail(c) /\ UNCHANGED archive
          \/ /\ Present(d)
             /\ \E v \in found :
                  /\ archive' = IF row[d].content = v.content THEN archive
                                ELSE [archive EXCEPT ![d] = Archived(d, row[d])]
                  /\ Goto(c, "upsert", [loc[c] EXCEPT !.live = row[d],
                            !.revision = v.version, !.content = v.content])
             /\ UNCHANGED named
    /\ UNCHANGED <<row, gone, forged, used>>

UpsertKeepsNumber(c) ==
    /\ pc[c] = "upsert"
    /\ row' = [row EXCEPT ![req[c].id] =
          [content |-> loc[c].content, revision |-> loc[c].live.revision,
           superseded_by |-> loc[c].live.superseded_by]]
    /\ Goto(c, "flags", loc[c])
    /\ UNCHANGED <<archive, named, gone, forged, used>>

\* The whole row is written back: the version's body and number over the link
\* the row had when it was read.
Upsert(c) ==
    /\ pc[c] = "upsert"
    /\ row' = [row EXCEPT ![req[c].id] =
          [content |-> loc[c].content, revision |-> loc[c].revision,
           superseded_by |-> loc[c].live.superseded_by]]
    /\ Goto(c, "flags", loc[c])
    /\ UNCHANGED <<archive, named, gone, forged, used>>

-----------------------------------------------------------------------------
(* Failures *)

\* A round trip fails: the operation returns the error, except that a failed
\* delete of the outgoing row is ignored.
StoreError(c) ==
    /\ pc[c] \notin {"idle", "lock"} /\ used.faults < MaxFaults
    /\ Spend("faults")
    /\ IF pc[c] = "delete" THEN Goto(c, "check", loc[c]) /\ UNCHANGED named ELSE Fail(c)
    /\ UNCHANGED <<row, archive, gone, forged>>

\* The client hangs up and the handler's future is dropped, guard included.
Drop(c) ==
    /\ pc[c] # "idle" /\ used.faults < MaxFaults
    /\ Spend("faults")
    /\ Fail(c)
    /\ UNCHANGED <<row, archive, gone, forged>>

\* The daemon dies and restarts: rows and archive are on disk.
Crash ==
    /\ used.faults < MaxFaults
    /\ \E c \in Clients : pc[c] # "idle"
    /\ Spend("faults")
    /\ lock' = None
    /\ pc' = [c \in Clients |-> "idle"]
    /\ req' = [c \in Clients |-> None]
    /\ loc' = [c \in Clients |-> NoLocals]
    /\ ok' = [c \in Clients |-> FALSE]
    /\ UNCHANGED <<row, archive, named, gone, forged>>

-----------------------------------------------------------------------------
(* Plain writers of the same wall (module Palace), each as one step *)

Plain ==
    /\ used.plain < MaxPlain
    /\ Spend("plain")
    /\ UNCHANGED <<archive, lock, pc, req, loc, ok, named>>

\* from_memory: POST /memories stores the request's revision and inverse link as
\* they come, and a promotion copies the revision of the row it promotes.
PlainRows ==
    [content : Bodies, revision : PlainRevisions, superseded_by : PlainLinks]

Forge(d, r) == forged' = IF r.revision = None THEN forged ELSE forged \cup {d}

\* store_memory without a target.
PlainSave(d, r) ==
    /\ ~Present(d) /\ Holders(r.content) = {}
    /\ row' = [row EXCEPT ![d] = r]
    /\ Forge(d, r)
    /\ Plain /\ UNCHANGED gone

\* store_memory of row d with `supersedes: t`.
PlainCorrection(d, t, r) ==
    /\ ~Present(d) /\ d # t /\ Live(t) /\ Holders(r.content) = {}
    /\ row' = [row EXCEPT ![d] = r, ![t].superseded_by = d]
    /\ Forge(d, r)
    /\ Plain /\ UNCHANGED gone

\* delete_memory.
PlainDelete(d) ==
    /\ Present(d)
    /\ row' = [row EXCEPT ![d] = None]
    /\ gone' = gone \cup {d}
    /\ Plain /\ UNCHANGED forged

-----------------------------------------------------------------------------

Progress(c) ==
    \/ ReadLive(c) \/ Dedup(c) \/ RecallCanonical(c) \/ Retire(c)
    \/ Allocate(c) \/ DeleteRow(c) \/ StoreCheck(c) \/ StoreCreate(c)
    \/ RecallStored(c) \/ SetFlags(c) \/ Select(c) \/ Upsert(c)

Next ==
    \/ \E c \in Clients : \E r \in Asks : Receive(c, r)
    \/ \E c \in Clients : Progress(c) \/ TakeLock(c) \/ StoreError(c) \/ Drop(c)
    \/ Crash
    \/ \E d \in Docs : \E r \in PlainRows : PlainSave(d, r)
    \/ \E d, t \in Docs : \E r \in PlainRows : PlainCorrection(d, t, r)
    \/ \E d \in Docs : PlainDelete(d)

Spec == Init /\ [][Next]_vars

\* Woken tasks are polled (weak fairness); tokio::sync::Mutex is FIFO, so a
\* waiter for whom it is free again and again gets it (strong fairness).
Fairness == \A c \in Clients : WF_vars(Progress(c)) /\ SF_vars(TakeLock(c))

FairSpec == Spec /\ Fairness

-----------------------------------------------------------------------------
(* Properties *)

\* A number and the body it names: answered, archived or live.
Names(d, n, body) ==
    \/ <<d, n, body>> \in named
    \/ \E v \in archive[d] : v.version = n /\ v.content = body
    \/ Present(d) /\ row[d].revision = n /\ row[d].content = body

\* Revisions are stable body identities: as long as only doctrine operations
\* write to the wall, no number of a doc ever names two bodies, neither among what
\* clients were answered nor in the archive nor live.
StableIdentity ==
    used.plain = 0 =>
        \A d \in Docs : \A a, b \in Bodies : \A n \in 1..(MaxIngests + MaxPlain + 1) :
            Names(d, n, a) /\ Names(d, n, b) => a = b

\* The archive of a doc holds every body once, under one number.
ArchiveInjective ==
    \A d \in Docs : \A v, w \in archive[d] :
        v.version = w.version \/ v.content = w.content => v = w

\* No body a client was told is stored is ever lost: it is live or archived,
\* unless the doc was deleted or a plain save put a row with a revision of its
\* own under its id (archive_outgoing then writes over the entry that has that
\* number).  Ingest archives before it deletes, so this holds at every step,
\* beside plain saves without a revision and corrections, and through errors,
\* dropped requests and crashes.
NothingLost ==
    \A t \in named : t[1] \in gone \cup forged
        \/ (Present(t[1]) /\ row[t[1]].content = t[3])
        \/ \E v \in archive[t[1]] : v.content = t[3]

\* Nothing failed, and only doctrine operations wrote to the wall.
Undisturbed == used.faults = 0 /\ used.plain = 0

\* An ingest answered Ok has its body live in the wall at that moment, at its
\* own id or at the canonical one.
IngestServes ==
    [][\A c \in Clients :
        Undisturbed /\ ok'[c] /\ ~ok[c] /\ req[c].op = "ingest" =>
            \E d \in Docs : Live(d)' /\ row'[d].content = req[c].content]_vars

\* One row of the wall suffices for a body: however ingests interleave and fail,
\* no two live rows hold the same one.
OneLiveHolder ==
    used.rollbacks = 0 /\ used.plain = 0 =>
        \A body \in Bodies : Cardinality(Holders(body)) <= 1

\* Every doctrine request is answered: the lock is not taken twice by one task
\* and is always released.
EveryRequestAnswered == \A c \in Clients : pc[c] # "idle" ~> pc[c] = "idle"

=============================================================================
