------------------------------- MODULE Palace -------------------------------
(***************************************************************************)
(* The memory palace of ijima-server: the `memories` table of one namespace *)
(* and the operations that change it, as they interleave in one daemon.     *)
(*                                                                         *)
(* SurrealStore::store_memory is a chain of separate database round trips:  *)
(* a content-dedup query, then (for a save that declares `supersedes`, under *)
(* the process-wide supersede lock) the CREATE of the successor row, a       *)
(* conditional UPDATE that claims the target, and, when the claim fails, a  *)
(* compensating DELETE.  Each round trip is one action here, so other saves, *)
(* deletes, the TTL sweep, store errors, dropped connections and a crash of *)
(* the daemon fall between any two of them.                                 *)
(*                                                                         *)
(* Every query of the protocol is scoped by namespace; saves of other        *)
(* namespaces only hold the lock longer, so one namespace is modelled.       *)
(***************************************************************************)
EXTENDS Naturals, FiniteSets

CONSTANTS
    Clients,        \* concurrent requests the daemon serves
    Ids,            \* memory ids, chosen by the caller of POST /memories
    Contents,       \* distinct content texts (equal text = equal SHA-256)
    Sources,        \* the MemorySource tiers requests carry
    RequestLinks,   \* what `superseded_by` may hold in a request body
    None,           \* the absent option, row or lock holder
    MaxSaves,       \* bound: saves received
    MaxDeletes,     \* bound: deletes and sweeps
    MaxFaults       \* bound: store errors, dropped requests and crashes

AutoCapture == "AutoCapture"

\* A MemoryRecord, reduced to the columns the write path reads.
Row == [content : Contents, source : Sources,
        supersedes : Ids \cup {None}, superseded_by : Ids \cup {None}]

\* The body of POST /memories: a Memory, links included.
Request == [id : Ids, content : Contents, source : Sources,
            supersedes : Ids \cup {None}, superseded_by : RequestLinks]

ASSUME NoneAssumption == None \notin Ids \cup Clients \cup Row \cup Request
ASSUME LinksAssumption == RequestLinks \subseteq Ids \cup {None}
ASSUME BoundsAssumption == MaxSaves \in Nat /\ MaxDeletes \in Nat /\ MaxFaults \in Nat

VARIABLES
    row,        \* the table: [Ids -> Row or None]; survives a crash
    lock,       \* supersede_lock: its holder, or None
    pc,         \* where each request handler is suspended
    req,        \* the memory each handler is saving
    saved,      \* observation: ids whose save was answered Ok, not deleted since
    raced,      \* observation: have two saves been in flight at the same time?
    removed,    \* observation: ids a delete or the sweep has removed
    used        \* how much of each bound is spent

vars == <<row, lock, pc, req, saved, raced, removed, used>>

Steps == {"idle", "check", "lock", "create", "claim", "undo"}

Init ==
    /\ row = [i \in Ids |-> None]
    /\ lock = None
    /\ pc = [c \in Clients |-> "idle"]
    /\ req = [c \in Clients |-> None]
    /\ saved = {} /\ raced = "no" /\ removed = {}
    /\ used = [saves |-> 0, deletes |-> 0, faults |-> 0]

-----------------------------------------------------------------------------
(* The table *)

Present(i) == row[i] # None
Live(i) == Present(i) /\ row[i].superseded_by = None

DuplicateAnywhere(text) == \E i \in Ids : Live(i) /\ row[i].content # text

\* check_duplicate_live: some row that is not superseded holds this content.
DuplicateLive(text) == \E i \in Ids : Live(i) /\ row[i].content = text

\* MemoryRecord::from_memory copies every link of the request verbatim.
FromMemory(m) == [content |-> m.content, source |-> m.source,
                  supersedes |-> m.supersedes, superseded_by |-> m.superseded_by]

VacantAlways(i) == TRUE

\* A CREATE needs its record key to be free.
Vacant(i) == ~Present(i)

ClaimableAgain(c) ==
    /\ req[c].supersedes # req[c].id
    /\ Present(req[c].supersedes)

\* The conditional UPDATE finds its target: not the save's own row, present,
\* and not yet superseded.
Claimable(c) ==
    /\ req[c].supersedes # req[c].id
    /\ Live(req[c].supersedes)

-----------------------------------------------------------------------------
(* store_memory, one action per round trip *)

Spend(what) == used' = [used EXCEPT ![what] = @ + 1]

\* The handler returns: its guard, if it holds one, is dropped.
Leave(c) ==
    /\ pc' = [pc EXCEPT ![c] = "idle"]
    /\ req' = [req EXCEPT ![c] = None]
    /\ lock' = IF lock = c THEN None ELSE lock

Goto(c, step) ==
    /\ pc' = [pc EXCEPT ![c] = step]
    /\ UNCHANGED <<req, lock>>

Receive(c, m) ==
    /\ pc[c] = "idle" /\ used.saves < MaxSaves
    /\ pc' = [pc EXCEPT ![c] = "check"]
    /\ req' = [req EXCEPT ![c] = m]
    /\ Spend("saves")
    /\ raced' = IF \E d \in Clients : pc[d] # "idle" THEN "yes" ELSE raced
    /\ UNCHANGED <<row, lock, saved, removed>>

\* "content already stored as ...": the save ends before it writes anything.
RejectDuplicate(c) ==
    /\ pc[c] = "check" /\ DuplicateLive(req[c].content)
    /\ Leave(c)
    /\ UNCHANGED <<row, saved, raced, removed, used>>

\* Only a save that declares `supersedes` goes through the lock.
PassDuplicateCheck(c) ==
    /\ pc[c] = "check" /\ ~DuplicateLive(req[c].content)
    /\ Goto(c, IF req[c].supersedes = None THEN "create" ELSE "lock")
    /\ UNCHANGED <<row, saved, raced, removed, used>>

TakeLockUnguarded(c) ==
    /\ pc[c] = "lock"
    /\ lock' = c
    /\ pc' = [pc EXCEPT ![c] = "create"]
    /\ UNCHANGED <<row, req, saved, raced, removed, used>>

TakeLockLinkFirst(c) ==
    /\ pc[c] = "lock" /\ lock = None
    /\ lock' = c
    /\ pc' = [pc EXCEPT ![c] = "create"]
    /\ row' = IF Claimable(c)
              THEN [row EXCEPT ![req[c].supersedes].superseded_by = req[c].id]
              ELSE row
    /\ UNCHANGED <<req, saved, raced, removed, used>>

TakeLock(c) ==
    /\ pc[c] = "lock" /\ lock = None
    /\ lock' = c
    /\ pc' = [pc EXCEPT ![c] = "create"]
    /\ UNCHANGED <<row, req, saved, raced, removed, used>>

\* CREATE; a save without a target is done here, the others go on to claim.
Create(c) ==
    /\ pc[c] = "create" /\ Vacant(req[c].id)
    /\ row' = [row EXCEPT ![req[c].id] = FromMemory(req[c])]
    /\ \/ /\ req[c].supersedes = None
          /\ saved' = saved \cup {req[c].id}
          /\ Leave(c)
       \/ /\ req[c].supersedes # None
          /\ Goto(c, "claim")
          /\ UNCHANGED saved
    /\ UNCHANGED <<raced, removed, used>>

\* CREATE on an existing key is a store error; nothing was written.
CreateCollides(c) ==
    /\ pc[c] = "create" /\ ~Vacant(req[c].id)
    /\ Leave(c)
    /\ UNCHANGED <<row, saved, raced, removed, used>>

ClaimSwappedBinds(c) ==
    /\ pc[c] = "claim" /\ Claimable(c)
    /\ row' = [row EXCEPT ![req[c].supersedes].superseded_by = req[c].content]
    /\ saved' = saved \cup {req[c].id}
    /\ Leave(c)
    /\ UNCHANGED <<raced, removed, used>>

\* UPDATE ... SET superseded_by = $sid WHERE superseded_by = NONE, then Ok.
Claim(c) ==
    /\ pc[c] = "claim" /\ Claimable(c)
    /\ row' = [row EXCEPT ![req[c].supersedes].superseded_by = req[c].id]
    /\ saved' = saved \cup {req[c].id}
    /\ Leave(c)
    /\ UNCHANGED <<raced, removed, used>>

\* Self, absent or already superseded target: compensation follows.
ClaimFails(c) ==
    /\ pc[c] = "claim" /\ ~Claimable(c)
    /\ Goto(c, "undo")
    /\ UNCHANGED <<row, saved, raced, removed, used>>

UndoKeepsLock(c) ==
    /\ pc[c] = "undo"
    /\ row' = [row EXCEPT ![req[c].id] = None]
    /\ pc' = [pc EXCEPT ![c] = "idle"]
    /\ req' = [req EXCEPT ![c] = None]
    /\ UNCHANGED <<lock, saved, raced, removed, used>>

\* The compensating DELETE addresses the successor by its key, then Err.
Undo(c) ==
    /\ pc[c] = "undo"
    /\ row' = [row EXCEPT ![req[c].id] = None]
    /\ Leave(c)
    /\ UNCHANGED <<saved, raced, removed, used>>

StoreErrorUnlinks(c) ==
    /\ pc[c] \in {"check", "create", "claim", "undo"} /\ used.faults < MaxFaults
    /\ Spend("faults")
    /\ row' = IF pc[c] = "claim" /\ Present(req[c].supersedes)
              THEN [row EXCEPT ![req[c].supersedes].superseded_by = None]
              ELSE row
    /\ IF pc[c] = "claim" THEN Goto(c, "undo") ELSE Leave(c)
    /\ UNCHANGED <<saved, raced, removed>>

\* A round trip fails.  Before the CREATE lands the save just ends; a failed
\* claim still compensates; a failed compensation is ignored.
StoreError(c) ==
    /\ pc[c] \in {"check", "create", "claim", "undo"} /\ used.faults < MaxFaults
    /\ Spend("faults")
    /\ IF pc[c] = "claim" THEN Goto(c, "undo") ELSE Leave(c)
    /\ UNCHANGED <<row, saved, raced, removed>>

\* The client hangs up: the handler's future is dropped where it awaits, and
\* its lock guard with it.
Drop(c) ==
    /\ pc[c] # "idle" /\ used.faults < MaxFaults
    /\ Spend("faults")
    /\ Leave(c)
    /\ UNCHANGED <<row, saved, raced, removed>>

-----------------------------------------------------------------------------
(* The other writers of the table *)

\* Rows S go away at a caller's or the sweeper's wish; no link is touched.
Remove(S) ==
    /\ used.deletes < MaxDeletes
    /\ Spend("deletes")
    /\ row' = [i \in Ids |-> IF i \in S THEN None ELSE row[i]]
    /\ saved' = saved \ S
    /\ removed' = removed \cup S
    /\ UNCHANGED <<lock, pc, req, raced>>

\* delete_memory takes no lock.
DeleteMemory(i) == Present(i) /\ Remove({i})

\* delete_aged_autocapture: one statement removes every AutoCapture row older
\* than the cutoff.  `created_at` comes from the request when it has one, so
\* the aged rows are any of them.
DeleteAgedAutocapture(S) ==
    /\ S # {}
    /\ \A i \in S : Present(i) /\ row[i].source = AutoCapture
    /\ Remove(S)

\* The daemon dies and restarts: the table is on disk, the rest is lost.
Crash ==
    /\ used.faults < MaxFaults
    /\ \E c \in Clients : pc[c] # "idle"
    /\ Spend("faults")
    /\ lock' = None
    /\ pc' = [c \in Clients |-> "idle"]
    /\ req' = [c \in Clients |-> None]
    /\ UNCHANGED <<row, saved, raced, removed>>

-----------------------------------------------------------------------------

\* The steps a handler takes by itself once its round trip returns.
Progress(c) ==
    \/ RejectDuplicate(c) \/ PassDuplicateCheck(c)
    \/ Create(c) \/ CreateCollides(c)
    \/ Claim(c) \/ ClaimFails(c) \/ Undo(c)

Next ==
    \/ \E c \in Clients : \E m \in Request : Receive(c, m)
    \/ \E c \in Clients : Progress(c) \/ TakeLock(c) \/ StoreError(c) \/ Drop(c)
    \/ \E i \in Ids : DeleteMemory(i)
    \/ \E S \in SUBSET Ids : DeleteAgedAutocapture(S)
    \/ Crash

Spec == Init /\ [][Next]_vars

\* tokio polls every woken task, so a handler whose round trip can return goes
\* on (weak fairness).  tokio::sync::Mutex is FIFO: a waiter for whom the lock
\* is free again and again gets it (strong fairness).
Fairness == \A c \in Clients : WF_vars(Progress(c)) /\ SF_vars(TakeLock(c))

FairSpec == Spec /\ Fairness

-----------------------------------------------------------------------------
(* Properties *)

\* Every variable stays in its type; a request is held exactly while its handler
\* runs, and only a save that declares a target waits for the lock, claims or
\* compensates.
TypeOK ==
    /\ row \in [Ids -> Row \cup {None}]
    /\ lock \in Clients \cup {None}
    /\ pc \in [Clients -> Steps]
    /\ req \in [Clients -> Request \cup {None}]
    /\ saved \subseteq Ids /\ raced \in {"no", "yes"} /\ removed \subseteq Ids
    /\ used \in [saves : 0..MaxSaves, deletes : 0..MaxDeletes, faults : 0..MaxFaults]
    /\ \A c \in Clients :
        /\ pc[c] = "idle" <=> req[c] = None
        /\ pc[c] \in {"lock", "claim", "undo"} => req[c].supersedes # None

\* The correction graph has no cycle: every nonempty set of ids has a member
\* whose row is gone or whose `superseded_by` leads out of the set.  This is
\* what supersede_lock is for: two saves that name each other as targets would
\* otherwise claim each other, and both memories would vanish from wake-up,
\* search and browse.
Acyclic ==
    \A S \in (SUBSET Ids) \ {{}} :
        \E i \in S : ~Present(i) \/ row[i].superseded_by \notin S

\* A superseded row's successor exists, unless someone deleted it: whatever
\* fails, is dropped or crashes half way through a save, no memory is hidden
\* in favour of one that was never stored (insert before claim).
HeirPresent ==
    \A i \in Ids :
        Present(i) /\ row[i].superseded_by # None =>
            Present(row[i].superseded_by) \/ row[i].superseded_by \in removed

\* One winner per target: once a row is claimed its `superseded_by` never
\* changes again for as long as the row exists, whoever else names it.
LinkStable ==
    [][\A i \in Ids :
        Present(i) /\ ~Live(i) /\ Present(i)' =>
            row'[i].superseded_by = row[i].superseded_by]_vars

\* What the table shows of corrections.
Shown == INSTANCE Corrections WITH
    here <- {i \in Ids : Present(i)},
    link <- [i \in Ids |-> IF Present(i) THEN row[i].superseded_by ELSE None]

\* The save protocol implements the abstract one: every step of every handler,
\* fault, delete and sweep is a step of Corrections or shows nothing.  A row is
\* claimed for an heir that is itself current, the only row a compensation
\* takes back is one that no other row has been superseded by, and a row that
\* has an heir keeps it.
ImplementsCorrections == Shown!Spec

\* A save answered Ok stays stored until someone deletes it: no other save's
\* compensation takes it away.
NoLostSave == \A i \in saved : Present(i)

\* As long as nothing was deleted that holds through every failure: the row a
\* compensation deletes by its key is the one its own save created.
CompensatesItself == removed = {} => NoLostSave

\* No two live rows of the namespace hold the same content.
NoLiveDuplicates ==
    \A i, j \in Ids :
        Live(i) /\ Live(j) /\ row[i].content = row[j].content => i = j

\* Content dedup works for saves that come one after the other, whatever is
\* corrected, deleted, swept or fails between them.
OneRowPerText == raced = "no" => NoLiveDuplicates

\* Every save is answered: no handler waits for the supersede lock or for
\* another save for ever.
EverySaveAnswered ==
    \A c \in Clients : pc[c] # "idle" ~> pc[c] = "idle"

=============================================================================
