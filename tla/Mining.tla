------------------------------- MODULE Mining -------------------------------
(***************************************************************************)
(* Session mining and its review queue: `POST /sessions/:id/mine` turns a    *)
(* session into extractions and ingests them one by one, Auto into the       *)
(* palace and PendingReview into the queue; reviewers accept and reject      *)
(* queue entries.  Nothing here takes a lock: passes, reviews, other writers *)
(* of the palace and failures interleave between database round trips.       *)
(*                                                                         *)
(* A mined memory's id is the tier that found it and a hash of its text, so  *)
(* <<tier, fact>> stands for the id and the fact for the content; "peer" is  *)
(* for the ids that other instances give the memories they send.  A pass    *)
(* whose turns cannot be read or whose model fails answers an error before   *)
(* it has written anything, and is left out.                                *)
(***************************************************************************)
EXTENDS Naturals, FiniteSets, SequencesExt

CONSTANTS
    Clients,        \* concurrent requests
    Facts,          \* distinct content texts
    Fold(_),        \* a fact's text, trimmed and lower-cased
    Sessions,       \* sessions: what the rules find in their turns, in order
    Replies,        \* what the model may answer: lines of [fact, confident]
    LlmEnvs,        \* which of IJIMA_LLM_MODEL and IJIMA_LLM_API_KEY are set
    None,
    MaxJobs,        \* bound: mining passes and accepts
    MaxWrites,      \* bound: deletes and corrections by other writers
    MaxFaults,      \* bound: failed round trips, dropped requests and crashes
    MaxTime         \* bound: milliseconds that pass

ASSUME InputsAssumption ==
    /\ None \notin Replies
    /\ Sessions \subseteq Seq(Facts)
    /\ Replies \subseteq Seq([fact : Facts, confident : BOOLEAN])

VARIABLES
    stored,     \* the palace: per memory id "absent", "live" or "superseded"
    queue,      \* the mining_queue table: a set of [id, ms]
    now,        \* the wall clock in milliseconds
    pc,         \* where each handler is suspended
    job,        \* the extractions a mining pass has left, or <<the entry accepted>>
    answer,     \* observation: how each client's last request ended
    staged,     \* observation: the entries ever queued
    rejected,   \* observation: the entries a reviewer was told are dropped
    approved,   \* observation: the entries a reviewer asked to accept
    promoted,   \* observation: the facts ever stored
    used        \* how much of each bound is spent

tables == <<stored, queue, now>>
control == <<pc, job, answer>>
history == <<staged, rejected, approved, promoted>>
vars == <<tables, control, history, used>>

Extraction == [kind : {"Auto", "PendingReview"}, tier : {"rules", "llm"}, fact : Facts]
MemoryIds == {"rules", "llm", "peer"} \X Facts
Entry == [id : MemoryIds, ms : 0..MaxTime]

Init ==
    /\ stored = [id \in MemoryIds |-> "absent"]
    /\ queue = {} /\ now = 0
    /\ pc = [c \in Clients |-> "idle"]
    /\ job = [c \in Clients |-> None]
    /\ answer = [c \in Clients |-> None]
    /\ staged = {} /\ rejected = {} /\ approved = {} /\ promoted = {}
    /\ used = [jobs |-> 0, writes |-> 0, faults |-> 0]

-----------------------------------------------------------------------------
(* Extraction *)

\* The rules tier archives whatever it finds.
Mine(session) ==
    [i \in 1..Len(session) |->
        [kind |-> "Auto", tier |-> "rules", fact |-> session[i]]]

\* Both roles default to review; a line of confidence >= 0.85 is archived.
ParseResponse(reply) ==
    [i \in 1..Len(reply) |->
        [kind |-> IF reply[i].confident THEN "Auto" ELSE "PendingReview",
         tier |-> "llm",
         fact |-> reply[i].fact]]

\* Where the texts of s, up to case and outer spaces, occur first.
Firsts(s) ==
    {i \in 1..Len(s) : \A j \in 1..(i - 1) : Fold(s[j].fact) # Fold(s[i].fact)}

\* The element of I that has k - 1 smaller ones.
Nth(I, k) == CHOOSE i \in I : Cardinality({j \in I : j <= i}) = k

\* The first extraction of each text, in order.
MergeExtractions(s) == [k \in 1..Cardinality(Firsts(s)) |-> s[Nth(Firsts(s), k)]]

\* Without a model the rules' findings are not merged.
MineAll(session, reply) ==
    IF reply = None THEN Mine(session)
    ELSE MergeExtractions(Mine(session) \o ParseResponse(reply))

\* build_mining_agent: the model is asked when both variables are set.
Agent(env) == env = {"model", "key"}

-----------------------------------------------------------------------------
(* Control shared by the handlers *)

Spend(what) == used' = [used EXCEPT ![what] = @ + 1]

Goto(c, step) == pc' = [pc EXCEPT ![c] = step]

Finish(c, how) ==
    /\ Goto(c, "idle")
    /\ job' = [job EXCEPT ![c] = None]
    /\ answer' = [answer EXCEPT ![c] = how]

Start(c, step, what) ==
    /\ pc[c] = "idle" /\ used.jobs < MaxJobs
    /\ Spend("jobs")
    /\ Goto(c, step)
    /\ job' = [job EXCEPT ![c] = what]
    /\ answer' = [answer EXCEPT ![c] = None]

\* The extraction or the queue entry that the handler is at.
Current(c) == Head(job[c])

\* check_duplicate_live: a row of this text, whatever its id, is not superseded.
Duplicate(f) == \E id \in MemoryIds : id[2] = f /\ stored[id] = "live"

\* store_memory's first round trip.
CheckDuplicate(c, f, step) ==
    /\ \/ Duplicate(f) /\ Finish(c, "duplicate")
       \/ ~Duplicate(f) /\ Goto(c, step) /\ UNCHANGED <<job, answer>>
    /\ UNCHANGED <<tables, history, used>>

\* store_memory's second: a row of this id, superseded or not, is an error.
Create(c, id, next) ==
    /\ \/ /\ stored[id] # "absent"
          /\ Finish(c, "error")
          /\ UNCHANGED <<stored, promoted>>
       \/ /\ stored[id] = "absent"
          /\ stored' = [stored EXCEPT ![id] = "live"]
          /\ promoted' = promoted \cup {id[2]}
          /\ next
    /\ UNCHANGED <<queue, now, staged, rejected, approved, used>>

-----------------------------------------------------------------------------
(* trigger_mine and ingest_extractions *)

TriggerMine(c, session, env, reply) ==
    /\ Start(c, "ingest", MineAll(session, IF Agent(env) THEN reply ELSE None))
    /\ UNCHANGED <<tables, history>>

NextExtraction(c) ==
    /\ Goto(c, "ingest")
    /\ job' = [job EXCEPT ![c] = Tail(@)]
    /\ UNCHANGED answer

\* A live row of this text ends the whole pass: the rest is not ingested.
ArchiveCheck(c) ==
    /\ pc[c] = "ingest" /\ job[c] # <<>> /\ Current(c).kind = "Auto"
    /\ CheckDuplicate(c, Current(c).fact, "archive")

ArchiveCreate(c) ==
    /\ pc[c] = "archive"
    /\ Create(c, <<Current(c).tier, Current(c).fact>>, NextExtraction(c))

\* The queue row's key: q_<memory id>_<milliseconds>.
QueueKey(id) == [id |-> id, ms |-> now]

\* enqueue_extraction: a second entry of one memory in one millisecond collides.
EnqueueExtraction(c, id, next) ==
    /\ LET q == QueueKey(id) IN
       \/ q \in queue /\ Finish(c, "error") /\ UNCHANGED <<queue, staged>>
       \/ /\ q \notin queue
          /\ queue' = queue \cup {q} /\ staged' = staged \cup {q}
          /\ next
    /\ UNCHANGED <<stored, now, rejected, approved, promoted, used>>

Enqueue(c) ==
    /\ pc[c] = "ingest" /\ job[c] # <<>> /\ Current(c).kind = "PendingReview"
    /\ EnqueueExtraction(c, <<Current(c).tier, Current(c).fact>>, NextExtraction(c))

MineDone(c) ==
    /\ pc[c] = "ingest" /\ job[c] = <<>>
    /\ Finish(c, "done")
    /\ UNCHANGED <<tables, history, used>>

-----------------------------------------------------------------------------
(* accept_extraction and reject_extraction *)

AcceptTakes(c, q) ==
    /\ q \in queue
    /\ Start(c, "accept", <<q>>)
    /\ queue' = queue \ {q}
    /\ approved' = approved \cup {q}
    /\ UNCHANGED <<stored, now, staged, rejected, promoted>>

\* What reviewers are shown (the order and the cut are left out).
ListPending == {[queue_id |-> q, memory_id |-> q.id] : q \in queue}

\* The entry is read; an unknown one is 404 and changes nothing.
Accept(c, q) ==
    /\ q \in queue
    /\ Start(c, "accept", <<q>>)
    /\ approved' = approved \cup {q}
    /\ UNCHANGED <<tables, staged, rejected, promoted>>

\* A duplicate ends the accept, and its entry stays queued.
PromoteCheck(c) ==
    /\ pc[c] = "accept"
    /\ CheckDuplicate(c, Current(c).id[2], "promote")

PromoteCreate(c) ==
    /\ pc[c] = "promote"
    /\ Create(c, Current(c).id, Goto(c, "dequeue") /\ UNCHANGED <<job, answer>>)

\* The entry goes once its memory is stored.
Dequeue(c) ==
    /\ pc[c] = "dequeue"
    /\ queue' = queue \ {Current(c)}
    /\ Finish(c, "done")
    /\ UNCHANGED <<stored, now, history, used>>

\* One DELETE, whatever an accept of the same entry is doing.
Reject(q) ==
    /\ q \in queue
    /\ queue' = queue \ {q}
    /\ rejected' = rejected \cup {q}
    /\ UNCHANGED <<stored, now, control, staged, approved, promoted, used>>

-----------------------------------------------------------------------------
(* Other writers, failures and time *)

\* delete_memory, or a correction that supersedes a mined memory.
PlainWrite(id, to) ==
    /\ used.writes < MaxWrites
    /\ stored[id] # "absent" /\ (to = "superseded" => stored[id] = "live")
    /\ Spend("writes")
    /\ stored' = [stored EXCEPT ![id] = to]
    /\ UNCHANGED <<queue, now, control, history>>

\* A round trip fails or the client hangs up: what was written stays.
Fault(c) ==
    /\ pc[c] # "idle" /\ used.faults < MaxFaults
    /\ Spend("faults")
    /\ Finish(c, "error")
    /\ UNCHANGED <<tables, history>>

\* The daemon dies and restarts: both tables are on disk.
Crash ==
    /\ used.faults < MaxFaults /\ \E c \in Clients : pc[c] # "idle"
    /\ Spend("faults")
    /\ pc' = [c \in Clients |-> "idle"]
    /\ job' = [c \in Clients |-> None]
    /\ answer' = [c \in Clients |-> IF pc[c] = "idle" THEN answer[c] ELSE "error"]
    /\ UNCHANGED <<tables, history>>

Tick ==
    /\ now < MaxTime
    /\ now' = now + 1
    /\ UNCHANGED <<stored, queue, control, history, used>>

-----------------------------------------------------------------------------

Ingest(c) == ArchiveCheck(c) \/ ArchiveCreate(c) \/ Enqueue(c) \/ MineDone(c)

Promote(c) == PromoteCheck(c) \/ PromoteCreate(c) \/ Dequeue(c)

Next ==
    \/ \E c \in Clients, s \in Sessions, env \in LlmEnvs, r \in Replies : TriggerMine(c, s, env, r)
    \/ \E c \in Clients, q \in queue : Accept(c, q)
    \/ \E q \in queue : Reject(q)
    \/ \E c \in Clients : Ingest(c) \/ Promote(c) \/ Fault(c)
    \/ \E id \in MemoryIds, to \in {"absent", "superseded"} : PlainWrite(id, to)
    \/ Crash
    \/ Tick

Spec == Init /\ [][Next]_vars

-----------------------------------------------------------------------------
(* Properties *)

\* No staged extraction slips away: accept_extraction stores the memory before
\* it deletes the queue row, so whatever fails, collides or crashes in between,
\* an entry is still listed for review, or was rejected, or its text has been
\* stored.
NothingSlips ==
    \A q \in staged :
        \/ \E p \in ListPending : p.queue_id = q
        \/ q \in rejected
        \/ q.id[2] \in promoted

\* Lines that the model may report with confidence.
SureLines == {l \in UNION {ToSet(r) : r \in Replies} : l.confident}

\* Facts that some pass may archive without review.
AutoFacts == (UNION {ToSet(s) : s \in Sessions}) \cup {l.fact : l \in SureLines}

=============================================================================
