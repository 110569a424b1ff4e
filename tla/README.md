# Ijima in TLA+

Ijima is a memory server for coding agents: one daemon (`ijima-server`, axum on
tokio) over an embedded SurrealDB. Agents save memories into namespaces
("walls"), correct them by superseding, read them back by wake-up and search;
operators ingest a versioned doctrine; sessions are mined for facts; peers route
memories here; older stores are imported. This directory models the parts that
keep state, checks them with TLC and proves most of their safety properties with
TLAPS, for every size of the system.

The daemon holds two process-wide locks (`supersede_lock`, `doctrine_lock`) and
otherwise relies on single SurrealDB statements being atomic. Every handler is a
chain of such statements with an `await` between them. So the unit of
interleaving everywhere below is **one database round trip**; for the commands
(`import`, `doctrine ingest`, `token issue`) it is one request or one read of the
disk. The checks are about what falls between two of them.

## Inventory

| Part | State | Operations | What is hard | Module |
|---|---|---|---|---|
| Memory palace, corrections | `memories` table, `supersede_lock` | save (dedup, insert, claim, compensate), delete | insert, claim and compensation are separate; dropped requests; crash | `Palace`, `Corrections` |
| TTL sweeper | same table | one daily DELETE of aged AutoCapture rows | runs beside saves | `Palace` |
| Doctrine versioning | `memories` of a wall, `doctrine_versions`, `doctrine_lock` | ingest, rollback | 8–10 round trips under a lock that plain writers do not take | `Doctrine` |
| Doctrine corpus ingest | a tree of files | read, match, post | order of the posts, collapsed bodies, runs broken off | `Corpus` |
| Mining, review queue | `mining_queue`, `memories` | mine, accept, reject | no lock at all, batches that stop in the middle | `Mining` |
| Federation ingress | the instance's role and scopes | routed write | several gates, staged against stored, restart under other settings | `Federation` |
| Auth, revocation | token policy, revocation set (memory and table) | verify, revoke, hydrate at start | persist then arm; crash or drop in between | `Access` |
| Walls, memberships | membership table | grant, revoke, `resolve_ns` | check, then use; routes with a rule of their own | `Access` |
| Promotion | two walls | copy into another wall | its own copy of the wall rule | `Access` (gate and walls) |
| Rate limiting | a bucket per principal | configure on first sight, consume | filling up by use; weight of the first token | `Access` |
| Search, wake-up, ledger | `retrieval_ledger` | merge of walls, strata, append, list, prune | several reads of a moving table; append failures are only logged; lists are cut | `Rooms`, `Retrieval` |
| Knowledge graph | `triples`, `entities` | add, invalidate, delete, queries | adding again what was invalidated; keys without namespace; node writes whose errors are ignored | `Knowledge` |
| Migration, import, client retries | the source's rows, a request counter | import, migrate, kg delete | 429s, lost replies, re-runs over what a first run left | `Import` |
| Sessions, turns, diaries, repos | four tables | create, end, append, read, register, resolve | what the rows are keyed by; resent requests | `Journal` |
| Configuration, key, token issue | config, key and policy files | serve, issue, admin commands | two processes resolve the same files on their own | `Setup` |
| Redaction, extraction, embeddings, pi | – | – | text processing or numerics, no state | not modelled |

`PROJECT.json` lists every component with its files, every hazard with the line
where it bites, and the source lines behind each definition.

## Modules

Modules that share tables are one specification: `Federation` extends `Mining`,
`Import` extends `Knowledge`, `Retrieval` extends `Rooms`. `Palace` implements
`Corrections`. `Queries` is what an `ORDER BY … LIMIT` returns, for `Rooms` and
`Journal`: any list of the rows that the order allows, cut, since the order of rows
that tie is the database's. Where a module treats another's operation as one step (a
save in `Import`, `POST /doctrine` in `Corpus`, the data handlers in `Access`), it
says so and the other module has the round trips.

### Palace: the write path

`row` is the `memories` table of one namespace, keyed by memory id, each row
reduced to content, source and the two links (`MemoryRecord`). `lock` is the
holder of `supersede_lock`. A request handler is `pc` (where its future is
suspended) and `req` (the memory it saves). `saved`, `raced` and `removed` only
observe: what was answered Ok, whether saves overlapped, what was deleted.

| Action | Code |
|---|---|
| `Receive` | `POST /memories`, after authorisation |
| `RejectDuplicate`, `PassDuplicateCheck` | `check_duplicate_live`, the only read before the insert |
| `TakeLock` | `supersede_lock.lock().await`, only with `supersedes` |
| `Create`, `CreateCollides` | `CREATE memories:<key>` |
| `Claim`, `ClaimFails` | `UPDATE … WHERE superseded_by = NONE` |
| `Undo` | the compensating DELETE by key |
| `StoreError` | any round trip fails (a failed claim still compensates, a failed compensation is ignored) |
| `Drop` | the client hangs up: the future is dropped at its `await`, its guard too |
| `DeleteMemory`, `DeleteAgedAutocapture` | the other writers, which take no lock |
| `Crash` | process death; the table survives |

Every statement of the protocol is scoped by namespace, and saves of other
namespaces only lengthen the wait for the lock: one namespace is enough.
Embedding happens between the dedup query and the lock and touches nothing.

### Corrections: what a namespace promises

Three variables (`here`, `link`, `removed`) and four actions: rows appear unsuperseded
(`Insert`), a current row is superseded once by another row that is current, or was and
has been deleted meanwhile (`Supersede`), a row nothing points at may be withdrawn
(`Withdraw`), and callers delete (`Delete`). `Palace` maps its table to it (`Shown ==
INSTANCE Corrections WITH …`): `Create` is an insert, `Claim` a supersession, `Undo` a
withdrawal, all else stutters or deletes. `ImplementsCorrections` is the abstract
specification as a property of `Palace`, for callers that leave the server's own link
field alone.

### Doctrine: ingest, rollback and versions

`row` is one wall as doctrine sees it (content, revision, inverse link), `archive` the
`doctrine_versions` of each document, `lock` the doctrine lock, `loc` what a handler has
read (`live`, the canonical id, the revision). The actions follow
`commit_doctrine_ingest` (`ReadLive`, `Dedup`, `RecallCanonical`, `Retire`, `Allocate`,
`DeleteRow`, `StoreCheck`, `StoreCreate`, `RecallStored`, `SetFlags`) and
`activate_doctrine_version` (`Select`, `Upsert`, `SetFlags`). `archive_outgoing`, the
numbering and `set_active_flags` are the operators `Archived`, `Allocated` and
`Flagged`. Only the lock's holder touches the archive, so reading it, archiving and
numbering are one step. `PlainSave`, `PlainCorrection` and `PlainDelete` are Palace's
operations on the same wall as single steps; a save or a promotion stores the `revision`
and `superseded_by` of its request as they are (`PlainRows`). `forged` observes the
documents that such a save gave a number, and `named` the numbers clients were answered.
`mark_doctrine_active` is called by tests only and left out; the stance scan warns and
changes nothing.

### Mining and Federation: passes, the review queue, routed writes

A session is the list of texts the rules find in it; a model's reply is a list of
lines, sure (confidence ≥ 0.85) or not. `Agent` is whether the environment sets a
model up; `MineAll`, `MergeExtractions` and `ParseResponse` are the pure tiers.
`ArchiveCheck`/`ArchiveCreate` and `Enqueue` are `ingest_extractions`,
`Accept`/`PromoteCheck`/`PromoteCreate`/`Dequeue` and `Reject` the review routes,
`ListPending` what a reviewer sees. Memory ids are `<<tier, text>>`, as the code
derives them from a hash of the text with a prefix per tier. `now` is the
millisecond clock in the queue's keys.

`Federation` adds `POST /federation/routed-write` on the same two tables: role and
scopes are parsed from the environment (`environment`) at each boot, the role in any
case (`Lower`; any other spelling, blanks around it included, is Unifying), an airgapped
instance refuses, so does one without a matching scope, doctrine is enqueued, the
rest is checked and created like a save. The peer that sends is not code of this
repository. `/federation/state` only reads and `conflict-signal` always answers 404.

### Access: tokens, limits and walls

`revoked`, `members` and `rows` are the tables, `armed` and `bucket` the daemon's
memory, `conn` the request each connection carries and where its handler is
suspended, with the walls a visible search collects. `killed`, `spent` and `ever` (the
namespaces the caller was a member of since the request arrived) only observe.

| Action | Code |
|---|---|
| `Boot`, `Crash` | `serve`: the revocation set is read before the listener starts; process death |
| `Receive`, `Verify` | the extractor up to `verify_bearer` |
| `Admit`, `Limit`, `Refill` | `rate_limit::consume`, then the handler's synchronous part: its capability (`Gate`) and the wall rule (`Wall`) up to the first `await` |
| `Source`, `CheckMember` | `promote_memory`'s read of the original; `is_namespace_member` |
| `ListMemberships`, `ListImports` | the two reads a visible search takes its walls from |
| `Serve` | the data handlers' own round trip (`Palace` and `Doctrine` refine it) |
| `Revoke`, `Arm` | `revoke_token_route`: the table, then the live set |
| `Grant`, `Expel` | the membership routes |
| `Abort` | a failed round trip, or a dropped connection |

`May` is containment of the policy's partitions row by row; `ResolveNs`,
`PromoteTarget`, `DoctrineTarget` and `DoctrineReadTarget` are the code's four forms of
the wall rule. Not every route has one. The routes fall into these classes, and the
operations of the model (`Ops`) have at least one of each that reaches a wall:

* a namespace resolved by `resolve_ns`: recall, store, delete (modelled), duplicate
  check, search of one wall, wake-up, browse, rooms, tunnels and memory statistics,
  graph reads and writes, turns, sessions and diaries read, the review queue's list, a
  mining pass, doctrine rollback;
* a form of its own: promote, ingest, versions (modelled);
* no form: a visible search takes its walls from the membership table, whatever kind
  they are; export and the deletion of a triple take any namespace from an
  operator (modelled); the ledger's list, statistics and pruning, the palace's status
  and the list of members are the operator's too and show events, counts and names, no
  memory's text (not modelled);
* fixed to the caller's own namespace: turns and sessions written, accept and reject,
  diary entries, routed writes;
* no wall to reach: tokens and memberships (`revoke`, `grant`, `expel`), repos,
  federation state, health.

Namespaces are classes (private, shared, global, doctrine, import), not strings: the
suffix and prefix tests are taken to classify them, and the record key `<ns>:<principal>` to
be injective. The limiter's fractional refill is one token at a time.

### Knowledge and Import: the graph and what is brought into it

`entity` and `triple` are the tables, keyed as in the code: nodes by name, triples
by the joined string `Key(fact)`, with the namespace as a column. `call` is the
request each connection serves. An add is its four round trips (two nodes,
the read of the key, the create), invalidate, delete and the queries are one or two;
any may fail in between. A failed node write is ignored, as in the code, and observed
in `unmade`. `valid_to` is a time, any reading of the clock at each invalidation.
`FindTriples` and `Timeline` are the sets of answers that their `LIMIT`s leave
possible.

`Import` is one more connection, `Cli`, that walks the source's rows: what is left to do
is a set, of which `First` is the one with the least row number; `Rows` and `MapSource`
are the row mapping of `migration.rs`, `CheckDuplicate` and `StoreMemoryIn` are
`import_memories`, `AddTripleIn`, `Added`, `InvalidateTripleIn` and `Closed` are
`import_kg`, `Throttled` is `send_with_retry`, `Migrate` is the offline `ijima migrate`.
`LostReply` and `StoreUnheard` break the connection before or after the work,
`OtherWrite` deletes, sweeps or supersedes imported rows, `DaemonCrash` and `Killed` end
either process, and the import is run again. `outcome` is the added/deduped/skipped
count per row.

### Rooms and Retrieval: reads of a moving table

`Rooms` is the read side as operators on `row` (absent, live or superseded per
cell, a cell being a namespace and an id): the ranked lists, browse with its
filter and cap, similarity order, the counts per wall. A ranked read is the set of the lists it may return, and an action takes any of them.
`Retrieval` runs wake-up, visible and personal search and browse as their round
trips: each read (the two that list the walls of a visible search are separate), each
wall and each ledger append is an action; a wake-up's doctrine has its own limit.
`LedgerList` is the ledger's list, newest first and by rank, with its default and its
cap. Around them are `Write`, `Membership`, `Prune` and `Tick`, anywhere between. `steady`
and `ever` of a request observe the rows live throughout and at any time.

### Journal: sessions, turns, diaries, repos

Each route is one statement and one action. `IngestUnheard` and `DiaryUnheard`
are requests whose reply is lost, stored or not. `acked` and `sent` observe what
the client knows. A turn is read back by its index and a diary entry by the daemon's
clock in milliseconds, which is any value of `Clock` at each write: two entries may
share one, and it may be set back. `ListRepos` is the registered names as positions
in the order of names. Paths are sequences of characters, since `resolve_repo` compares
prefixes of strings; `NormalizePath` trims blanks at both ends, then slashes at the end.

### Setup: configuration, the issuer key and tokens

`ijima serve` and `ijima token issue` are two processes with environments of their
own. Each read of a config, key or policy file is an action (the config file is
loaded several times by one boot; `Load`, `ResolveDataDir` and `DefaultKeyPath` take
the settings as they are seen at that read), and the operator edits files and
environments in between. `boots`, `tokens` and `orders` are what came of it, each with the
settings it was made under. The key file's load-or-create is schubert's and
marked external. `AdminCommand` is what an issued token is used for.

### Corpus: `ijima doctrine ingest`

`FnMatch` is the iterative glob matcher, over texts as sequences of characters;
`Entry` the frontmatter rule for ids; `Start`, `Step`, `DryRun` the command and
`ingest_to_daemon` with its retries; `Commit` what the daemon makes of one
entry. The reference is Python's `fnmatch`, to which `doctrine.rs:178` promises parity,
translated on its own: a pattern is a list of items, each a star or a set of
characters (`Items`, `Members`), and `Denotes` says which texts such a list takes. It
shares nothing with the matcher's loop. It is recursive, so nothing is proved here.

## Runs

Properties stated under a condition (`used.faults = 0`, …) say exactly when the
code keeps its promise; "What the code does otherwise" says what happens else.

| Run | Shows |
|---|---|
| `palace` | `Acyclic`, `HeirPresent`, `LinkStable`, `ImplementsCorrections` through overlapping saves, deletes, sweeps and a fault; `CompensatesItself` while nothing is deleted; `OneRowPerText` while saves do not overlap |
| `palace_live` | `EverySaveAnswered` with three contenders for the lock and a fault |
| `doctrine` | numbering (`StableIdentity`, `ArchiveInjective`), preservation (`NothingLost`, of documents that no plain save numbered and no one deleted), `OneLiveHolder`, `IngestServes`, beside a plain writer with any revision and link |
| `doctrine_live` | `EveryRequestAnswered` with three contenders and a fault |
| `federation` | `NothingSlips` (no staged entry vanishes), `ReviewGate` (nothing unsure reaches the palace unreviewed, by mining or from a peer), `BoundaryHolds` (role and scopes), with concurrent passes, reviews and routed writes, another writer, a fault or restart |
| `access` | `DeadOnArrival`, `RejectionsPersist` over crash and restart; `PrivateStaysPrivate` (another's private wall opens to an operator's export or triple deletion and to the visible search of a member, to nothing else), `ExpelledStaysOut`, `ReadersChangeNothing` against membership changes; `NoFreeRefill` |
| `import` | `Accounted` (the counts tell the truth), `TriplesHaveNodes`, `ClosedStaysClosed`, `RetiredStaysRetired` (a superseded row leaves by a delete or the sweep only, never by an import), `ImportEnds` beside another client, with a fault and a re-run |
| `import_visible` | violation, below |
| `retrieval` | `WakeupPromise` (what a torn wake-up still serves), `BestServed` (merging wall by wall loses nothing better), `LedgerExact`, `AuditShows` (a list of the ledger accounts for every row served, or is full of events no older) |
| `journal` | `JournalReadsBack` with lost replies, any clock, any order of ties and any limit; `OwnAsLeft` against other principals, `MostSpecific` |
| `setup` | `OneIssuer`, `MintsOnlyEntitled`, `ServesWhatItRead` |
| `corpus` | `MatcherExact`: the matcher is Python's `fnmatch` on all small patterns and paths, but for classes that begin with a bracket; `TwiceMirrors`: two complete runs in a row mirror the tree |

**Bounds.** Two clients suffice for every pairwise race; the liveness runs use
three, so that one waits while another takes the lock after the holder.

* `palace`: three ids give chains and cycles longer than a mutual pair, two
  contents equal and different texts; four saves allow two rows, a correction and
  a competitor of it, two deletes the delete, save again, compensate sequence twice.
* `doctrine`: three bodies, four ingests and a rollback let a body leave, return
  by ingest or return by rollback; `MaxPlain` = 1 puts one plain writer anywhere, whose
  row has no revision or revision 1 and any link.
* `federation`: four jobs, one other write and two clock values put an accept, a
  reject, a pass and a routed write of one text against each other; the model is
  set up, half set up or not; the instance is unifying, airgapped or scoped, its role
  spelled in several ways.
* `access`: four requests allow grant, use, expel and use again, and revoke, restart and
  use; a grant may be of a shared or of a private wall; the inputs name each route in an
  allowed and a refused form for an operator, a promoter and a reader, the latter two
  one principal with one bucket.
* `import`: one memory row, three triple rows (ended, nameless, orphan), two facts of
  one key, two runs, one request of another client and two other writes (a row is
  superseded, then deleted or swept): each row meets a competitor and its own earlier
  run. Two times tell a moved end from a kept one. Find and timeline show one row, for
  100 and 50. `MaxRetries` = 1 stands for 6, as only the
  last attempt differs.
* `retrieval`: one request (requests do not read each other's state) among two writes;
  seven cells over five walls with shared ids; three rows in the wall and two shown
  (`Limit` = 2 for 20, `Stratum` = 1 for 8), so that the cut matters; the ledger is
  listed with every limit up to one more than its cap (`LedgerDefault` = 1 for 500,
  `LedgerCap` = 2 for 10000), since any time. Three million states, most of them from
  the choice among tied lists.
* `journal`: five operations let two principals create, end and use a session id
  in any order with more turns than a default read shows (`DefaultLimit` = 3 for 50),
  and more entries than any diary read may (`MaxLimit` = 4 for 500); two clock values
  let entries tie and swap; every limit from 0 to 5 is read; directories have blanks and
  slashes around them.
* `setup`: two edits and two boots allow an edit and its restoration around an
  issue; at most one config file at first. Four environments.
* `corpus`: three files, three bodies, three runs, two edits and two faults allow a
  swap of bodies followed by a broken run and two complete ones. The patterns and paths
  are all short ones over the special characters and a letter, and longer ones with
  two stars, ranges and classes that are not closed.

One fault at every possible point covers single failures; double faults are mostly
out of the bounds. Symmetry is used for clients, ids, contents, documents, bodies,
principals and session ids in the safety runs only. `CHECK_DEADLOCK FALSE`: when
the bounded requests are used up the system is idle, which is no error.

**Fairness.** `palace_live`, `doctrine_live`: `WF` on each handler's steps, as tokio
polls a task that was woken and every database call returns or fails; `SF` on
`TakeLock`, as `tokio::sync::Mutex` is FIFO and no waiter is passed over for ever.
`import`: `WF` on the importer, whether its request is taken up or throttled, and
on the daemon's handling of each request; `ImportEnds` holds even if every answer
is a 429. Nothing is assumed of clients, faults, deletes, the sweeper or
operators.

## What the code does otherwise

**Import into another's fact** (`import_visible`, refuted by TLC, listed under
`findings`): a triple's key has no namespace, and an add that finds the key
returns the row as it is. Importing into one wall a fact that another wall holds
counts it as added, and no read of the target shows it
(`ijima-core/src/knowledge.rs:136` "All methods are scoped to a
[`NamespaceId`]").

The following were met with instances of the same modules and are not kept as runs.

Palace, Doctrine and Mining:

* two concurrent saves of one text both go in: a plain save holds no lock between
  the duplicate query and the insert (`backend_surreal.rs:845`);
* save B supersedes a missing target; before it compensates, its row is deleted and
  another save stores the same id and is answered Ok; B's compensation by key
  deletes that row (`:954`);
* `superseded_by` of a request body is stored verbatim, so a caller writes the
  server's link and a cycle can close (`:543`; `memory.rs:78`);
* a fault between a doctrine row's replacement and the flag update leaves the flag
  stale, and ingesting the same body again is a no-op that repairs nothing (`:1622`);
* a plain save of the text between an ingest's delete and its store makes the store
  reject, and the live document is gone (`:1616`);
* one known fact ends a whole mining pass, on the first run already when a session
  names a link twice without a model, and each retry stops at the same place
  (`mining_pipeline.rs:44`; `docs/miner-architecture.md:35`);
* a correction dropped between insert and claim leaves a half link, and its retry is
  rejected as a duplicate (`ijima-core/src/memory.rs:73` "atomically with the
  insert"); a save is rejected as a duplicate of a row that is then compensated away;
* a plain save under a document's id, with `revision` 1 and another body, between an
  ingest's delete and its create: the create collides, and the next ingest archives that
  row over version 1, so a body that was answered Ok is neither live nor archived
  (`backend_surreal.rs:545` stores the request's revision);
* numbers are reused after a document's row is deleted with `DELETE /memories/{id}`,
  which archives nothing (`:1605`; `CHANGELOG.md:103` and `docs/DESIGN.md:484` "no
  number ever identifies two bodies"); no version is active after the first ingest
  of a body (`ijima-core/src/store.rs:68` "Exactly one is"); a rollback to a body
  that is live under another id; `mark_superseded` overwrites a correction's link
  (`corrections.md:40`);
* an accept of an already live text fails and leaves its entry queued
  (`backend_surreal.rs:1851` "a duplicate promote is a no-op"); an accept in flight
  promotes an entry whose reject was answered (`api.rs:1487`).

Federation: a misspelt role, one with a blank beside it included, is Unifying
(`server.rs:113`); a routed update or delete is stored like a
create; an accepted routed doctrine has lost its authority and what it supersedes;
the comment above `routed_write` (`api.rs:1952`) says that no boundary is enforced,
which the code does.

Access: a visible search reads every wall the membership table lists for the caller, and
`POST /namespaces/grant` takes any namespace: who is granted another's private wall
searches it, although recall of the same wall is refused (`api.rs:602`;
`book/src/concepts/multi-tenancy.md:10` "The principal only"). A revocation whose
connection drops after the table was written is not live until it is repeated or the
daemon restarts (the caller has no answer then); a request already past the membership
check is served after the membership is revoked; a principal's bucket keeps the weight
of the first token it was seen with.

Knowledge and Import: a repeated invalidate overwrites the end of a fact
(`backend_surreal.rs:2233`; `ijima-core/src/knowledge.rs:158` "Idempotent."), and an
import closes an ended fact with the daemon's clock, not with the end the source has
(`ijima-client/src/lib.rs:389` "historical range is preserved"); `find_triples` and
the timeline are cut at 100 and 50 rows, so they may disagree with each other and with an
entity query on a large graph; a node write that fails leaves a triple without node
(`:2086`); once a superseded memory is deleted or swept, the next import stores its text
again, live; facts whose parts hold the separator share a key; an entity
node keeps the namespace that came first; a source with an ended and a current row
of one fact leaves it closed; an entity query reads the node and its triples at
different moments; imported AutoCapture rows age by the source's timestamp, compared as a
string, in the TTL sweep.

Retrieval: a wake-up's three reads may disagree; room counts include superseded rows, and
so do tunnels, while traversing one shows live rows only: a tunnel may lead to an empty
side (`backend_surreal.rs:312` and `:345`; `ijima-core/src/palace.rs:42`); memory
statistics sum the list of rooms, which is cut at 1000 (`api.rs:1807`), so on a palace
with more they fall short of the status route; the ledger's list is cut at 500, at most
10000 (`api.rs:1862`); a filtered browse looks at the top 500 only.

Journal: a session id belongs to who used it last; `register_repo` stores the path
as it is typed although `ijima-core/src/repo.rs:27` says it is normalised, and the
root `/` never resolves; a resent turn is stored twice; diary entries of one
millisecond, or written across a clock that was set back, are listed in another order
than they were written.

Setup: a malformed config stops the daemon, while the command takes it as empty and
may issue with another key; a config edited during a boot mixes two texts; a policy
overlay is looked for under the environment's `IJIMA_DIR` only, not the config's
data directory; a key is created even if the policy then denies; a full policy that
diverges from the embedded partitions is not compared with them.

Corpus: one complete run may leave a body unserved when files swapped bodies, which
the next repairs (`doctrine.rs:7`); two files of one id take turns; a class
whose first character is a bracket (`[]]`, `[!]`, `*[]a]`) ends there, at the first `]`
(`doctrine.rs:245`), while Python's `fnmatch` takes it as a member, although
`doctrine.rs:178` promises parity;
`frontmatter_id` takes the first `id:` of a file and `parse_doctrine_file` the last.

## Proofs

Each `…Proofs` module is checked by TLAPS, for every value of the constants (sets of
clients, ids, texts, tokens, files, …) and every bound. All follow the same plan: an
inductive invariant that says what each suspended handler still knows of the tables,
one lemma per action or group of actions, and the property as a consequence. The
larger invariants were checked by TLC on the component's instance before they were
proved.

**Palace** (`PalaceProofs`)

* `TypeCorrect`: `TypeOK`.
* `CorrectionsAcyclic`, `HeirsPresent`: `Acyclic` and `HeirPresent`
  if `RequestLinks = {None}`. The hypothesis is needed: a caller that sends
  `superseded_by` closes a cycle.
* `OneWinner`: `LinkStable`, without hypothesis and without use of the lock: the
  conditional UPDATE alone gives it.
* `CompensationIsOwn`, `DedupHolds`: `CompensatesItself` and `OneRowPerText`. `OwnRow`:
  while nothing was deleted, the row of a correction in flight is there and is nobody's
  answered save. `OneAtATime`: while saves did not overlap, one handler is busy, and
  what it read in the duplicate query still holds when it creates.
* `PalaceImplementsCorrections`: `ImplementsCorrections`, under the hypothesis of the
  first two. Initial states map to initial states, and each action to an `Insert`,
  `Supersede`, `Withdraw`, `Delete` or a stutter.

The inductive invariant is `IInv == TypeOK /\ LockHeld /\ Undecided /\ Acyclic /\
HeirPresent`. Acyclicity alone is not inductive: a claim adds the edge target →
successor, which closes a cycle if the successor can already reach the target.
`LockHeld` says that between `Create` and the end of a correction its handler
holds the lock; `Undecided` that the row it created, as long as it is the one
being decided, has no outgoing inverse link and nothing points at it but by a
delete and re-creation of its id. A successor without outgoing link cannot reach
anything, so the new edge is safe. `HeirPresent` needs `Undecided` too: a
compensation removes only a row that no link names.

**Doctrine** (`DoctrineProofs`): `ArchiveStaysInjective`, `NothingIsLost`,
`RevisionsAreStable`, `IngestsServe`, `OneHolderOnly`. The invariant is `Typed /\
LockHeld /\ ArchiveInjective /\ Numbered /\ RowsAgree /\ Recorded /\ Handlers`. The lock
makes the archive the holder's own; the rows are not, since plain writers take no lock.
So `Handler` says, step by step, what a handler's snapshot is still worth: `Snapshot`
from the read to the allocation (the row read is archived or can be), `Allotted` to the
create (the outgoing body is in the archive, which is why deleting its row loses
nothing), `RowStored` to the answer, `Chosen` for a rollback. Numbers are stable because
`Consistent` relates each number in use to the archive in both directions.
`NothingIsLost` exempts the documents that were deleted or `forged`: a row whose number
a plain save chose overwrites the archive's entry of that number, and the body there is
lost in the code too. Without such a row, a live number agrees with the archive
(`RowsAgree`). `OneHolderOnly` adds to it that the body of an ingest past its duplicate
query has no other holder.

**Mining and Federation** (`FederationProofs`, about the composition): `NothingSlipsAway`,
`ReviewGateHolds`, `BoundaryIsKept`. Nothing is locked here; what a handler knows is in
the job it carries, so the invariant (`FInv`) is about jobs: a pass carries only
extractions that the rules found or the model was sure of (`Cleared`), an accept one
that a reviewer asked for, a handler at the dequeue has promoted its text, a routed
write past the gates is admitted by the environment it was booted in. `Lower` is any
function: nothing depends on which spellings are one.

**Access** (`AccessProofs`)

* `RejectionsSurvive`, `RevokedStayDead`: `RejectionsPersist` and `DeadOnArrival`.
  The invariant is `Shape /\ Persisted`: the live set and the answered revocations
  are in the table, the answered ones are live while the daemon is up, and a
  handler about to arm has persisted. Restart re-establishes it because `Boot`
  reads the whole table; `OnlyVerify` shows that no other step passes the check.
* `PrivacyHolds`, `WallsHold`: `PrivateStaysPrivate` and `ExpelledStaysOut`. The
  invariant `WallInv` says what is known of a handler that waits: it asks the
  membership table only about a shared wall; past that answer it was a member of its
  wall since it arrived, or needed not to be; the walls a visible search has collected
  are its own, open ones, or in `ever`; and whoever is a member now is in `ever`, which
  only grows. `WallRule` settles the four forms of the rule once. The theorems are about
  the operations of the model; the routes of the same class start with the same check.
* `ReadersAreHarmless`: `ReadersChangeNothing`. `GateInv`: a handler past its first
  `await` has passed its gate, and no read capability opens a writing one.
* `BucketsNeverRefillFree`: `NoFreeRefill`. `Metered`: what was spent and what is left
  of a bucket are its capacity together.

**Knowledge and Import** (`ImportProofs`): `CountsAreTrue`, `RetirementIsFinal`,
`HistoryIsKept`, `TriplesAreGrounded` (`TriplesHaveNodes`). `Accounted` is not
inductive: what is counted at the answer of the second request depends on the first.
`ImpInv` adds the shape of calls and tables (`Calls`, `Graph`), of the walk (`Walk`:
what is left are rows of the source), that the importer's call is the one its place asks
for (`Asked`), and that an answered call left its row in the graph, closed if it was
asked to, or its key among the removed (`Heard`). `TriplesAreGrounded` rests on what an
add in flight has done already (`NodeInv`): past the first node write its subject has a
node or is `unmade`, past the second its object too.

**Setup** (`SetupProofs`): `IssuerIsOne`, `IssuanceFailsClosed`, `DaemonReadItsSettings`.
What a process holds is tied to the disk only while the settings are those it began
with (`Serving`, `Issuing`); what it leaves is tied to the key file that the settings
it saw lead to (`Booted`, `Minted`), which no later step disturbs because
load-or-create never replaces a key (`KeysKept`). `Rights`: each policy file's text is
among those written, and a token is covered by the one of its site; the embedded
policy lists no one, so an empty grant is the only one it would allow, and that is
refused.

**Retrieval** (`RetrievalProofs`, about the composition with `Rooms`), for any number of
requests at once among any writes:

* `LedgerIsExact`: `LedgerExact`. `LedgerInv` says of each request in flight, by its
  own number, that what the ledger holds of it, together with what was lost or pruned,
  is the first k of the events it has to write (`Page`): none before the
  first append, all at the answer. Two requests never share a number, so an append or
  a prune of one leaves the other's page alone (`PageGrows`, `PageBegins`).
* `WakeupKeepsPromise`: `WakeupPromise`. `ServeInv` carries a `Window` (what was live
  throughout is live now, what is live now was live once), and with it what each list
  read earlier is still worth: it has every row live throughout, or is full of rows no
  worse (`BestOf`, which only weakens as the window widens: `BestKept`).
  `EssentialsKeep` then shows what joining the two strata keeps, by counting the
  places that the recent stratum may take from the important one.
* `SearchServesBest`: `BestServed`. In `ServeInv`, `SearchOK` says that each row owed
  is covered by the merge so far or its wall is still ahead. `MergeOrder`,
  `MergeCovers` and `MergeDistinct` are the merge of one more wall: keeping the first
  hit of each id in order of similarity and cutting loses only rows that the kept ones
  are at least as close as.
* `AuditAccounts`: `AuditShows`, from `LedgerInv`: a served row has its event; a list
  that lacks it, though it was asked for, is cut, and what it has instead comes first
  in an order that lists an event behind no older one (time, then rank).

**Journal** (`JournalProofs`): `JournalIsReadBack` (`JournalReadsBack`) from `CountInv`:
of each turn and each diary there are at least as many rows as were acknowledged and
at most as many as were sent, and a session's rows are finite, however many indexes
there are. `NewestIs` is what `ORDER BY … DESC LIMIT` and the reversal leave of any
set; the rows shown of one index are then counted by mapping them to their numbers,
one to one (`NoMoreThan`) and, if the cut is above that index, onto
(`NoFewerThan`). `SessionsAreAsLeft` (`OwnAsLeft`), from the agreement of
each record with what its namespace last did to it; `ReposResolve` (`MostSpecific`),
which is a fact about every registry: `normalize_path` cuts a path to its first and last
character that is no blank (`TrimmedIsPath`), then to its last that is no slash
(`Trimmed`), `Matches` and `Encloses` agree on paths without a slash at
their end (`MatchEncloses`, `EnclosingMatches`), and the choice is a longest match
(`ResolvesLongest`).

Lists are where induction over data would be asked for, and it is out of the prover's
reach. The models therefore define an ordered read by what it may return (a bijection
from positions to rows that respects the order), a sum by the cardinality of a set of
pairs, and a filter by positions; the lemmas about them are first-order facts about
injections and surjections, and about the least or largest number of a set.

*Assumptions.* `None` is none of the values it stands beside; the inputs (requests,
sessions, replies, routed writes, environments, texts of files, source rows) are well
formed; tokens have a holder and capabilities; limits, clock readings, turn indexes,
similarities and the bounds of Palace are naturals; a palace has finitely many cells,
one for each id of a namespace, and every namespace has a place in the order of walls;
a wake-up's recency stratum is smaller than its limit. TLC evaluates each on the
component's run.

**Only model-checked**

* Liveness (`EverySaveAnswered`, `EveryRequestAnswered`, `ImportEnds`): fairness is out
  of the prover's reach.
* Corpus (`MatcherExact`, `TwiceMirrors`): that the iterative matcher computes what the
  recursive reference defines is an induction over the text, and with a recursive
  operator in reach the prover has no arithmetic for the rest of the module either.

## Not modelled

* Redaction, the rules' text matching and auto-capture extraction: regular
  expressions over text, without state.
* Embeddings: numerics behind a pure interface; similarity is a constant operator.
* The pi integration: conversion between pi's JSON and the core types.
* Rooms, taxonomy, tunnels, the statistics of memories, ledger and graph, status, and
  the rows an export shows: each is counts or rows of one read, which one state answers.
* Revision numbers near 2^32: `+ 1` on a `u32` is taken to be exact.
* The harness filter of the session list, the predicate filter of `find_triples`.
* Client methods that are one request each, argument parsing, printing, log set-up.
* The SQLite readers of `migration.rs` (the constant `Source`), the stance scan
  (warns only), `mark_doctrine_active` (called by tests only), the non-live
  `check_duplicate` (unused).
* The copy step of a promotion beyond its gate and walls: the text's redaction.
* Cryptography, token expiry and the refill clock of schubert: external.

## Plan

What is left: `TwiceMirrors` of Corpus, whose proof needs the reference matcher in a
module of its own and an invariant of two runs over one tree; a second connection in
the `retrieval` run, which the theorems cover for any number; the three hazards of
`PROJECT.json` that no property covers, which need a statement of what the code is
meant to do.
