------------------------------ MODULE Journal -------------------------------
(***************************************************************************)
(* Sessions, their turns, agent diaries and the repo directory.  Every route *)
(* is one database statement, so each is one action; what is hard is what    *)
(* the rows are keyed by.  A session is keyed by its id alone, whoever       *)
(* creates it; turns and diary entries get random keys, so a resent one is   *)
(* stored again; a repo is keyed by its name and found again by its path.    *)
(* A principal stands for its private namespace, and holds the capability    *)
(* each route asks for: Access models the refusals.                          *)
(***************************************************************************)
EXTENDS Queries

CONSTANTS
    Principals,
    SessionIds,
    Indexes,        \* turn indexes, a set of naturals
    Agents,
    Clock,          \* readings of the daemon's clock, a set of naturals
    Repos,          \* repo names, in a sequence: their order
    Paths,          \* paths as sequences of characters, as they are registered
    Cwds,           \* working directories to resolve
    None,
    DefaultLimit,   \* rows a read shows when the request names no limit
    MaxLimit,       \* rows a diary read shows at most
    MaxOps,         \* bound: requests, of whatever kind
    MaxFaults       \* bound: lost replies

VARIABLES
    session,    \* the sessions table: id -> [ns, ended], or None
    turns,      \* the turns table: how many rows each <<ns, session, index>> has
    diary,      \* the diary table: [ns, agent, ts], in order of writing
    repo,       \* the repo table: name -> path, or None
    sent, acked,    \* observation: turns and diary entries the client sent, and
                    \* those it had acknowledged
    last,       \* observation: what each principal last did to each session
    used        \* how much of each bound is spent

vars == <<session, turns, diary, repo, sent, acked, last, used>>

Turn == Principals \X SessionIds \X Indexes
Entry == Principals \X Agents
ToRepos == ToSet(Repos)
Chars == {"/"} \cup UNION {ToSet(path) : path \in Paths \cup Cwds}

ASSUME JournalAssumption ==
    /\ Indexes \subseteq Nat /\ Clock \subseteq Nat
    /\ DefaultLimit \in Nat /\ MaxLimit \in Nat /\ MaxOps \in Nat
    /\ Repos \in Seq(ToRepos) /\ None \notin ToRepos /\ "NotFound" \notin ToRepos
    /\ Paths \subseteq Seq(Chars) /\ Cwds \subseteq Seq(Chars)

Init ==
    /\ session = [s \in SessionIds |-> None]
    /\ turns = [t \in Turn |-> 0]
    /\ diary = <<>>
    /\ repo = [n \in ToRepos |-> None]
    /\ sent = [x \in Turn \cup Entry |-> 0] /\ acked = [x \in Turn \cup Entry |-> 0]
    /\ last = [p \in Principals |-> [s \in SessionIds |-> None]]
    /\ used = [ops |-> 0, faults |-> 0]

Spend(what) == used' = [used EXCEPT ![what] = @ + 1]

-----------------------------------------------------------------------------
(* Turns *)

UpsertTurn(t) == turns' = [turns EXCEPT ![t] = 1]

\* CREATE with a random key, in the caller's own namespace.
StoreTurn(t) == turns' = [turns EXCEPT ![t] = @ + 1]

\* The route: the session id is the path's, whatever the body says.
IngestTurn(t) ==
    /\ used.ops < MaxOps
    /\ Spend("ops")
    /\ sent' = [sent EXCEPT ![t] = @ + 1]
    /\ StoreTurn(t)
    /\ acked' = [acked EXCEPT ![t] = @ + 1]
    /\ UNCHANGED <<session, diary, repo, last>>

\* The client's answer is lost, and it does not resend: only a 429 is retried.
\* The row is there, or the request never arrived.
IngestUnheard(t, stored) ==
    /\ used.ops < MaxOps /\ used.faults < MaxFaults
    /\ used' = [used EXCEPT !.ops = @ + 1, !.faults = @ + 1]
    /\ sent' = [sent EXCEPT ![t] = @ + 1]
    /\ IF stored THEN StoreTurn(t) ELSE UNCHANGED turns
    /\ UNCHANGED <<session, diary, repo, acked, last>>

\* The first n rows of a query that orders by `later`, oldest first.
Newest(S, later, n) == {Reverse(Truncate(s, n)) : s \in Rankings(S, later)}

\* A session's rows: <<index, k>> for the k-th turn stored with this index.
TurnRows(p, s) == UNION {{i} \X (1..turns[<<p, s, i>>]) : i \in Indexes}

\* The last n by their index.
LatestTurns(p, s, n) ==
    Newest(TurnRows(p, s), {r \in TurnRows(p, s) \X TurnRows(p, s) : r[1][1] > r[2][1]}, n)

\* 50 unless the request says otherwise.
Limit(limit) == IF limit = None THEN DefaultLimit ELSE limit

\* The route.
SessionTurns(p, s, limit) == LatestTurns(p, s, Limit(limit))

-----------------------------------------------------------------------------
(* Sessions *)

\* The stored row (harness, channel and times are left out).
FromSession(p, ended) == [ns |-> p, ended |-> ended]

\* An UPSERT by id alone: another principal's row of the same id goes.
UpsertSession(p, s, ended) == session' = [session EXCEPT ![s] = FromSession(p, ended)]

\* The route: never ended, whatever the body says.
CreateSession(p, s) ==
    /\ used.ops < MaxOps
    /\ Spend("ops")
    /\ UpsertSession(p, s, "no")
    /\ last' = [last EXCEPT ![p][s] = "created"]
    /\ UNCHANGED <<turns, diary, repo, sent, acked>>

EndAnywhere(p, s) ==
    session' = [session EXCEPT ![s] = IF @ = None THEN None ELSE [@ EXCEPT !.ended = "yes"]]

\* UPDATE .. WHERE namespace and session id match: no row is no error.
UpdateEnded(p, s) ==
    session' = IF session[s] # None /\ session[s].ns = p
               THEN [session EXCEPT ![s].ended = "yes"] ELSE session

\* The route: 204 also when no session of the caller's has this id.
EndSession(p, s) ==
    /\ used.ops < MaxOps
    /\ Spend("ops")
    /\ UpdateEnded(p, s)
    /\ last' = [last EXCEPT ![p][s] = "ended"]
    /\ UNCHANGED <<turns, diary, repo, sent, acked>>

\* The rows of a namespace (the order, the harness filter and the cut are left
\* out).
OwnSessions(p) == {s \in SessionIds : session[s] # None /\ session[s].ns = p}

\* The route.
ListSessions(p) == [s \in OwnSessions(p) |-> session[s].ended]

-----------------------------------------------------------------------------
(* Diaries *)

\* The stored row: ordered by the daemon's clock, not by the entry's timestamp.
FromEntry(p, a, now) == [ns |-> p, agent |-> a, ts |-> now]

\* CREATE with a random key.
AppendEntry(p, a) == \E now \in Clock : diary' = Append(diary, FromEntry(p, a, now))

\* The route.
WriteDiary(p, a) ==
    /\ used.ops < MaxOps
    /\ Spend("ops")
    /\ sent' = [sent EXCEPT ![<<p, a>>] = @ + 1]
    /\ AppendEntry(p, a)
    /\ acked' = [acked EXCEPT ![<<p, a>>] = @ + 1]
    /\ UNCHANGED <<session, turns, repo, last>>

\* As for a turn: the entry is there, or it never arrived.
DiaryUnheard(p, a, stored) ==
    /\ used.ops < MaxOps /\ used.faults < MaxFaults
    /\ used' = [used EXCEPT !.ops = @ + 1, !.faults = @ + 1]
    /\ sent' = [sent EXCEPT ![<<p, a>>] = @ + 1]
    /\ IF stored THEN AppendEntry(p, a) ELSE UNCHANGED diary
    /\ UNCHANGED <<session, turns, repo, acked, last>>

\* An agent's rows, each by its place in the table.
EntryRows(p, a) == {i \in DOMAIN diary : diary[i].ns = p /\ diary[i].agent = a}

\* The last n by the clock: entries of one millisecond come in any order.
DiaryRows(p, a, n) ==
    Newest(EntryRows(p, a),
           {r \in EntryRows(p, a) \X EntryRows(p, a) : diary[r[1]].ts > diary[r[2]].ts}, n)

\* At most 500.
DiaryLimit(limit) == IF Limit(limit) < MaxLimit THEN Limit(limit) ELSE MaxLimit

\* The route.
ReadDiary(p, a, limit) == DiaryRows(p, a, DiaryLimit(limit))

-----------------------------------------------------------------------------
(* The repo directory *)

\* An UPSERT by name of the path as it was sent.
UpsertRepo(name, path) == repo' = [repo EXCEPT ![name] = path]

\* The route.
RegisterRepo(name, path) ==
    /\ used.ops < MaxOps
    /\ Spend("ops")
    /\ UpsertRepo(name, path)
    /\ UNCHANGED <<session, turns, diary, sent, acked, last>>

\* In order of their names: each by its place in Repos.
ListRepos == {i \in DOMAIN Repos : repo[Repos[i]] # None}

\* The blanks at both ends go.
Trim(path) ==
    LET ink == {i \in 1..Len(path) : path[i] # " "} IN
    IF ink = {} THEN <<>>
    ELSE SubSeq(path, CHOOSE i \in ink : \A j \in ink : i <= j,
                      CHOOSE i \in ink : \A j \in ink : j <= i)

\* The slashes at the end go, except from a path of one character.
TrimSlashes(path) ==
    IF Len(path) <= 1 THEN path
    ELSE LET body == {i \in 1..Len(path) : path[i] # "/"} IN
         IF body = {} THEN <<>> ELSE SubSeq(path, 1, CHOOSE i \in body : \A j \in body : j <= i)

NormalizePath(path) == TrimSlashes(Trim(path))

MatchesPrefix(cwd, path) == IsPrefix(path, cwd)

Matches(cwd, path) == cwd = path \/ IsPrefix(Append(path, "/"), cwd)

\* The longest matching path, and the last in the list of those that tie.
Innermost(cwd) ==
    LET dir == NormalizePath(cwd)
        hits == {i \in ListRepos : Matches(dir, repo[Repos[i]])}
        size(i) == Len(repo[Repos[i]]) IN
    IF hits = {} THEN None
    ELSE Repos[CHOOSE i \in hits : \A j \in hits : size(j) < size(i) \/ (size(j) = size(i) /\ j <= i)]

\* The route: 404 when no repo matches.
ResolveRepo(cwd) ==
    LET r == Innermost(cwd) IN IF r = None THEN "NotFound" ELSE r

-----------------------------------------------------------------------------

Next ==
    \/ \E t \in Turn : IngestTurn(t)
    \/ \E t \in Turn, stored \in BOOLEAN : IngestUnheard(t, stored)
    \/ \E p \in Principals, s \in SessionIds : CreateSession(p, s) \/ EndSession(p, s)
    \/ \E p \in Principals, a \in Agents : WriteDiary(p, a)
    \/ \E p \in Principals, a \in Agents, stored \in BOOLEAN : DiaryUnheard(p, a, stored)
    \/ \E n \in ToRepos, path \in Paths : RegisterRepo(n, path)

Spec == Init /\ [][Next]_vars

-----------------------------------------------------------------------------
(* Properties *)

\* The list has the turns of a session in order; of each at most as many rows as
\* were sent, and at least as many as were acknowledged, unless the list is full
\* of turns that come no earlier.
TurnsRead(p, s, list, n) ==
    LET shown(i) == Cardinality({k \in 1..Len(list) : list[k][1] = i}) IN
    /\ Len(list) <= n
    /\ \A k, l \in 1..Len(list) : k < l => list[k][1] <= list[l][1]
    /\ \A i \in Indexes :
        /\ shown(i) <= sent[<<p, s, i>>]
        /\ \/ acked[<<p, s, i>>] <= shown(i)
           \/ Len(list) = n /\ \A k \in 1..Len(list) : list[k][1] >= i

\* Likewise for an agent's entries, in order of the clock.
EntriesRead(p, a, list, n) ==
    /\ Len(list) <= n /\ Len(list) <= sent[<<p, a>>]
    /\ acked[<<p, a>>] <= Len(list) \/ Len(list) = n
    /\ \A k, l \in 1..Len(list) :
        k < l => list[k] # list[l] /\ diary[list[k]].ts <= diary[list[l]].ts
    /\ \A i \in DOMAIN diary : diary[i].ns = p /\ diary[i].agent = a =>
        \/ \E k \in 1..Len(list) : list[k] = i
        \/ Len(list) = n /\ \A k \in 1..Len(list) : diary[i].ts <= diary[list[k]].ts

\* What was journalled is read back, whatever replies were lost, whoever uses the
\* same session id, whatever order the database gives to rows that tie, and
\* whatever the clock does: a read shows what was acknowledged, in order, and
\* nothing more often than it was sent, and a limit cuts off the oldest only.
JournalReadsBack ==
    \A p \in Principals, limit \in {None} \cup 0..MaxOps :
        /\ \A s \in SessionIds : \A list \in SessionTurns(p, s, limit) :
            TurnsRead(p, s, list, Limit(limit))
        /\ \A a \in Agents : \A list \in ReadDiary(p, a, limit) :
            EntriesRead(p, a, list, DiaryLimit(limit))

\* A session that a principal lists as its own is as that principal left it:
\* ended if it ended it, open if it created it since.  Another principal's use
\* of the same id can take the record away, but neither end nor reopen it.
OwnAsLeft ==
    \A p \in Principals : \A s \in OwnSessions(p) :
        ListSessions(p)[s] = IF last[p][s] = "ended" THEN "yes" ELSE "no"

\* path is an ancestor of dir, or dir itself, directory by directory.
Encloses(path, dir) ==
    LET top == TrimSlashes(path) IN
    \/ top = <<"/">> \/ dir = top
    \/ \E i \in 1..Len(dir) : dir[i] = "/" /\ SubSeq(dir, 1, i - 1) = top

EndsInSlash(path) == path # <<>> /\ path[Len(path)] = "/"

\* A working directory resolves to a repo that contains it, never to a sibling
\* whose name it begins with, and to the innermost one; a path that was
\* registered with a slash at its end, or the root, is passed over.
MostSpecific ==
    \A cwd \in Cwds :
        LET r == ResolveRepo(cwd)
            dir == NormalizePath(cwd) IN
        /\ r # "NotFound" => Encloses(repo[r], dir)
        /\ \A n \in ToRepos :
            repo[n] # None /\ ~EndsInSlash(repo[n]) /\ Encloses(repo[n], dir) =>
                r # "NotFound" /\ Len(repo[r]) >= Len(repo[n])

=============================================================================
