------------------------------- MODULE Corpus -------------------------------
(***************************************************************************)
(* `ijima doctrine ingest`: a tree of markdown files is read, files are      *)
(* picked by glob, each becomes an entry, and the entries are posted to      *)
(* the daemon one after the other.  The daemon keeps one live row per body:   *)
(* an entry whose body another row holds is answered with that row.  The     *)
(* tree is edited between the runs, runs are throttled and break off.        *)
(*                                                                         *)
(* POST /doctrine is one step here; its round trips are module Doctrine's.   *)
(* A character is a string of length one, a text is a sequence of them.      *)
(***************************************************************************)
EXTENDS Naturals, FiniteSets, Sequences, SequencesExt

CONSTANTS
    Files,          \* relpaths of the .md files, sorted, as sequences of characters
    Bodies,         \* file contents, as far as they differ
    Ids,            \* ids that frontmatter may carry, no relpaths: a sequence, their order
    Globs,          \* the <<includes, excludes>> that runs are given
    Alphabet,       \* the characters in their order, as a sequence
    Patterns, Texts,    \* what the matcher is compared with fnmatch on
    None,
    MaxRetries,     \* ingest_to_daemon: 6
    MaxRuns,        \* bound: ingest commands
    MaxEdits,       \* bound: edits of the tree
    MaxFaults       \* bound: throttled, refused and lost requests

-----------------------------------------------------------------------------
(* The matcher *)

Order(c) == CHOOSE i \in 1..Len(Alphabet) : Alphabet[i] = c

At(p, i) == i <= Len(p)

RECURSIVE ClosingFrom(_, _)
ClosingFrom(p, i) ==
    IF i > Len(p) THEN 0 ELSE IF p[i] = "]" THEN i ELSE ClosingFrom(p, i + 1)

\* class_len: where the class that opens at i is closed, or 0.
ClassLen(p, i) == ClosingFrom(p, IF At(p, i + 1) /\ p[i + 1] = "!" THEN i + 2 ELSE i + 1)

\* The characters between i and the bracket at e: ranges first, then singles.
RECURSIVE Listed(_, _, _, _)
Listed(p, i, e, c) ==
    IF i >= e THEN FALSE
    ELSE IF i + 2 < e /\ p[i + 1] = "-"
         THEN (Order(p[i]) <= Order(c) /\ Order(c) <= Order(p[i + 2])) \/ Listed(p, i + 3, e, c)
         ELSE p[i] = c \/ Listed(p, i + 1, e, c)

ClassMatches(p, i, e, c) ==
    LET neg == p[i + 1] = "!" IN Listed(p, IF neg THEN i + 2 ELSE i + 1, e, c) # neg

\* One character of the text against the pattern at i: where to go on, or 0.
Advance(p, i, c) ==
    IF ~At(p, i) THEN 0
    ELSE IF p[i] = "?" THEN i + 1
    ELSE IF p[i] = "[" /\ ClassLen(p, i) # 0
         THEN IF ClassMatches(p, i, ClassLen(p, i), c) THEN ClassLen(p, i) + 1 ELSE 0
    ELSE IF p[i] = c THEN i + 1 ELSE 0

RECURSIVE ScanNoRetry(_, _, _, _, _, _)
ScanNoRetry(p, t, i, j, star, from) ==
    IF j > Len(t) THEN \A k \in i..Len(p) : p[k] = "*"
    ELSE IF At(p, i) /\ p[i] = "*" THEN ScanNoRetry(p, t, i + 1, j, i, j)
    ELSE IF Advance(p, i, t[j]) # 0 THEN ScanNoRetry(p, t, Advance(p, i, t[j]), j + 1, star, from)
    ELSE IF star # 0 THEN ScanNoRetry(p, t, star + 1, j + 1, star, j)
    ELSE FALSE

FnMatchNoRetry(p, t) == ScanNoRetry(p, t, 1, 1, 0, 0)

\* The loop: i and j in pattern and text, the last star and where it was tried.
RECURSIVE Scan(_, _, _, _, _, _)
Scan(p, t, i, j, star, from) ==
    IF j > Len(t) THEN \A k \in i..Len(p) : p[k] = "*"
    ELSE IF At(p, i) /\ p[i] = "*" THEN Scan(p, t, i + 1, j, i, j)
    ELSE IF Advance(p, i, t[j]) # 0 THEN Scan(p, t, Advance(p, i, t[j]), j + 1, star, from)
    ELSE IF star # 0 THEN Scan(p, t, star + 1, from + 1, star, from + 1)
    ELSE FALSE

FnMatch(p, t) == Scan(p, t, 1, 1, 0, 0)

-----------------------------------------------------------------------------
(* The tree and the daemon *)

VARIABLES
    tree,       \* relpath -> [id, body], or None
    row,        \* the daemon's doctrine: id -> [body, live], or None
    run,        \* the command: [at, plan, next, tries, fresh]
    done,       \* observation: Ok runs over the tree as it is, in a row
    used        \* how much of each bound is spent

vars == <<tree, row, run, done, used>>

Rel == ToSet(Files)
RowIds == Rel \cup ToSet(Ids)
Idle == [at |-> "idle", plan |-> <<>>, next |-> 1, tries |-> 0, fresh |-> FALSE]

\* frontmatter_id: None for a file without frontmatter, or without an id in it.
Content == [id : ToSet(Ids) \cup {None}, body : Bodies]

Init ==
    /\ tree \in [Rel -> {[id |-> None, body |-> b] : b \in Bodies} \cup {None}]
    /\ row = [i \in RowIds |-> None]
    /\ run = Idle /\ done = 0
    /\ used = [runs |-> 0, edits |-> 0, faults |-> 0]

Spend(what) == used' = [used EXCEPT ![what] = @ + 1]

\* Empty includes take every file; an exclude always wins.
Picked(includes, excludes, f) ==
    /\ includes = {} \/ \E p \in includes : FnMatch(p, f)
    /\ ~\E p \in excludes : FnMatch(p, f)

\* A file's own id, or one derived from its relpath.
Entry(f) == [id |-> IF tree[f].id # None THEN tree[f].id ELSE f, body |-> tree[f].body]

\* read_doctrine_tree: the entries in the order of their paths.
ReadDoctrineTree(includes, excludes) ==
    LET Takes(f) == tree[f] # None /\ Picked(includes, excludes, f)
        picked == SelectSeq(Files, Takes)
    IN  [k \in 1..Len(picked) |-> Entry(picked[k])]

TopLevel == {f \in Rel : tree[f] # None /\ ~Contains(f, "/")}

\* parse_doctrine_file, without a tree: a file that has no id is an error.
ParseDoctrineFile(f) == tree[f].id # None

\* read_doctrine_dir: the files beside each other, by id, else in any order.
ReadDoctrineDir ==
    LET Rank(f) == CHOOSE n \in 1..Len(Ids) : Ids[n] = tree[f].id
        Sorted(s) == \A j, k \in 1..Len(s) : j < k => Rank(s[j]) <= Rank(s[k])
    IN  {[k \in 1..Len(s) |-> Entry(s[k])] : s \in {t \in SetToSeqs(TopLevel) : Sorted(t)}}

Live(i) == row[i] # None /\ row[i].live

Holders(body) == {i \in RowIds : Live(i) /\ row[i].body = body}

CommitKeepStale(e) ==
    IF Holders(e.body) # {} THEN row
    ELSE [row EXCEPT ![e.id] = [body |-> e.body, live |-> TRUE]]

\* commit_doctrine_ingest: served already, or by another row (its own stale one
\* is retired), or its row is replaced.
Commit(e) ==
    IF e.id \in Holders(e.body) THEN row
    ELSE IF Holders(e.body) # {}
    THEN IF Live(e.id) THEN [row EXCEPT ![e.id].live = FALSE] ELSE row
    ELSE [row EXCEPT ![e.id] = [body |-> e.body, live |-> TRUE]]

-----------------------------------------------------------------------------
(* ijima doctrine ingest *)

\* The tree is read once; nothing is posted of a plan that cannot be built.
Start(g) ==
    /\ run.at = "idle" /\ used.runs < MaxRuns
    /\ Spend("runs")
    /\ run' = [Idle EXCEPT !.at = "post", !.plan = ReadDoctrineTree(g[1], g[2]),
                           !.fresh = (g = <<{}, {}>>)]
    /\ UNCHANGED <<tree, row, done>>

\* --dir: one file that does not parse ends the command.
StartDir ==
    /\ run.at = "idle" /\ used.runs < MaxRuns
    /\ Spend("runs")
    /\ IF \A f \in TopLevel : ParseDoctrineFile(f)
       THEN \E plan \in ReadDoctrineDir : run' = [Idle EXCEPT !.at = "post", !.plan = plan]
       ELSE run' = Idle
    /\ UNCHANGED <<tree, row, done>>

\* --dry-run prints the plan.
DryRun == run.at = "post" /\ run.next = 1 /\ run' = Idle /\ UNCHANGED <<tree, row, done, used>>

Posting == run.at = "post" /\ run.next <= Len(run.plan)

\* The entry is in: the next one starts without a retry spent.
Post ==
    /\ Posting
    /\ row' = Commit(run.plan[run.next])
    /\ run' = [run EXCEPT !.next = @ + 1, !.tries = 0]
    /\ UNCHANGED <<tree, done, used>>

Break == run' = Idle

\* 429 or 503: wait and try the entry again, MaxRetries times at most.
Throttled ==
    /\ Posting /\ used.faults < MaxFaults
    /\ Spend("faults")
    /\ IF run.tries = MaxRetries THEN Break
       ELSE run' = [run EXCEPT !.tries = @ + 1]
    /\ UNCHANGED <<tree, row, done>>

\* Any other answer, or none: the command ends, and what was posted stays.
Fail(committed) ==
    /\ Posting /\ used.faults < MaxFaults
    /\ Spend("faults")
    /\ Break
    /\ row' = IF committed THEN Commit(run.plan[run.next]) ELSE row
    /\ UNCHANGED <<tree, done>>

\* Ok(count): every entry was answered.
Finish ==
    /\ run.at = "post" /\ run.next = Len(run.plan) + 1
    /\ done' = IF run.fresh THEN done + 1 ELSE done
    /\ run' = Idle
    /\ UNCHANGED <<tree, row, used>>

\* The tree is edited; a plan that was read before is of another tree.
Edit(f, content) ==
    /\ used.edits < MaxEdits /\ tree[f] # content
    /\ Spend("edits")
    /\ tree' = [tree EXCEPT ![f] = content]
    /\ done' = 0
    /\ run' = [run EXCEPT !.fresh = FALSE]
    /\ UNCHANGED row

Step == Post \/ Throttled \/ Finish \/ \E b \in BOOLEAN : Fail(b)

Next ==
    \/ \E g \in Globs : Start(g)
    \/ StartDir
    \/ DryRun
    \/ Step
    \/ \E f \in Rel, c \in Content \cup {None} : Edit(f, c)

Spec == Init /\ [][Next]_vars

-----------------------------------------------------------------------------
(* Properties *)

\* The reference is Python's fnmatch: a pattern is a list of items, each a star
\* or a set of characters, and nothing of the loop above is used to read it.
Characters == ToSet(Alphabet)

\* Where a class whose first character is at b ends: one "]" may come first.
Closings(p, b) == {e \in b + 1..Len(p) : p[e] = "]"}
Closing(p, b) == CHOOSE e \in Closings(p, b) : \A f \in Closings(p, b) : e <= f

\* The hyphens that make a range, found from k on; a range is three characters.
RECURSIVE Hyphens(_, _)
Hyphens(s, k) ==
    LET found == {h \in k..Len(s) - 1 : s[h] = "-"} IN
    IF found = {} THEN {}
    ELSE LET h == CHOOSE i \in found : \A j \in found : i <= j IN {h} \cup Hyphens(s, h + 3)

Between(a, b) == {c \in Characters : Order(a) <= Order(c) /\ Order(c) <= Order(b)}

\* The characters of a class.
Members(s) ==
    LET hyphens == Hyphens(s, 2) IN
    UNION {Between(s[h - 1], s[h + 1]) : h \in hyphens}
    \cup {s[i] : i \in {j \in 1..Len(s) : \A h \in hyphens : j \notin h - 1..h + 1}}

Star == [star |-> TRUE, set |-> {}]
OneOf(S) == [star |-> FALSE, set |-> S]

\* The items of the pattern from i on; a class that is not closed is a bracket.
RECURSIVE Items(_, _)
Items(p, i) ==
    IF i > Len(p) THEN <<>>
    ELSE IF p[i] = "*" THEN <<Star>> \o Items(p, i + 1)
    ELSE IF p[i] = "?" THEN <<OneOf(Characters)>> \o Items(p, i + 1)
    ELSE LET neg == i < Len(p) /\ p[i + 1] = "!"
             b == IF neg THEN i + 2 ELSE i + 1 IN
         IF p[i] # "[" \/ Closings(p, b) = {} THEN <<OneOf({p[i]})>> \o Items(p, i + 1)
         ELSE LET e == Closing(p, b)
                  class == Members(SubSeq(p, b, e - 1)) IN
              <<OneOf(IF neg THEN Characters \ class ELSE class)>> \o Items(p, e + 1)

\* A star is any run of characters, every other item one character.
RECURSIVE Denotes(_, _)
Denotes(items, t) ==
    IF items = <<>> THEN t = <<>>
    ELSE IF items[1].star
    THEN \E k \in 0..Len(t) : Denotes(Tail(items), SubSeq(t, k + 1, Len(t)))
    ELSE t # <<>> /\ t[1] \in items[1].set /\ Denotes(Tail(items), Tail(t))

Agrees(p) == LET items == Items(p, 1) IN \A t \in Texts : FnMatch(p, t) = Denotes(items, t)

\* A "]" comes right after "[" or "[!": a member of the class to Python, and the
\* end of it to class_len.
BracketFirst(p) ==
    \E i \in 1..Len(p) : \E k \in {i + 1, i + 2} :
        p[i] = "[" /\ At(p, k) /\ p[k] = "]" /\ (k = i + 2 => p[i + 1] = "!")

\* The matcher depends on the pattern alone: the state it is compared in.
Once == used.runs = 0 /\ tree = [f \in Rel |-> None]

\* fn_match's loop takes a path exactly when Python's fnmatch does, for every
\* pattern whose classes do not begin with a "]": to go back to the last star
\* only, and never to an earlier one, loses nothing, however many stars, classes,
\* ranges and unclosed brackets there are.
MatcherExact == Once => \A p \in Patterns : BracketFirst(p) \/ Agrees(p)

\* The plan of a run has one id per file.
DistinctIds ==
    \A f, g \in Rel : tree[f] # None /\ tree[g] # None /\ f # g => Entry(f).id # Entry(g).id

\* Two runs always have: when the files have different ids and two runs in a
\* row ended Ok over the tree as it is, each file's body is served, by exactly
\* one live row, and no file's own row serves anything else; whatever swaps and
\* moves of bodies between files there were, and whatever runs broke off.
TwiceMirrors ==
    run.at = "idle" /\ done >= 2 /\ DistinctIds =>
        \A f \in Rel : tree[f] # None =>
            /\ Cardinality(Holders(tree[f].body)) = 1
            /\ Live(Entry(f).id) => row[Entry(f).id].body = tree[f].body

=============================================================================
