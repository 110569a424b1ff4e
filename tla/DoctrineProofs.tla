--------------------------- MODULE DoctrineProofs ---------------------------
(***************************************************************************)
(* Proofs about Doctrine, for any number of clients, documents and bodies.   *)
(*                                                                         *)
(* Everything rests on the doctrine lock: one handler at a time is between   *)
(* its first read and its answer, so the archive it read is the archive it   *)
(* writes.  The rows are another matter, since plain writers take no lock;   *)
(* the invariant says what a handler's snapshot is still worth after them.   *)
(***************************************************************************)
EXTENDS Doctrine, FiniteSetTheorems, TLAPS

-----------------------------------------------------------------------------
(* The inductive invariant *)

IngestSteps == {"read", "dedup", "canonical", "retire", "allocate", "delete", "check",
                "create", "recall"}
RollbackSteps == {"select", "upsert"}
Steps == {"idle", "lock", "flags"} \cup IngestSteps \cup RollbackSteps

Locals == [live : LiveRow \cup {None}, canonical : Docs \cup {None}, revision : Nat,
           content : Bodies \cup {None}]

\* Which request each step of a handler belongs to.
Control ==
    /\ lock \in Clients \cup {None}
    /\ pc \in [Clients -> Steps]
    /\ req \in [Clients -> Asks \cup {None}]
    /\ loc \in [Clients -> Locals]
    /\ ok \in [Clients -> BOOLEAN]
    /\ \A c \in Clients :
        /\ pc[c] # "idle" => req[c] \in Asks
        /\ pc[c] \in IngestSteps => req[c].op = "ingest"
        /\ pc[c] \in RollbackSteps => req[c].op = "rollback"
        /\ pc[c] = "upsert" => loc[c].live # None
        /\ pc[c] \in {"upsert", "flags"} => loc[c].content # None

Typed ==
    /\ row \in [Docs -> LiveRow \cup {None}]
    /\ archive \in [Docs -> SUBSET Version]
    /\ named \subseteq Docs \X Nat \X Bodies
    /\ gone \subseteq Docs /\ forged \subseteq Docs
    /\ used \in [ingests : Nat, rollbacks : Nat, plain : Nat, faults : Nat]
    /\ Control

Working(c) == pc[c] \notin {"idle", "lock"}

LockHeld == \A c \in Clients : Working(c) => lock = c

\* An archive's numbers have a largest.
Numbered ==
    \A d \in Docs :
        \E n \in {0} \cup {v.version : v \in archive[d]} : \A v \in archive[d] : v.version <= n

\* A body under a number, against the archive of d: the number is in it exactly
\* when the body is, and then they are one entry.  A plain save that brings a
\* number of its own ends this for its doc.
Consistent(d, n, body) ==
    d \in forged \/ \A v \in archive[d] : v.version = n <=> v.content = body

\* An answered body is in the archive, under the answered number if only
\* doctrine operations wrote to the wall.
InArchive(d, n, body) ==
    \E v \in archive[d] : v.content = body /\ (used.plain = 0 => v.version = n)

\* The same of a row.
InRow(r, n, body) ==
    r # None /\ r.content = body /\ (used.plain = 0 => r.revision = n)

\* Rows that doctrine operations wrote agree with the archive.
RowsAgree ==
    /\ \A d \in Docs : Present(d) /\ row[d].revision # None
                         => Consistent(d, row[d].revision, row[d].content)
    /\ used.plain = 0 => gone = {} /\ forged = {} /\ \A d \in Docs : Present(d) => row[d].revision # None

Recorded ==
    \A t \in named :
        t[1] \in gone \cup forged \/ InArchive(t[1], t[2], t[3]) \/ InRow(row[t[1]], t[2], t[3])

\* Everything answered about d is in the archive, or in the row r.
Kept(d, r) ==
    \A t \in named : t[1] = d =>
        d \in gone \cup forged \/ InArchive(d, t[2], t[3]) \/ InRow(r, t[2], t[3])

\* From the read to the allocation: the snapshot is archived or can be, the row
\* is still the one read unless it is a plain writer's.
Snapshot(c) ==
    LET d == req[c].id
        live == loc[c].live
    IN  /\ live # None /\ live.revision # None => Consistent(d, live.revision, live.content)
        /\ d \notin forged /\ Present(d) /\ row[d].revision # None =>
              live # None /\ live.revision = row[d].revision /\ live.content = row[d].content
        /\ used.plain = 0 => live = row[d]
        /\ Kept(d, live)

\* From the allocation to the create: the outgoing body is archived.
Allotted(c) ==
    /\ Consistent(req[c].id, loc[c].revision, req[c].content)
    /\ Kept(req[c].id, None)

\* The canonical row of an ingest that finds its body under another id.
CanonicalHolds(c) ==
    LET k == loc[c].canonical
    IN  /\ k \in Docs \ {req[c].id}
        /\ k \in gone \/ (Present(k) /\ row[k].content = req[c].content)
        /\ used.plain = 0 => Live(k) /\ (pc[c] = "retire" => row[k].revision = loc[c].revision)

\* From the create to the answer.
RowStored(c) ==
    LET d == req[c].id
    IN  /\ d \in gone \/ (Present(d) /\ row[d].content = req[c].content)
        /\ used.plain = 0 => Live(d) /\ row[d].revision = loc[c].revision

\* The version a rollback has selected.
Chosen(c) ==
    req[c].id \in forged
      \/ \E v \in archive[req[c].id] : v.version = loc[c].revision /\ v.content = loc[c].content

Handler(c) ==
    /\ pc[c] \in {"dedup", "canonical", "retire", "allocate"} => Snapshot(c)
    /\ pc[c] \in {"canonical", "retire"} => CanonicalHolds(c)
    /\ pc[c] \in {"delete", "check", "create"} => Allotted(c)
    /\ pc[c] = "recall" \/ (pc[c] = "flags" /\ req[c].op = "ingest") => RowStored(c)
    /\ pc[c] = "upsert" \/ (pc[c] = "flags" /\ req[c].op = "rollback") => Chosen(c)
    /\ pc[c] = "upsert" => Kept(req[c].id, None)

Handlers == \A c \in Clients : Handler(c)

IInv == Typed /\ LockHeld /\ ArchiveInjective /\ Numbered /\ RowsAgree /\ Recorded /\ Handlers

-----------------------------------------------------------------------------
(* Requests, numbers and archives *)

LEMMA AskParts ==
    ASSUME NEW r \in Asks
    PROVE  /\ r.id \in Docs
           /\ r.op \in {"ingest", "rollback"}
           /\ r.op = "ingest" => r.content \in Bodies
  BY DEF Asks

\* The largest number of an archive is one.
LEMMA MaxIsLargest ==
    ASSUME Typed, Numbered, NEW d \in Docs
    PROVE  /\ MaxVersion(archive[d]) \in Nat
           /\ \A v \in archive[d] : v.version <= MaxVersion(archive[d])
<1>1. \A v \in archive[d] : v.version \in Nat
  BY DEF Typed, Version
<1>2. PICK n \in {0} \cup {v.version : v \in archive[d]} : \A v \in archive[d] : v.version <= n
  BY DEF Numbered
<1>3. /\ MaxVersion(archive[d]) \in {0} \cup {v.version : v \in archive[d]}
      /\ \A v \in archive[d] : v.version <= MaxVersion(archive[d])
  BY <1>2 DEF MaxVersion
<1> QED
  BY <1>1, <1>3

\* A row that can be archived: its number, if it has one, agrees with the archive.
Archivable(d, live) ==
    live \in LiveRow /\ (live.revision # None => Consistent(d, live.revision, live.content))

\* The entry archive_outgoing would write.
Entry(d, live) ==
    [version |-> OutgoingVersion(d, live), content |-> live.content, active |-> FALSE]

\* archive_outgoing adds one entry, or nothing; it takes another one's place only
\* if the row carries a number a plain writer gave it.
LEMMA ArchivedAdds ==
    ASSUME Typed, Numbered, NEW d \in Docs, NEW live, Archivable(d, live)
    PROVE  /\ OutgoingVersion(d, live) \in Nat
           /\ d \notin forged /\ live.revision # None => OutgoingVersion(d, live) = live.revision
           /\ \/ /\ Archived(d, live) = archive[d]
                 /\ \E v \in archive[d] :
                       v.version = OutgoingVersion(d, live) /\ v.content = live.content
              \/ /\ Archived(d, live) = {v \in archive[d] : v.version # OutgoingVersion(d, live)}
                                          \cup {Entry(d, live)}
                 /\ Entry(d, live) \in Version
                 /\ \A v \in archive[d] : v.content # live.content
                 /\ d \notin forged =>
                       \A v \in archive[d] : v.version # OutgoingVersion(d, live)
<1> DEFINE n == OutgoingVersion(d, live)
           entry == [version |-> n, content |-> live.content, active |-> FALSE]
<1>1. /\ live \in LiveRow /\ live # None /\ live.content \in Bodies
      /\ live.revision \in Nat \cup {None}
  BY NoneNowhere DEF Archivable, LiveRow
<1>2. MaxVersion(archive[d]) \in Nat /\ \A v \in archive[d] : v.version <= MaxVersion(archive[d])
  BY MaxIsLargest
<1>3. \A v \in archive[d] : v.version \in Nat
  BY DEF Typed, Version
<1>4. CASE WithBody(d, live.content) # {}
  <2> DEFINE w == CHOOSE v \in WithBody(d, live.content) : TRUE
  <2>1. w \in archive[d] /\ w.content = live.content
    BY <1>4 DEF WithBody
  <2>2. n = w.version
    BY <1>4 DEF OutgoingVersion
  <2>3. d \notin forged /\ live.revision # None => w.version = live.revision
    BY <2>1 DEF Archivable, Consistent
  <2>4. Archived(d, live) = archive[d]
    BY <1>4 DEF Archived
  <2> QED
    BY <1>3, <1>4, <2>1, <2>2, <2>3, <2>4
<1>5. CASE WithBody(d, live.content) = {}
  <2>1. n = IF live.revision # None THEN live.revision ELSE MaxVersion(archive[d]) + 1
    BY <1>5 DEF OutgoingVersion
  <2>2. \A v \in archive[d] : v.content # live.content
    BY <1>5 DEF WithBody
  <2>3. n \in Nat
    BY <1>1, <1>2, <2>1
  <2>4. d \notin forged => \A v \in archive[d] : v.version # n
    BY <1>1, <1>2, <1>3, <2>1, <2>2 DEF Archivable, Consistent
  <2>5. Archived(d, live) = {v \in archive[d] : v.version # n} \cup {entry}
    BY <1>1, <1>5 DEF Archived
  <2>6. entry \in Version
    BY <1>1, <2>3 DEF Version
  <2> QED
    BY <1>5, <2>1, <2>2, <2>3, <2>4, <2>5, <2>6 DEF Entry
<1> QED
  BY <1>4, <1>5

\* The revision half of commit_doctrine_ingest allots a number, ...
LEMMA AllocatedNat ==
    ASSUME Typed, Numbered, NEW d \in Docs, NEW body \in Bodies,
           NEW live, live = None \/ Archivable(d, live)
    PROVE  Allocated(d, live, body) \in Nat
<1> DEFINE n == Allocated(d, live, body)
           max == MaxVersion(archive[d])
           out == IF live = None THEN 0 ELSE OutgoingVersion(d, live)
           rev == IF live = None \/ live.revision = None THEN 0 ELSE live.revision
<1>1. max \in Nat
  BY MaxIsLargest
<1>2. rev \in Nat /\ out \in Nat
  BY ArchivedAdds DEF Archivable, LiveRow
<1>3. WithBody(d, body) # {} => (CHOOSE v \in WithBody(d, body) : TRUE).version \in Nat
  BY DEF WithBody, Typed, Version
<1>4. Larger(Larger(max, rev), out) + 1 \in Nat
  <2> HIDE DEF max, rev, out
  <2> QED
    BY <1>1, <1>2 DEF Larger
<1> QED
  BY <1>2, <1>3, <1>4 DEF Allocated

\* ... which agrees with the archive as archive_outgoing leaves it.
LEMMA AllocatedFits ==
    ASSUME Typed, Numbered, ArchiveInjective, NEW d \in Docs \ forged, NEW body \in Bodies,
           NEW live, live = None \/ Archivable(d, live)
    PROVE  \A v \in Archived(d, live) : v.version = Allocated(d, live, body) <=> v.content = body
<1> DEFINE n == Allocated(d, live, body)
           max == MaxVersion(archive[d])
           out == IF live = None THEN 0 ELSE OutgoingVersion(d, live)
           rev == IF live = None \/ live.revision = None THEN 0 ELSE live.revision
<1>1. max \in Nat /\ \A v \in archive[d] : v.version <= max
  BY MaxIsLargest
<1>2. \A v \in archive[d] : v.version \in Nat
  BY DEF Typed, Version
<1>3. rev \in Nat /\ out \in Nat
  BY ArchivedAdds DEF Archivable, LiveRow
<1>4. /\ archive[d] \subseteq Archived(d, live)
      /\ live = None => Archived(d, live) = archive[d]
      /\ live # None => \A v \in Archived(d, live) \ archive[d] :
            v.version = out /\ v.content = live.content
      /\ live # None => \E v \in Archived(d, live) : v.version = out /\ v.content = live.content
      /\ \A v, w \in Archived(d, live) :
            v.version = w.version <=> v.content = w.content
  <2>1. \A v, w \in archive[d] : v.version = w.version <=> v.content = w.content
    BY DEF ArchiveInjective
  <2>2. CASE live = None
    BY <2>1, <2>2 DEF Archived
  <2>3. CASE live # None /\ Archived(d, live) = archive[d]
    <3>1. Archivable(d, live)
      BY <2>3
    <3>2. Entry(d, live).version = OutgoingVersion(d, live)
      BY DEF Entry
    <3>3. \E v \in archive[d] :
             v.version = OutgoingVersion(d, live) /\ v.content = live.content
      BY <2>3, <3>1, <3>2, ArchivedAdds
    <3> QED
      BY <2>1, <2>3, <3>3
  <2>4. CASE live # None /\ Archived(d, live) # archive[d]
    <3>1. Archivable(d, live)
      BY <2>4
    <3>2. /\ Archived(d, live) = {v \in archive[d] : v.version # OutgoingVersion(d, live)}
                                    \cup {Entry(d, live)}
          /\ \A v \in archive[d] :
                v.version # OutgoingVersion(d, live) /\ v.content # live.content
      BY <2>4, <3>1, ArchivedAdds
    <3>3. /\ Entry(d, live).version = out /\ Entry(d, live).content = live.content
          /\ out = OutgoingVersion(d, live)
      BY <2>4 DEF Entry
    <3> HIDE DEF out
    <3> QED
      BY <2>1, <2>4, <3>2, <3>3
  <2> QED
    BY <2>2, <2>3, <2>4
<1>5. CASE live # None /\ live.content = body
  <2>1. n = out
    BY <1>5 DEF Allocated
  <2> HIDE DEF out
  <2> QED
    BY <1>4, <1>5, <2>1
<1>6. CASE ~(live # None /\ live.content = body) /\ WithBody(d, body) # {}
  <2> DEFINE w == CHOOSE v \in WithBody(d, body) : TRUE
  <2>1. w \in archive[d] /\ w.content = body
    BY <1>6 DEF WithBody
  <2>2. n = w.version
    BY <1>6 DEF Allocated
  <2> HIDE DEF w
  <2> QED
    BY <1>2, <1>4, <2>1, <2>2
<1>7. CASE ~(live # None /\ live.content = body) /\ WithBody(d, body) = {}
  <2>1. n = Larger(Larger(max, rev), out) + 1
    BY <1>7 DEF Allocated
  <2>2. n \in Nat /\ n > max /\ n > out
    <3> HIDE DEF max, rev, out
    <3> QED
      BY <1>1, <1>3, <2>1 DEF Larger
  <2>3. \A v \in archive[d] : v.content # body /\ v.version # n
    BY <1>1, <1>2, <1>7, <2>2 DEF WithBody
  <2>4. \A v \in Archived(d, live) \ archive[d] : v.content # body /\ v.version # n
    BY <1>3, <1>4, <1>7, <2>2
  <2> QED
    BY <2>2, <2>3, <2>4
<1> QED
  BY <1>5, <1>6, <1>7

\* Every entry of d stays, and the outgoing row is among them under its number.
KeepsOutgoing(d, live) ==
    /\ archive[d] \subseteq archive'[d]
    /\ live # None => \E v \in archive'[d] :
         v.content = live.content /\ (live.revision # None => v.version = live.revision)

\* What archiving a row does to all archives.
LEMMA ArchivingKeeps ==
    ASSUME Typed, Numbered, ArchiveInjective, NEW d \in Docs,
           NEW live, live = None \/ Archivable(d, live),
           archive' = [archive EXCEPT ![d] = Archived(d, live)]
    PROVE  /\ archive' \in [Docs -> SUBSET Version]
           /\ Numbered' /\ ArchiveInjective'
           /\ \A e \in Docs \ {d} : archive'[e] = archive[e]
           /\ d \notin forged => KeepsOutgoing(d, live)
<1>1. archive \in [Docs -> SUBSET Version]
  BY DEF Typed
<1>2. archive'[d] = Archived(d, live) /\ \A e \in Docs \ {d} : archive'[e] = archive[e]
  BY <1>1
<1>3. CASE Archived(d, live) = archive[d]
  <2>1. archive' = archive
    BY <1>1, <1>3
  <2>2. d \notin forged /\ live # None => \E v \in archive[d] :
           v.content = live.content /\ (live.revision # None => v.version = live.revision)
    <3> SUFFICES ASSUME d \notin forged, live # None
                 PROVE  \E v \in archive[d] : v.content = live.content
                                 /\ (live.revision # None => v.version = live.revision)
      OBVIOUS
    <3>1. Entry(d, live).version = OutgoingVersion(d, live)
      BY DEF Entry
    <3>2. Archivable(d, live)
      OBVIOUS
    <3> QED
      BY <1>3, <3>1, <3>2, ArchivedAdds
  <2>3. Numbered' /\ ArchiveInjective'
    BY <2>1 DEF Numbered, ArchiveInjective
  <2> QED
    BY <1>1, <2>1, <2>2, <2>3 DEF KeepsOutgoing
<1>4. CASE Archived(d, live) # archive[d]
  <2>1. live # None /\ Archivable(d, live)
    BY <1>4 DEF Archived
  <2> DEFINE n == OutgoingVersion(d, live)
  <2>2. PICK w \in Version : w.version = n /\ w.content = live.content
                               /\ archive'[d] = {v \in archive[d] : v.version # n} \cup {w}
    <3>1. Entry(d, live).version = n /\ Entry(d, live).content = live.content
      BY DEF Entry
    <3> QED
      BY <1>2, <1>4, <2>1, <3>1, ArchivedAdds
  <2>3. /\ n \in Nat
        /\ d \notin forged /\ live.revision # None => n = live.revision
        /\ d \notin forged => \A v \in archive[d] : v.version # n
        /\ \A v \in archive[d] : v.content # live.content
    <3>1. /\ d \notin forged => \A v \in archive[d] : v.version # OutgoingVersion(d, live)
          /\ \A v \in archive[d] : v.content # live.content
      BY <1>4, <2>1, ArchivedAdds
    <3>2. /\ OutgoingVersion(d, live) \in Nat
          /\ d \notin forged /\ live.revision # None => OutgoingVersion(d, live) = live.revision
      BY <2>1, ArchivedAdds
    <3> QED
      BY <3>1, <3>2
  <2> HIDE DEF n
  <2>4. archive' \in [Docs -> SUBSET Version]
    <3>1. archive'[d] \subseteq Version
      BY <1>1, <2>2
    <3> QED
      BY <1>1, <1>2, <3>1
  <2>5. ArchiveInjective'
    <3>1. \A v, w1 \in archive[d] : v.version = w1.version \/ v.content = w1.content => v = w1
      BY DEF ArchiveInjective
    <3>2. \A v, w1 \in archive'[d] : v.version = w1.version \/ v.content = w1.content => v = w1
      BY <2>2, <2>3, <3>1
    <3> QED
      BY <1>2, <3>2 DEF ArchiveInjective
  <2>6. Numbered'
    <3>2. PICK m \in {0} \cup {v.version : v \in archive[d]} : \A v \in archive[d] : v.version <= m
      BY DEF Numbered
    <3>3. m \in Nat /\ \A v \in archive[d] : v.version \in Nat
      BY <1>1, <3>2 DEF Version
    <3>4. \E k \in {0} \cup {v.version : v \in archive'[d]} : \A v \in archive'[d] : v.version <= k
      <4>1. CASE n >= m
        <5>1. n \in {v.version : v \in archive'[d]}
          BY <2>2
        <5>2. \A v \in archive'[d] : v.version <= n
          BY <2>2, <2>3, <3>2, <3>3, <4>1
        <5> QED
          BY <5>1, <5>2
      <4>2. CASE m > n
        <5>1. m \in {0} \cup {v.version : v \in archive'[d]}
          <6>1. CASE m = 0
            BY <6>1
          <6>2. CASE m # 0
            <7>1. PICK v \in archive[d] : v.version = m
              BY <3>2, <6>2
            <7>2. v \in archive'[d]
              BY <2>2, <2>3, <3>3, <4>2, <7>1
            <7> QED
              BY <7>1, <7>2
          <6> QED
            BY <6>1, <6>2
        <5>2. \A v \in archive'[d] : v.version <= m
          BY <2>2, <2>3, <3>2, <3>3, <4>2
        <5> QED
          BY <5>1, <5>2
      <4> QED
        BY <2>3, <3>3, <4>1, <4>2
    <3> QED
      BY <1>2, <3>4 DEF Numbered
  <2>7. d \notin forged => KeepsOutgoing(d, live)
    BY <2>2, <2>3 DEF KeepsOutgoing
  <2> QED
    BY <1>2, <2>4, <2>5, <2>6, <2>7
<1> QED
  BY <1>3, <1>4

\* The archives name the same bodies under the same numbers.
SamePairs ==
    \A e \in Docs :
        /\ \A v \in archive'[e] : \E w \in archive[e] :
              w.version = v.version /\ w.content = v.content
        /\ \A w \in archive[e] : \E v \in archive'[e] :
              w.version = v.version /\ w.content = v.content

\* set_active_flags touches nothing but the flags.
LEMMA FlaggingKeeps ==
    ASSUME Typed, Numbered, ArchiveInjective, NEW d \in Docs, NEW body,
           archive' = [archive EXCEPT ![d] = Flagged(d, body)]
    PROVE  archive' \in [Docs -> SUBSET Version] /\ Numbered' /\ ArchiveInjective' /\ SamePairs
<1>1. archive \in [Docs -> SUBSET Version]
  BY DEF Typed
<1>2. archive'[d] = Flagged(d, body) /\ \A e \in Docs \ {d} : archive'[e] = archive[e]
  BY <1>1
<1> DEFINE f(v) == [v EXCEPT !.active = (v.content = body)]
<1>3. \A v \in Version : f(v) \in Version /\ f(v).version = v.version /\ f(v).content = v.content
                           /\ f(v).active = (v.content = body)
  BY DEF Version
<1>4. archive'[d] = {f(v) : v \in archive[d]}
  BY <1>2 DEF Flagged
<1> HIDE DEF f
<1>5. \A v \in archive'[d] : \E w \in archive[d] : v = f(w) /\ w \in Version
  BY <1>1, <1>4
<1>6. archive'[d] \subseteq Version
  BY <1>3, <1>5
<1>7. archive' \in [Docs -> SUBSET Version]
  BY <1>1, <1>2, <1>6
<1>8. SamePairs
  BY <1>1, <1>2, <1>3, <1>4, <1>5 DEF SamePairs
<1>9. ArchiveInjective'
  <2>1. \A v, w \in archive[d] : v.version = w.version \/ v.content = w.content => v = w
    BY DEF ArchiveInjective
  <2>2. \A v, w \in archive'[d] : v.version = w.version \/ v.content = w.content => v = w
    BY <1>3, <1>5, <2>1
  <2> QED
    BY <1>2, <2>2 DEF ArchiveInjective
<1>10. Numbered'
  <2>2. PICK m \in {0} \cup {v.version : v \in archive[d]} : \A v \in archive[d] : v.version <= m
    BY DEF Numbered
  <2>3. m \in {0} \cup {v.version : v \in archive'[d]}
    BY <1>8, <2>2 DEF SamePairs
  <2>4. \A v \in archive'[d] : v.version <= m
    BY <1>3, <1>5, <2>2
  <2>5. \E k \in {0} \cup {v.version : v \in archive'[d]} : \A v \in archive'[d] : v.version <= k
    BY <2>3, <2>4
  <2> QED
    BY <1>2, <2>5 DEF Numbered
<1> QED
  BY <1>7, <1>8, <1>9, <1>10

-----------------------------------------------------------------------------
(* A handler's control *)

LEMMA LeaveControl ==
    ASSUME Control, LockHeld, NEW c \in Clients, NEW answer \in BOOLEAN, Leave(c, answer)
    PROVE  Control' /\ LockHeld' /\ pc'[c] = "idle" /\ \A e \in Clients \ {c} : pc'[e] = pc[e]
<1>1. NoLocals \in Locals
  BY DEF NoLocals, Locals
<1>2. Control'
  BY <1>1 DEF Leave, Control, Steps, IngestSteps, RollbackSteps
<1> QED
  BY <1>2 DEF Leave, Control, LockHeld, Working

\* A step at which a handler may be, its request and its locals given.
Suits(step, r, locals) ==
    /\ step \in Steps \ {"idle", "lock"}
    /\ locals \in Locals
    /\ step \in IngestSteps => r.op = "ingest"
    /\ step \in RollbackSteps => r.op = "rollback"
    /\ step = "upsert" => locals.live # None
    /\ step \in {"upsert", "flags"} => locals.content # None

LEMMA GotoControl ==
    ASSUME Control, LockHeld, NEW c \in Clients, Working(c),
           NEW step, NEW locals, Suits(step, req[c], locals),
           pc' = [pc EXCEPT ![c] = step],
           loc' = [loc EXCEPT ![c] = locals],
           UNCHANGED <<lock, req, ok>>
    PROVE  /\ Control' /\ LockHeld'
           /\ pc'[c] = step /\ loc'[c] = locals /\ req'[c] = req[c]
           /\ \A e \in Clients \ {c} : pc'[e] = pc[e]
<1>1. req[c] \in Asks
  BY DEF Control, Working
<1>2. Control'
  BY <1>1 DEF Control, Suits
<1> QED
  BY <1>2 DEF Control, LockHeld, Working, Suits

\* Only the lock's holder has anything to keep.
LEMMA OthersQuiet ==
    ASSUME Control, LockHeld, NEW c \in Clients, Working(c), Handler(c)',
           \A e \in Clients \ {c} : pc'[e] = pc[e]
    PROVE  Handlers'
<1>1. \A e \in Clients \ {c} : pc'[e] \in {"idle", "lock"}
  BY DEF LockHeld, Working
<1>2. \A e \in Clients \ {c} : Handler(e)'
  BY <1>1 DEF Handler
<1> QED
  BY <1>2 DEF Handlers

LEMMA IdleQuiet ==
    ASSUME Control, LockHeld, NEW c \in Clients, Working(c), pc'[c] \in {"idle", "lock"},
           \A e \in Clients \ {c} : pc'[e] = pc[e]
    PROVE  Handlers'
<1>1. Handler(c)'
  BY DEF Handler
<1> QED
  BY <1>1, OthersQuiet

\* A step that only touches its own control keeps everything about the wall.
LEMMA WallKept ==
    ASSUME ArchiveInjective, Numbered, RowsAgree, Recorded,
           UNCHANGED <<row, archive, named, gone, forged>>, used'.plain = used.plain
    PROVE  ArchiveInjective' /\ Numbered' /\ RowsAgree' /\ Recorded'
  BY DEF ArchiveInjective, Numbered, RowsAgree, Recorded, Present, Consistent, InArchive, InRow

\* A handler no step touches keeps what it knows.
LEMMA HandlerKept ==
    ASSUME NEW e \in Clients, Handler(e),
           UNCHANGED <<row, archive, named, gone, forged>>, used'.plain = used.plain,
           pc'[e] = pc[e], req'[e] = req[e], loc'[e] = loc[e]
    PROVE  Handler(e)'
  BY DEF Handler, Snapshot, Allotted, CanonicalHolds, RowStored, Chosen, Kept, Consistent,
         InArchive, InRow, Present, Live

LEMMA SnapshotKept ==
    ASSUME NEW c \in Clients, Snapshot(c),
           UNCHANGED <<row, archive, named, gone, forged>>, used'.plain = used.plain,
           req'[c] = req[c], loc'[c].live = loc[c].live
    PROVE  Snapshot(c)'
  BY DEF Snapshot, Kept, Consistent, InArchive, InRow, Present

LEMMA AllottedKept ==
    ASSUME NEW c \in Clients, Allotted(c),
           UNCHANGED <<archive, named, gone, forged>>, used'.plain = used.plain,
           req'[c] = req[c], loc'[c].revision = loc[c].revision
    PROVE  Allotted(c)'
  BY DEF Allotted, Kept, Consistent, InArchive, InRow

-----------------------------------------------------------------------------
(* Steps outside the wall: arrivals, the lock, failures *)

LEMMA ReceiveKeeps ==
    ASSUME IInv, NEW c \in Clients, NEW r \in Asks, Receive(c, r)
    PROVE  IInv'
<1> USE DEF IInv
<1>1. used' \in [ingests : Nat, rollbacks : Nat, plain : Nat, faults : Nat]
      /\ used'.plain = used.plain
  BY DEF Receive, Spend, Typed
<1>2. Control'
  BY DEF Receive, Typed, Control, Steps, IngestSteps, RollbackSteps
<1>3. LockHeld'
  BY DEF Receive, Typed, Control, LockHeld, Working
<1>4. \A e \in Clients : Handler(e)'
  <2> SUFFICES ASSUME NEW e \in Clients PROVE Handler(e)'
    OBVIOUS
  <2>1. CASE e = c
    <3>1. pc'[c] = "lock"
      BY DEF Receive, Typed, Control
    <3> QED
      BY <2>1, <3>1 DEF Handler
  <2>2. CASE e # c
    BY <1>1, <2>2, HandlerKept DEF Receive, Typed, Control, Handlers
  <2> QED
    BY <2>1, <2>2
<1> QED
  BY <1>1, <1>2, <1>3, <1>4, WallKept DEF Receive, Typed, Handlers

LEMMA TakeLockKeeps ==
    ASSUME IInv, NEW c \in Clients, TakeLock(c)
    PROVE  IInv'
<1> USE DEF IInv
<1>1. req[c] \in Asks /\ req[c].op \in {"ingest", "rollback"}
  BY AskParts DEF TakeLock, Typed, Control
<1>2. pc'[c] = IF req[c].op = "ingest" THEN "read" ELSE "select"
  BY DEF TakeLock, Typed, Control
<1>3. Control'
  BY <1>1 DEF TakeLock, Typed, Control, Steps, IngestSteps, RollbackSteps
<1>4. LockHeld'
  BY NoneNowhere DEF TakeLock, Typed, Control, LockHeld, Working
<1>5. Handlers'
  <2> SUFFICES ASSUME NEW e \in Clients PROVE Handler(e)'
    BY DEF Handlers
  <2>1. CASE e = c
    BY <1>2, <2>1 DEF Handler
  <2>2. CASE e # c
    BY <2>2, HandlerKept DEF TakeLock, Typed, Control, Handlers
  <2> QED
    BY <2>1, <2>2
<1> QED
  BY <1>3, <1>4, <1>5, WallKept DEF TakeLock, Typed

\* An operation that gives up leaves the wall alone.
LEMMA LeaveKeeps ==
    ASSUME IInv, NEW c \in Clients, Leave(c, FALSE), UNCHANGED <<row, archive, named, gone, forged>>,
           used' \in [ingests : Nat, rollbacks : Nat, plain : Nat, faults : Nat],
           used'.plain = used.plain
    PROVE  IInv'
<1> USE DEF IInv
<1>1. Control' /\ LockHeld' /\ pc'[c] = "idle"
  BY LeaveControl DEF Typed
<1>2. Handlers'
  <2> SUFFICES ASSUME NEW e \in Clients PROVE Handler(e)'
    BY DEF Handlers
  <2>1. CASE e = c
    BY <1>1, <2>1 DEF Handler
  <2>2. CASE e # c
    BY <2>2, HandlerKept DEF Leave, Typed, Control, Handlers
  <2> QED
    BY <2>1, <2>2
<1> QED
  BY <1>1, <1>2, WallKept DEF Typed

LEMMA CrashKeeps ==
    ASSUME IInv, Crash
    PROVE  IInv'
<1> USE DEF IInv
<1>1. used' \in [ingests : Nat, rollbacks : Nat, plain : Nat, faults : Nat]
      /\ used'.plain = used.plain
  BY DEF Crash, Spend, Typed
<1>2. NoLocals \in Locals
  BY DEF NoLocals, Locals
<1>3. Control'
  BY <1>2 DEF Crash, Control, Steps, IngestSteps, RollbackSteps
<1>4. LockHeld' /\ Handlers'
  BY DEF Crash, LockHeld, Working, Handlers, Handler
<1> QED
  BY <1>1, <1>3, <1>4, WallKept DEF Crash, Typed

\* A handler that moves on without touching the wall needs only its own facts.
LEMMA MoveKeeps ==
    ASSUME IInv, NEW c \in Clients, Working(c), Control', LockHeld', Handler(c)',
           \A e \in Clients \ {c} : pc'[e] = pc[e],
           UNCHANGED <<row, archive, named, gone, forged>>,
           used' \in [ingests : Nat, rollbacks : Nat, plain : Nat, faults : Nat],
           used'.plain = used.plain
    PROVE  IInv'
<1> USE DEF IInv
<1>1. Handlers'
  BY OthersQuiet DEF Typed
<1> QED
  BY <1>1, WallKept DEF Typed

LEMMA StoreErrorKeeps ==
    ASSUME IInv, NEW c \in Clients, StoreError(c)
    PROVE  IInv'
<1>1. used' \in [ingests : Nat, rollbacks : Nat, plain : Nat, faults : Nat]
      /\ used'.plain = used.plain
  BY DEF StoreError, Spend, Typed, IInv
<1>2. CASE pc[c] # "delete"
  BY <1>1, <1>2, LeaveKeeps DEF StoreError, Fail
<1>3. CASE pc[c] = "delete"
  <2>1. Working(c) /\ loc[c] \in Locals /\ req[c].op = "ingest"
    BY <1>3 DEF Working, IInv, Typed, Control, IngestSteps
  <2>2. /\ pc' = [pc EXCEPT ![c] = "check"] /\ loc' = [loc EXCEPT ![c] = loc[c]]
        /\ UNCHANGED <<lock, req, ok, row, archive, named, gone, forged>>
    BY <1>3 DEF StoreError, Goto
  <2> Suits("check", req[c], loc[c])
    BY <2>1 DEF Suits, Steps, IngestSteps, RollbackSteps
  <2>3. /\ Control' /\ LockHeld' /\ pc'[c] = "check" /\ loc'[c] = loc[c] /\ req'[c] = req[c]
        /\ \A e \in Clients \ {c} : pc'[e] = pc[e]
    BY <2>1, <2>2, GotoControl DEF IInv, Typed
  <2>4. Allotted(c)
    BY <1>3 DEF IInv, Handlers, Handler
  <2>5. Allotted(c)'
    BY <1>1, <2>2, <2>3, <2>4, AllottedKept
  <2>6. Handler(c)'
    BY <2>3, <2>5 DEF Handler
  <2> QED
    BY <1>1, <2>1, <2>2, <2>3, <2>6, MoveKeeps
<1> QED
  BY <1>2, <1>3

LEMMA DropKeeps ==
    ASSUME IInv, NEW c \in Clients, Drop(c)
    PROVE  IInv'
<1>1. used' \in [ingests : Nat, rollbacks : Nat, plain : Nat, faults : Nat]
      /\ used'.plain = used.plain
  BY DEF Drop, Spend, Typed, IInv
<1> QED
  BY <1>1, LeaveKeeps DEF Drop, Fail

-----------------------------------------------------------------------------
(* commit_doctrine_ingest and activate_doctrine_version, step by step *)

\* Where an answer about d can be found again.
Found(d, n, body) == d \in gone \cup forged \/ InArchive(d, n, body) \/ InRow(row[d], n, body)

\* An operation that ends with an answer has to have it on record.
LEMMA AnswerKeeps ==
    ASSUME IInv, NEW c \in Clients, Working(c), Leave(c, TRUE),
           NEW d \in Docs, NEW n \in Nat, NEW body \in Bodies,
           named' = named \cup {<<d, n, body>>}, UNCHANGED <<gone, forged, used>>,
           row' \in [Docs -> LiveRow \cup {None}], archive' \in [Docs -> SUBSET Version],
           ArchiveInjective', Numbered', RowsAgree', Found(d, n, body)',
           \A t \in named : Found(t[1], t[2], t[3])'
    PROVE  IInv'
<1> USE DEF IInv
<1>1. Control' /\ LockHeld' /\ pc'[c] = "idle" /\ \A e \in Clients \ {c} : pc'[e] = pc[e]
  BY LeaveControl DEF Typed
<1>2. Handlers'
  BY <1>1, IdleQuiet DEF Typed
<1>3. <<d, n, body>> \in Docs \X Nat \X Bodies
  OBVIOUS
<1>4. Recorded'
  <2> SUFFICES ASSUME NEW t \in named' PROVE Found(t[1], t[2], t[3])'
    BY DEF Recorded, Found
  <2>1. CASE t \in named
    BY <2>1
  <2>2. CASE t = <<d, n, body>>
    BY <2>2
  <2> QED
    BY <2>1, <2>2
<1> QED
  BY <1>1, <1>2, <1>3, <1>4 DEF Typed

LEMMA RecordedFound ==
    ASSUME Recorded, NEW t \in named PROVE Found(t[1], t[2], t[3])
  BY DEF Recorded, Found

LEMMA FoundKept ==
    ASSUME UNCHANGED <<row, archive, gone, forged>>, used'.plain = used.plain,
           NEW d, NEW n, NEW body, Found(d, n, body)
    PROVE  Found(d, n, body)'
  BY DEF Found, InArchive, InRow

\* An answer that reports what is already there.
LEMMA ReportKeeps ==
    ASSUME IInv, NEW c \in Clients, Working(c), Leave(c, TRUE),
           NEW d \in Docs, NEW n \in Nat, NEW body \in Bodies, Found(d, n, body),
           named' = named \cup {<<d, n, body>>}, UNCHANGED <<row, archive, gone, forged, used>>
    PROVE  IInv'
<1>1. Found(d, n, body)' /\ \A t \in named : Found(t[1], t[2], t[3])'
  BY RecordedFound, FoundKept DEF IInv
<1>2. ArchiveInjective' /\ Numbered' /\ RowsAgree'
  BY DEF IInv, ArchiveInjective, Numbered, RowsAgree, Present, Consistent
<1> QED
  BY <1>1, <1>2, AnswerKeeps DEF IInv, Typed

\* What ReadLive reads is what Snapshot says.
LEMMA RowIsSnapshot ==
    ASSUME IInv, NEW c \in Clients, req'[c] = req[c], req[c].id \in Docs,
           loc'[c].live = row[req[c].id],
           UNCHANGED <<row, archive, named, gone, forged>>, used'.plain = used.plain
    PROVE  Snapshot(c)'
<1> DEFINE d == req[c].id
<1>1. row[d] # None /\ row[d].revision # None => Consistent(d, row[d].revision, row[d].content)
  BY DEF IInv, RowsAgree, Present
<1>2. Kept(d, row[d])
  BY DEF IInv, Recorded, Kept
<1> QED
  BY <1>1, <1>2 DEF Snapshot, Kept, Consistent, InArchive, InRow, Present

LEMMA ReadLiveKeeps ==
    ASSUME IInv, NEW c \in Clients, ReadLive(c)
    PROVE  IInv'
<1> DEFINE d == req[c].id
<1>1. /\ Working(c) /\ loc[c] \in Locals /\ req[c] \in Asks /\ req[c].op = "ingest"
      /\ d \in Docs /\ req[c].content \in Bodies /\ row[d] \in LiveRow \cup {None}
  BY AskParts DEF ReadLive, Working, IInv, Typed, Control, IngestSteps
<1>2. CASE Satisfied(c)
  <2>1. row[d] \in LiveRow /\ row[d].content = req[c].content
    BY <1>1, <1>2 DEF Satisfied, Live, Present
  <2>2. /\ RevisionOr1(row[d]) \in Nat
        /\ used.plain = 0 => RevisionOr1(row[d]) = row[d].revision
    BY <1>1, <2>1, NoneNowhere DEF RevisionOr1, LiveRow, IInv, RowsAgree, Present
  <2>3. PICK k \in Docs, n \in Nat, body \in Bodies :
           k = d /\ n = RevisionOr1(row[d]) /\ body = req[c].content
    BY <1>1, <2>2
  <2>4. Found(k, n, body)
    BY <1>1, <2>1, <2>2, <2>3, NoneNowhere DEF Found, InRow
  <2>5. Leave(c, TRUE) /\ named' = named \cup {<<k, n, body>>}
        /\ UNCHANGED <<row, archive, gone, forged, used>>
    BY <1>2, <2>3 DEF ReadLive, Answer
  <2> QED
    BY <1>1, <2>4, <2>5, ReportKeeps
<1>3. CASE ~Satisfied(c)
  <2> DEFINE l == [loc[c] EXCEPT !.live = row[d]]
  <2>1. l \in Locals /\ l.live = row[d]
    BY <1>1 DEF Locals
  <2>2. Suits("dedup", req[c], l)
    BY <1>1, <2>1 DEF Suits, Steps, IngestSteps, RollbackSteps
  <2>3. /\ pc' = [pc EXCEPT ![c] = "dedup"] /\ loc' = [loc EXCEPT ![c] = l]
        /\ UNCHANGED <<lock, req, ok, row, archive, named, gone, forged, used>>
    BY <1>3 DEF ReadLive, Goto
  <2> HIDE DEF l
  <2>4. /\ Control' /\ LockHeld' /\ pc'[c] = "dedup" /\ loc'[c] = l /\ req'[c] = req[c]
        /\ \A e \in Clients \ {c} : pc'[e] = pc[e]
    BY <1>1, <2>2, <2>3, GotoControl DEF IInv, Typed
  <2>5. Snapshot(c)'
    BY <1>1, <2>1, <2>3, <2>4, RowIsSnapshot
  <2>6. Handler(c)'
    BY <2>4, <2>5 DEF Handler
  <2> QED
    BY <1>1, <2>3, <2>4, <2>6, MoveKeeps DEF IInv, Typed
<1> QED
  BY <1>2, <1>3

LEMMA DedupKeeps ==
    ASSUME IInv, NEW c \in Clients, Dedup(c)
    PROVE  IInv'
<1>1. /\ Working(c) /\ loc[c] \in Locals /\ req[c] \in Asks /\ req[c].op = "ingest"
      /\ req[c].id \in Docs /\ Snapshot(c)
  BY AskParts DEF Dedup, Working, IInv, Typed, Control, IngestSteps, Handlers, Handler
<1>2. ASSUME NEW k \in Holders(req[c].content) \ {req[c].id},
             Goto(c, "canonical", [loc[c] EXCEPT !.canonical = k])
      PROVE  IInv'
  <2> DEFINE l == [loc[c] EXCEPT !.canonical = k]
  <2>1. /\ k \in Docs \ {req[c].id} /\ Live(k) /\ Present(k)
        /\ row[k].content = req[c].content
    BY <1>2 DEF Holders, Live
  <2>2. l \in Locals /\ l.live = loc[c].live /\ l.canonical = k
    BY <1>1, <2>1 DEF Locals
  <2>3. Suits("canonical", req[c], l)
    BY <1>1, <2>2 DEF Suits, Steps, IngestSteps, RollbackSteps
  <2>4. /\ pc' = [pc EXCEPT ![c] = "canonical"] /\ loc' = [loc EXCEPT ![c] = l]
        /\ UNCHANGED <<lock, req, ok, row, archive, named, gone, forged, used>>
    BY <1>2 DEF Dedup, Goto
  <2> HIDE DEF l
  <2>5. /\ Control' /\ LockHeld' /\ pc'[c] = "canonical" /\ loc'[c] = l /\ req'[c] = req[c]
        /\ \A e \in Clients \ {c} : pc'[e] = pc[e]
    BY <1>1, <2>3, <2>4, GotoControl DEF IInv, Typed
  <2>6. Snapshot(c)'
    BY <1>1, <2>2, <2>4, <2>5, SnapshotKept
  <2>7. CanonicalHolds(c)'
    BY <2>1, <2>2, <2>4, <2>5 DEF CanonicalHolds, Live, Present
  <2>8. Handler(c)'
    BY <2>5, <2>6, <2>7 DEF Handler
  <2> QED
    BY <1>1, <2>4, <2>5, <2>8, MoveKeeps DEF IInv, Typed
<1>3. CASE Goto(c, "allocate", loc[c])
  <2>1. Suits("allocate", req[c], loc[c])
    BY <1>1 DEF Suits, Steps, IngestSteps, RollbackSteps
  <2>2. /\ pc' = [pc EXCEPT ![c] = "allocate"] /\ loc' = [loc EXCEPT ![c] = loc[c]]
        /\ UNCHANGED <<lock, req, ok, row, archive, named, gone, forged, used>>
    BY <1>3 DEF Dedup, Goto
  <2>3. /\ Control' /\ LockHeld' /\ pc'[c] = "allocate" /\ loc'[c] = loc[c]
        /\ req'[c] = req[c] /\ \A e \in Clients \ {c} : pc'[e] = pc[e]
    BY <1>1, <2>1, <2>2, GotoControl DEF IInv, Typed
  <2>4. Snapshot(c)'
    BY <1>1, <2>2, <2>3, SnapshotKept
  <2>5. Handler(c)'
    BY <2>3, <2>4 DEF Handler
  <2> QED
    BY <1>1, <2>2, <2>3, <2>5, MoveKeeps DEF IInv, Typed
<1> QED
  BY <1>2, <1>3 DEF Dedup

LEMMA RecallCanonicalKeeps ==
    ASSUME IInv, NEW c \in Clients, RecallCanonical(c)
    PROVE  IInv'
<1> DEFINE d == loc[c].canonical
<1>1. /\ Working(c) /\ loc[c] \in Locals /\ req[c] \in Asks /\ req[c].op = "ingest"
      /\ req[c].id \in Docs /\ req[c].content \in Bodies /\ Snapshot(c) /\ CanonicalHolds(c)
  BY AskParts
     DEF RecallCanonical, Working, IInv, Typed, Control, IngestSteps, Handlers, Handler
<1>2. /\ d \in Docs \ {req[c].id} /\ row[d] \in LiveRow \cup {None}
      /\ d \in gone \/ (Present(d) /\ row[d].content = req[c].content)
      /\ used.plain = 0 => Live(d)
  BY <1>1 DEF CanonicalHolds, IInv, Typed
<1>3. CASE ~Present(d)
  <2>1. Leave(c, FALSE) /\ UNCHANGED <<row, archive, named, gone, forged, used>>
    BY <1>3 DEF RecallCanonical, Fail
  <2> QED
    BY <2>1, LeaveKeeps DEF IInv, Typed
<1>4. ASSUME Present(d) PROVE /\ RevisionOr1(row[d]) \in Nat
                              /\ used.plain = 0 => RevisionOr1(row[d]) = row[d].revision
  BY <1>2, <1>4 DEF RevisionOr1, LiveRow, IInv, RowsAgree, Present
<1>5. CASE Present(d) /\ ~Stale(c)
  <2>1. PICK k \in Docs, n \in Nat, body \in Bodies :
           k = d /\ n = RevisionOr1(row[d]) /\ body = req[c].content
    BY <1>1, <1>2, <1>4, <1>5
  <2>2. Found(k, n, body)
    BY <1>2, <1>4, <1>5, <2>1 DEF Found, InRow, Present
  <2>3. Leave(c, TRUE) /\ named' = named \cup {<<k, n, body>>}
        /\ UNCHANGED <<row, archive, gone, forged, used>>
    BY <1>5, <2>1 DEF RecallCanonical, Answer
  <2> QED
    BY <1>1, <2>2, <2>3, ReportKeeps
<1>6. CASE Present(d) /\ Stale(c)
  <2> DEFINE l == [loc[c] EXCEPT !.revision = RevisionOr1(row[d])]
  <2>1. /\ l \in Locals /\ l.live = loc[c].live /\ l.canonical = d
        /\ l.revision = RevisionOr1(row[d])
    BY <1>1, <1>4, <1>6 DEF Locals
  <2>2. Suits("retire", req[c], l)
    BY <1>1, <2>1 DEF Suits, Steps, IngestSteps, RollbackSteps
  <2>3. /\ pc' = [pc EXCEPT ![c] = "retire"] /\ loc' = [loc EXCEPT ![c] = l]
        /\ UNCHANGED <<lock, req, ok, row, archive, named, gone, forged, used>>
    BY <1>6 DEF RecallCanonical, Goto
  <2> HIDE DEF l
  <2>4. /\ Control' /\ LockHeld' /\ pc'[c] = "retire" /\ loc'[c] = l /\ req'[c] = req[c]
        /\ \A e \in Clients \ {c} : pc'[e] = pc[e]
    BY <1>1, <2>2, <2>3, GotoControl DEF IInv, Typed
  <2>5. Snapshot(c)'
    BY <1>1, <2>1, <2>3, <2>4, SnapshotKept
  <2>6. CanonicalHolds(c)'
    BY <1>2, <1>4, <1>6, <2>1, <2>3, <2>4 DEF CanonicalHolds, Live, Present
  <2>7. Handler(c)'
    BY <2>4, <2>5, <2>6 DEF Handler
  <2> QED
    BY <1>1, <2>3, <2>4, <2>7, MoveKeeps DEF IInv, Typed
<1> QED
  BY <1>3, <1>5, <1>6

\* Retiring a row changes no body and no number.
LEMMA SameTexts ==
    ASSUME IInv, UNCHANGED <<archive, gone, forged, used>>,
           \A e \in Docs : /\ row'[e] = None <=> row[e] = None
                           /\ row'[e].content = row[e].content
                           /\ row'[e].revision = row[e].revision
    PROVE  /\ ArchiveInjective' /\ Numbered' /\ RowsAgree'
           /\ \A d \in Docs : \A n, body : Found(d, n, body) => Found(d, n, body)'
<1>1. ArchiveInjective' /\ Numbered'
  BY DEF IInv, ArchiveInjective, Numbered
<1>2. RowsAgree'
  BY DEF IInv, RowsAgree, Present, Consistent
<1>3. \A d \in Docs : \A n, body : Found(d, n, body) => Found(d, n, body)'
  BY DEF Found, InArchive, InRow
<1> QED
  BY <1>1, <1>2, <1>3

LEMMA RetireKeeps ==
    ASSUME IInv, NEW c \in Clients, Retire(c)
    PROVE  IInv'
<1>1. /\ Working(c) /\ loc[c] \in Locals /\ req[c] \in Asks /\ req[c].op = "ingest"
      /\ req[c].id \in Docs /\ req[c].content \in Bodies /\ CanonicalHolds(c)
      /\ pc[c] = "retire"
  BY AskParts DEF Retire, Working, IInv, Typed, Control, IngestSteps, Handlers, Handler
<1>2. PICK d \in Docs, k \in Docs, n \in Nat, body \in Bodies :
         d = req[c].id /\ k = loc[c].canonical /\ n = loc[c].revision /\ body = req[c].content
  BY <1>1 DEF CanonicalHolds, Locals
<1>3. /\ row \in [Docs -> LiveRow \cup {None}]
      /\ Leave(c, TRUE) /\ named' = named \cup {<<k, n, body>>}
      /\ row' = IF row[d] # None THEN [row EXCEPT ![d].superseded_by = k] ELSE row
      /\ UNCHANGED <<archive, gone, forged, used>>
  BY <1>2 DEF Retire, Answer, Present, IInv, Typed
<1>4. /\ row' \in [Docs -> LiveRow \cup {None}]
      /\ \A e \in Docs : /\ row'[e] = None <=> row[e] = None
                         /\ row'[e].content = row[e].content
                         /\ row'[e].revision = row[e].revision
  <2>1. CASE row[d] = None
    BY <1>3, <2>1
  <2>2. CASE row[d] # None
    <3> DEFINE r == [row[d] EXCEPT !.superseded_by = k]
    <3>1. r \in LiveRow /\ r.content = row[d].content /\ r.revision = row[d].revision
      BY <1>3, <2>2 DEF LiveRow
    <3>2. row' = [row EXCEPT ![d] = r]
      BY <1>3, <2>2
    <3>3. r # None
      BY <3>1, NoneNowhere
    <3> HIDE DEF r
    <3> QED
      BY <1>3, <2>2, <3>1, <3>2, <3>3
  <2> QED
    BY <2>1, <2>2
<1>5. /\ ArchiveInjective' /\ Numbered' /\ RowsAgree'
      /\ \A e \in Docs : \A m, b : Found(e, m, b) => Found(e, m, b)'
  BY <1>3, <1>4, SameTexts
<1>6. Found(k, n, body)
  BY <1>1, <1>2 DEF CanonicalHolds, Found, InRow, Present
<1>7. Found(k, n, body)' /\ \A t \in named : Found(t[1], t[2], t[3])'
  BY <1>5, <1>6, RecordedFound DEF IInv, Typed
<1>8. archive' \in [Docs -> SUBSET Version]
  BY <1>3 DEF IInv, Typed
<1> QED
  BY <1>1, <1>3, <1>4, <1>5, <1>7, <1>8, AnswerKeeps

\* An entry under a number settles both for the archive it is in.
LEMMA EntrySettles ==
    ASSUME ArchiveInjective, NEW d \in Docs, NEW v \in archive[d]
    PROVE  Consistent(d, v.version, v.content)
  BY DEF ArchiveInjective, Consistent

LEMMA AllocateKeeps ==
    ASSUME IInv, NEW c \in Clients, Allocate(c)
    PROVE  IInv'
<1>1. /\ Working(c) /\ loc[c] \in Locals /\ req[c] \in Asks /\ req[c].op = "ingest"
      /\ req[c].id \in Docs /\ req[c].content \in Bodies /\ Snapshot(c)
  BY AskParts DEF Allocate, Working, IInv, Typed, Control, IngestSteps, Handlers, Handler
<1>2. PICK d \in Docs, body \in Bodies, live \in LiveRow \cup {None} :
         d = req[c].id /\ body = req[c].content /\ live = loc[c].live
  BY <1>1 DEF Locals
<1>3. live = None \/ Archivable(d, live)
  BY <1>1, <1>2 DEF Snapshot, Archivable
<1>4. PICK n \in Nat : n = Allocated(d, live, body)
  BY <1>2, <1>3, AllocatedNat DEF IInv
<1>5. d \notin forged => \A v \in Archived(d, live) : v.version = n <=> v.content = body
  BY <1>2, <1>3, <1>4, AllocatedFits DEF IInv
<1> DEFINE l == [loc[c] EXCEPT !.revision = n]
<1>6. /\ pc' = [pc EXCEPT ![c] = "delete"] /\ loc' = [loc EXCEPT ![c] = l]
      /\ archive' = [archive EXCEPT ![d] = Archived(d, live)]
      /\ UNCHANGED <<lock, req, ok, row, named, gone, forged, used>>
  BY <1>2, <1>4 DEF Allocate, Goto
<1>7. l \in Locals /\ l.revision = n
  BY <1>1 DEF Locals
<1>8. Suits("delete", req[c], l)
  BY <1>1, <1>7 DEF Suits, Steps, IngestSteps, RollbackSteps
<1> HIDE DEF l
<1>9. /\ Control' /\ LockHeld' /\ pc'[c] = "delete" /\ loc'[c] = l /\ req'[c] = req[c]
      /\ \A e \in Clients \ {c} : pc'[e] = pc[e]
  BY <1>1, <1>6, <1>8, GotoControl DEF IInv, Typed
<1>10. /\ archive' \in [Docs -> SUBSET Version] /\ Numbered' /\ ArchiveInjective'
       /\ \A e \in Docs \ {d} : archive'[e] = archive[e]
       /\ d \notin forged => KeepsOutgoing(d, live)
  BY <1>3, <1>6, ArchivingKeeps DEF IInv
<1>11. archive'[d] = Archived(d, live)
  BY <1>6 DEF IInv, Typed
<1>12. used'.plain = used.plain
  BY <1>6
<1>13. RowsAgree'
  <2> SUFFICES ASSUME NEW e \in Docs \ forged, row[e] # None, row[e].revision # None,
                      NEW v \in archive'[e]
               PROVE  v.version = row[e].revision <=> v.content = row[e].content
    BY <1>6 DEF IInv, RowsAgree, Present, Consistent
  <2>1. CASE e # d
    BY <1>10, <2>1 DEF IInv, RowsAgree, Present, Consistent
  <2>2. CASE e = d
    <3>1. live # None /\ live.revision = row[d].revision /\ live.content = row[d].content
      BY <1>1, <1>2, <2>2 DEF Snapshot, Present
    <3>2. PICK w \in archive'[d] : w.content = live.content /\ w.version = live.revision
      BY <1>10, <2>2, <3>1 DEF KeepsOutgoing
    <3> QED
      BY <1>10, <2>2, <3>1, <3>2 DEF ArchiveInjective
  <2> QED
    BY <2>1, <2>2
<1>14. Recorded'
  BY <1>6, <1>10 DEF IInv, Typed, Recorded, InArchive, InRow, KeepsOutgoing
<1>15. Kept(d, None)'
  <2> SUFFICES ASSUME NEW t \in named, t[1] = d, d \notin forged
               PROVE  d \in gone \/ InArchive(d, t[2], t[3])'
    BY <1>6 DEF Kept
  <2>1. d \in gone \/ InArchive(d, t[2], t[3]) \/ InRow(live, t[2], t[3])
    BY <1>1, <1>2 DEF Snapshot, Kept
  <2>2. CASE InArchive(d, t[2], t[3])
    BY <1>10, <1>12, <2>2 DEF InArchive, KeepsOutgoing
  <2>3. CASE InRow(live, t[2], t[3])
    <3>1. used.plain = 0 => live.revision # None
      BY <1>1, <1>2, <2>3 DEF Snapshot, InRow, IInv, RowsAgree, Present
    <3>2. PICK v \in archive'[d] :
             v.content = live.content /\ (live.revision # None => v.version = live.revision)
      BY <1>10, <2>3 DEF InRow, KeepsOutgoing
    <3> QED
      BY <1>12, <2>3, <3>1, <3>2 DEF InArchive, InRow
  <2> QED
    BY <2>1, <2>2, <2>3
<1>16. Allotted(c)'
  BY <1>2, <1>5, <1>6, <1>7, <1>9, <1>11, <1>15 DEF Allotted, Consistent
<1>17. Handlers'
  <2>1. Handler(c)'
    BY <1>9, <1>16 DEF Handler
  <2> QED
    BY <1>1, <1>9, <2>1, OthersQuiet DEF IInv, Typed
<1> QED
  BY <1>6, <1>9, <1>10, <1>13, <1>14, <1>17 DEF IInv, Typed

\* Replacing d's row loses nothing once everything answered about d is archived,
\* provided the new row agrees with the archive.
LEMMA ReplaceKeeps ==
    ASSUME IInv, NEW d \in Docs, NEW r \in LiveRow \cup {None}, Kept(d, None),
           r # None => r.revision # None /\ Consistent(d, r.revision, r.content),
           row' = [row EXCEPT ![d] = r], UNCHANGED <<archive, named, gone, forged, used>>
    PROVE  /\ row' \in [Docs -> LiveRow \cup {None}]
           /\ ArchiveInjective' /\ Numbered' /\ RowsAgree' /\ Recorded'
<1>1. row \in [Docs -> LiveRow \cup {None}] /\ named \subseteq Docs \X Nat \X Bodies
  BY DEF IInv, Typed
<1>2. row' \in [Docs -> LiveRow \cup {None}]
  BY <1>1
<1>3. ArchiveInjective' /\ Numbered'
  BY DEF IInv, ArchiveInjective, Numbered
<1>4. RowsAgree'
  BY <1>1 DEF IInv, RowsAgree, Present, Consistent
<1>5. Recorded'
  <2> SUFFICES ASSUME NEW t \in named
               PROVE  \/ t[1] \in gone \cup forged \/ InArchive(t[1], t[2], t[3])
                      \/ InRow(row[t[1]], t[2], t[3])'
    BY DEF Recorded, InArchive
  <2>1. CASE t[1] = d
    BY <2>1 DEF Kept, InRow
  <2>2. CASE t[1] # d
    <3>1. row'[t[1]] = row[t[1]]
      BY <1>1, <2>2
    <3> QED
      BY <3>1 DEF IInv, Recorded, InRow
  <2> QED
    BY <2>1, <2>2
<1> QED
  BY <1>2, <1>3, <1>4, <1>5

LEMMA DeleteRowKeeps ==
    ASSUME IInv, NEW c \in Clients, DeleteRow(c)
    PROVE  IInv'
<1>1. /\ Working(c) /\ loc[c] \in Locals /\ req[c] \in Asks /\ req[c].op = "ingest"
      /\ req[c].id \in Docs /\ Allotted(c)
  BY AskParts DEF DeleteRow, Working, IInv, Typed, Control, IngestSteps, Handlers, Handler
<1>2. PICK d \in Docs : d = req[c].id
  BY <1>1
<1>3. /\ pc' = [pc EXCEPT ![c] = "check"] /\ loc' = [loc EXCEPT ![c] = loc[c]]
      /\ row' = [row EXCEPT ![d] = None]
      /\ UNCHANGED <<lock, req, ok, archive, named, gone, forged, used>>
  BY <1>2 DEF DeleteRow, Goto
<1>4. Suits("check", req[c], loc[c])
  BY <1>1 DEF Suits, Steps, IngestSteps, RollbackSteps
<1>5. /\ Control' /\ LockHeld' /\ pc'[c] = "check" /\ loc'[c] = loc[c] /\ req'[c] = req[c]
      /\ \A e \in Clients \ {c} : pc'[e] = pc[e]
  BY <1>1, <1>3, <1>4, GotoControl DEF IInv, Typed
<1>6. Kept(d, None)
  BY <1>1, <1>2 DEF Allotted
<1>7. /\ row' \in [Docs -> LiveRow \cup {None}]
      /\ ArchiveInjective' /\ Numbered' /\ RowsAgree' /\ Recorded'
  BY <1>3, <1>6, ReplaceKeeps
<1>8. Handlers'
  <2>1. Allotted(c)'
    BY <1>1, <1>3, <1>5, AllottedKept
  <2>2. Handler(c)'
    BY <1>5, <2>1 DEF Handler
  <2> QED
    BY <1>1, <1>5, <2>2, OthersQuiet DEF IInv, Typed
<1> QED
  BY <1>3, <1>5, <1>7, <1>8 DEF IInv, Typed

LEMMA StoreCheckKeeps ==
    ASSUME IInv, NEW c \in Clients, StoreCheck(c)
    PROVE  IInv'
<1>1. /\ Working(c) /\ loc[c] \in Locals /\ req[c] \in Asks /\ req[c].op = "ingest"
      /\ Allotted(c)
  BY DEF StoreCheck, Working, IInv, Typed, Control, IngestSteps, Handlers, Handler
<1>2. CASE Fail(c)
  BY <1>2, LeaveKeeps DEF StoreCheck, Fail, IInv, Typed
<1>3. CASE Goto(c, "create", loc[c]) /\ UNCHANGED named
  <2>1. Suits("create", req[c], loc[c])
    BY <1>1 DEF Suits, Steps, IngestSteps, RollbackSteps
  <2>2. /\ pc' = [pc EXCEPT ![c] = "create"] /\ loc' = [loc EXCEPT ![c] = loc[c]]
        /\ UNCHANGED <<lock, req, ok, row, archive, named, gone, forged, used>>
    BY <1>3 DEF StoreCheck, Goto
  <2>3. /\ Control' /\ LockHeld' /\ pc'[c] = "create" /\ loc'[c] = loc[c]
        /\ req'[c] = req[c] /\ \A e \in Clients \ {c} : pc'[e] = pc[e]
    BY <1>1, <2>1, <2>2, GotoControl DEF IInv, Typed
  <2>4. Allotted(c)'
    BY <1>1, <2>2, <2>3, AllottedKept
  <2>5. Handler(c)'
    BY <2>3, <2>4 DEF Handler
  <2> QED
    BY <1>1, <2>2, <2>3, <2>5, MoveKeeps DEF IInv, Typed
<1> QED
  BY <1>2, <1>3 DEF StoreCheck

LEMMA StoreCreateKeeps ==
    ASSUME IInv, NEW c \in Clients, StoreCreate(c)
    PROVE  IInv'
<1>1. /\ Working(c) /\ loc[c] \in Locals /\ req[c] \in Asks /\ req[c].op = "ingest"
      /\ req[c].id \in Docs /\ req[c].content \in Bodies /\ Allotted(c)
  BY AskParts DEF StoreCreate, Working, IInv, Typed, Control, IngestSteps, Handlers, Handler
<1>2. CASE Fail(c) /\ UNCHANGED row
  BY <1>2, LeaveKeeps DEF StoreCreate, Fail, IInv, Typed
<1>3. CASE ~Present(req[c].id) /\ ~(Fail(c) /\ UNCHANGED row)
  <2> DEFINE r == [content |-> req[c].content, revision |-> loc[c].revision,
                   superseded_by |-> None]
  <2>1. /\ r \in LiveRow /\ r.content = req[c].content /\ r.revision = loc[c].revision
        /\ r.superseded_by = None
    BY <1>1 DEF LiveRow, Locals
  <2>2. PICK d \in Docs, s \in LiveRow : d = req[c].id /\ s = r
    BY <1>1, <2>1
  <2>3. /\ pc' = [pc EXCEPT ![c] = "recall"] /\ loc' = [loc EXCEPT ![c] = loc[c]]
        /\ row' = [row EXCEPT ![d] = s]
        /\ UNCHANGED <<lock, req, ok, archive, named, gone, forged, used>>
    BY <1>3, <2>2 DEF StoreCreate, Goto
  <2> HIDE DEF r
  <2>4. Suits("recall", req[c], loc[c])
    BY <1>1 DEF Suits, Steps, IngestSteps, RollbackSteps
  <2>5. /\ Control' /\ LockHeld' /\ pc'[c] = "recall" /\ loc'[c] = loc[c]
        /\ req'[c] = req[c] /\ \A e \in Clients \ {c} : pc'[e] = pc[e]
    BY <1>1, <2>3, <2>4, GotoControl DEF IInv, Typed
  <2>6. Kept(d, None) /\ s.revision # None /\ Consistent(d, s.revision, s.content)
    BY <1>1, <2>1, <2>2, NoneNowhere DEF Allotted, Locals
  <2>7. /\ row' \in [Docs -> LiveRow \cup {None}]
        /\ ArchiveInjective' /\ Numbered' /\ RowsAgree' /\ Recorded'
    BY <2>3, <2>6, ReplaceKeeps
  <2>8. RowStored(c)'
    <3>1. row'[d] = s /\ s # None
      BY <2>3, NoneNowhere DEF IInv, Typed
    <3> QED
      BY <2>1, <2>2, <2>5, <3>1 DEF RowStored, Live, Present
  <2>9. Handlers'
    <3>1. Handler(c)'
      BY <2>5, <2>8 DEF Handler
    <3> QED
      BY <1>1, <2>5, <3>1, OthersQuiet DEF IInv, Typed
  <2> QED
    BY <2>3, <2>5, <2>7, <2>9 DEF IInv, Typed
<1> QED
  BY <1>2, <1>3 DEF StoreCreate

LEMMA RecallStoredKeeps ==
    ASSUME IInv, NEW c \in Clients, RecallStored(c)
    PROVE  IInv'
<1>1. /\ Working(c) /\ loc[c] \in Locals /\ req[c] \in Asks /\ req[c].op = "ingest"
      /\ req[c].id \in Docs /\ RowStored(c)
  BY AskParts DEF RecallStored, Working, IInv, Typed, Control, IngestSteps, Handlers, Handler
<1>2. CASE Fail(c)
  BY <1>2, LeaveKeeps DEF RecallStored, Fail, IInv, Typed
<1>3. CASE Present(req[c].id) /\ ~Fail(c)
  <2> DEFINE l == [loc[c] EXCEPT !.content = row[req[c].id].content]
  <2>1. row[req[c].id] \in LiveRow
    BY <1>1, <1>3 DEF Present, IInv, Typed
  <2>2. l \in Locals /\ l.revision = loc[c].revision /\ l.content # None
    BY <1>1, <2>1, NoneNowhere DEF Locals, LiveRow
  <2>3. Suits("flags", req[c], l)
    BY <1>1, <2>2 DEF Suits, Steps, IngestSteps, RollbackSteps
  <2>4. /\ pc' = [pc EXCEPT ![c] = "flags"] /\ loc' = [loc EXCEPT ![c] = l]
        /\ UNCHANGED <<lock, req, ok, row, archive, named, gone, forged, used>>
    BY <1>3 DEF RecallStored, Goto
  <2> HIDE DEF l
  <2>5. /\ Control' /\ LockHeld' /\ pc'[c] = "flags" /\ loc'[c] = l
        /\ req'[c] = req[c] /\ \A e \in Clients \ {c} : pc'[e] = pc[e]
    BY <1>1, <2>3, <2>4, GotoControl DEF IInv, Typed
  <2>6. RowStored(c)'
    BY <1>1, <2>2, <2>4, <2>5 DEF RowStored, Live, Present
  <2>7. Handler(c)'
    BY <1>1, <2>5, <2>6 DEF Handler
  <2> QED
    BY <1>1, <2>4, <2>5, <2>7, MoveKeeps DEF IInv, Typed
<1> QED
  BY <1>2, <1>3 DEF RecallStored

LEMMA SetFlagsKeeps ==
    ASSUME IInv, NEW c \in Clients, SetFlags(c)
    PROVE  IInv'
<1>1. /\ Working(c) /\ loc[c] \in Locals /\ req[c] \in Asks
      /\ req[c].op \in {"ingest", "rollback"} /\ req[c].id \in Docs
      /\ req[c].op = "ingest" => req[c].content \in Bodies /\ RowStored(c)
      /\ req[c].op = "rollback" => Chosen(c)
      /\ loc[c].content # None
  BY AskParts DEF SetFlags, Working, IInv, Typed, Control, Handlers, Handler
<1> DEFINE answered == IF req[c].op = "ingest" THEN req[c].content ELSE loc[c].content
<1>2. answered \in Bodies
  BY <1>1 DEF Locals
<1>3. PICK d \in Docs, n \in Nat, body \in Bodies, live \in {loc[c].content} :
         d = req[c].id /\ n = loc[c].revision /\ body = answered
  BY <1>1, <1>2 DEF Locals
<1>4. /\ archive' = [archive EXCEPT ![d] = Flagged(d, live)]
      /\ Leave(c, TRUE) /\ named' = named \cup {<<d, n, body>>}
      /\ UNCHANGED <<row, gone, forged, used>>
  BY <1>3 DEF SetFlags, Answer
<1>5. archive' \in [Docs -> SUBSET Version] /\ Numbered' /\ ArchiveInjective' /\ SamePairs
  BY <1>4, FlaggingKeeps DEF IInv
<1>6. RowsAgree'
  BY <1>4, <1>5 DEF IInv, RowsAgree, Present, Consistent, SamePairs
<1>7. \A e \in Docs : \A m, b : Found(e, m, b) => Found(e, m, b)'
  BY <1>4, <1>5 DEF Found, InArchive, InRow, SamePairs
<1>8. Found(d, n, body)
  <2>1. CASE req[c].op = "ingest"
    BY <1>1, <1>3, <2>1 DEF RowStored, Found, InRow, Present
  <2>2. CASE req[c].op = "rollback"
    BY <1>1, <1>3, <2>2 DEF Chosen, Found, InArchive
  <2> QED
    BY <1>1, <2>1, <2>2
<1>9. Found(d, n, body)' /\ \A t \in named : Found(t[1], t[2], t[3])'
  BY <1>7, <1>8, RecordedFound DEF IInv, Typed
<1>10. row' \in [Docs -> LiveRow \cup {None}]
  BY <1>4 DEF IInv, Typed
<1> QED
  BY <1>1, <1>4, <1>5, <1>6, <1>9, <1>10, AnswerKeeps

LEMMA SelectKeeps ==
    ASSUME IInv, NEW c \in Clients, Select(c)
    PROVE  IInv'
<1>1. /\ Working(c) /\ loc[c] \in Locals /\ req[c] \in Asks /\ req[c].op = "rollback"
      /\ req[c].id \in Docs
  BY AskParts DEF Select, Working, IInv, Typed, Control, RollbackSteps
<1>2. PICK d \in Docs : d = req[c].id
  BY <1>1
<1>3. CASE Fail(c) /\ UNCHANGED archive
  BY <1>3, LeaveKeeps DEF Select, Fail, IInv, Typed
<1>4. ASSUME NEW v \in archive[d], Present(d),
             archive' = IF row[d].content = v.content THEN archive
                        ELSE [archive EXCEPT ![d] = Archived(d, row[d])],
             Goto(c, "upsert", [loc[c] EXCEPT !.live = row[d],
                       !.revision = v.version, !.content = v.content]),
             UNCHANGED <<named, row, gone, forged, used>>
      PROVE  IInv'
  <2> DEFINE l == [loc[c] EXCEPT !.live = row[d], !.revision = v.version,
                                 !.content = v.content]
  <2>1. row[d] \in LiveRow /\ row[d] # None /\ v \in Version
    BY <1>4 DEF Present, IInv, Typed
  <2>2. /\ l \in Locals /\ l.live = row[d]
        /\ l.revision = v.version /\ l.content = v.content /\ l.content # None
    BY <1>1, <2>1, NoneNowhere DEF Locals, Version
  <2>3. Suits("upsert", req[c], l)
    BY <1>1, <2>1, <2>2 DEF Suits, Steps, IngestSteps, RollbackSteps
  <2>4. /\ pc' = [pc EXCEPT ![c] = "upsert"] /\ loc' = [loc EXCEPT ![c] = l]
        /\ UNCHANGED <<lock, req, ok>>
    BY <1>4 DEF Goto
  <2> HIDE DEF l
  <2>5. /\ Control' /\ LockHeld' /\ pc'[c] = "upsert" /\ loc'[c] = l
        /\ req'[c] = req[c] /\ \A e \in Clients \ {c} : pc'[e] = pc[e]
    BY <1>1, <2>3, <2>4, GotoControl DEF IInv, Typed
  <2>6. /\ archive' \in [Docs -> SUBSET Version] /\ Numbered' /\ ArchiveInjective'
        /\ \A e \in Docs \ {d} : archive'[e] = archive[e]
        /\ d \notin forged => KeepsOutgoing(d, row[d])
    <3>1. row[d].revision # None => Consistent(d, row[d].revision, row[d].content)
      BY <1>4 DEF IInv, RowsAgree
    <3>2. CASE row[d].content = v.content
      BY <1>4, <3>1, <3>2 DEF IInv, Typed, Numbered, ArchiveInjective, Consistent, KeepsOutgoing
    <3>3. CASE row[d].content # v.content
      <4>1. PICK live : live = row[d]
        OBVIOUS
      <4>2. Archivable(d, live)
        BY <2>1, <3>1, <4>1 DEF Archivable
      <4>3. archive' = [archive EXCEPT ![d] = Archived(d, live)]
        BY <1>4, <3>3, <4>1
      <4> QED
        BY <2>1, <4>1, <4>2, <4>3, ArchivingKeeps DEF IInv
    <3> QED
      BY <3>2, <3>3
  <2>7. d \notin forged => \E w \in archive'[d] :
           w.content = row[d].content /\ (row[d].revision # None => w.version = row[d].revision)
    BY <2>1, <2>6 DEF KeepsOutgoing
  <2>8. RowsAgree'
    <3> SUFFICES ASSUME NEW e \in Docs \ forged, row[e] # None, row[e].revision # None,
                        NEW x \in archive'[e]
                 PROVE  x.version = row[e].revision <=> x.content = row[e].content
      BY <1>4 DEF IInv, RowsAgree, Present, Consistent
    <3>1. CASE e # d
      BY <2>6, <3>1 DEF IInv, RowsAgree, Present, Consistent
    <3>2. CASE e = d
      BY <2>6, <2>7, <3>2 DEF ArchiveInjective
    <3> QED
      BY <3>1, <3>2
  <2>9. Recorded'
    BY <1>4, <2>6 DEF IInv, Typed, Recorded, InArchive, InRow, KeepsOutgoing
  <2>10. Kept(d, None)'
    <3> SUFFICES ASSUME NEW t \in named, t[1] = d, d \notin forged
                 PROVE  d \in gone \/ InArchive(d, t[2], t[3])'
      BY <1>4 DEF Kept
    <3>1. d \in gone \/ InArchive(d, t[2], t[3]) \/ InRow(row[d], t[2], t[3])
      BY DEF IInv, Recorded
    <3>2. CASE InArchive(d, t[2], t[3])
      BY <1>4, <2>6, <3>2 DEF InArchive, KeepsOutgoing
    <3>3. CASE InRow(row[d], t[2], t[3])
      BY <1>4, <2>7, <3>3 DEF InArchive, InRow, IInv, RowsAgree, Present
    <3> QED
      BY <3>1, <3>2, <3>3
  <2>11. Chosen(c)'
    BY <1>2, <1>4, <2>2, <2>5, <2>6 DEF Chosen, KeepsOutgoing
  <2>12. Handlers'
    <3>1. Handler(c)'
      BY <1>1, <1>2, <2>5, <2>10, <2>11 DEF Handler
    <3> QED
      BY <1>1, <2>5, <3>1, OthersQuiet DEF IInv, Typed
  <2> QED
    BY <1>4, <2>5, <2>6, <2>8, <2>9, <2>12 DEF IInv, Typed
<1> QED
  BY <1>2, <1>3, <1>4 DEF Select

LEMMA UpsertKeeps ==
    ASSUME IInv, NEW c \in Clients, Upsert(c)
    PROVE  IInv'
<1>1. /\ Working(c) /\ loc[c] \in Locals /\ req[c] \in Asks /\ req[c].op = "rollback"
      /\ req[c].id \in Docs /\ loc[c].live # None /\ loc[c].content # None
      /\ Chosen(c) /\ Kept(req[c].id, None)
  BY AskParts DEF Upsert, Working, IInv, Typed, Control, RollbackSteps, Handlers, Handler
<1> DEFINE r == [content |-> loc[c].content, revision |-> loc[c].revision,
                 superseded_by |-> loc[c].live.superseded_by]
<1>2. PICK d \in Docs : d = req[c].id
  BY <1>1
<1>3. d \notin forged => \E v \in archive[d] :
         v.version = loc[c].revision /\ v.content = loc[c].content
  BY <1>1, <1>2 DEF Chosen
<1>4. r \in LiveRow /\ r.content = loc[c].content /\ r.revision = loc[c].revision
  <2>1. loc[c].live \in LiveRow /\ loc[c].content \in Bodies /\ loc[c].revision \in Nat
    BY <1>1 DEF Locals
  <2> QED
    BY <2>1 DEF LiveRow
<1>5. PICK s \in LiveRow : s = r
  BY <1>4
<1>6. /\ pc' = [pc EXCEPT ![c] = "flags"] /\ loc' = [loc EXCEPT ![c] = loc[c]]
      /\ row' = [row EXCEPT ![d] = s]
      /\ UNCHANGED <<lock, req, ok, archive, named, gone, forged, used>>
  BY <1>2, <1>5 DEF Upsert, Goto
<1> HIDE DEF r
<1>7. Suits("flags", req[c], loc[c])
  BY <1>1 DEF Suits, Steps, IngestSteps, RollbackSteps
<1>8. /\ Control' /\ LockHeld' /\ pc'[c] = "flags" /\ loc'[c] = loc[c]
      /\ req'[c] = req[c] /\ \A e \in Clients \ {c} : pc'[e] = pc[e]
  <2>1. Control /\ LockHeld
    BY DEF IInv, Typed
  <2>2. /\ Working(c) /\ pc' = [pc EXCEPT ![c] = "flags"]
        /\ loc' = [loc EXCEPT ![c] = loc[c]] /\ UNCHANGED <<lock, req, ok>>
    BY <1>1, <1>6
  <2> QED
    BY <1>7, <2>1, <2>2, GotoControl
<1>9. Kept(d, None) /\ s.revision # None /\ Consistent(d, s.revision, s.content)
  <2>1. s.revision # None
    BY <1>1, <1>4, <1>5, NoneNowhere DEF Locals
  <2>2. d \notin forged => Consistent(d, s.revision, s.content)
    BY <1>3, <1>4, <1>5, EntrySettles DEF IInv
  <2> QED
    BY <1>1, <1>2, <2>1, <2>2 DEF Consistent
<1>10. /\ row' \in [Docs -> LiveRow \cup {None}]
       /\ ArchiveInjective' /\ Numbered' /\ RowsAgree' /\ Recorded'
  BY <1>6, <1>9, ReplaceKeeps
<1>11. Handlers'
  <2>1. Chosen(c)'
    BY <1>1, <1>6, <1>8 DEF Chosen
  <2>2. Handler(c)'
    BY <1>1, <1>8, <2>1 DEF Handler
  <2> QED
    BY <1>1, <1>8, <2>2, OthersQuiet DEF IInv, Typed
<1> QED
  BY <1>6, <1>8, <1>10, <1>11 DEF IInv, Typed

-----------------------------------------------------------------------------
(* Plain writers *)

\* What one plain write can do to a row: keep its body and number, put a row
\* where none was, without a number or forged, or delete it for all to see.
PlainEffect(d) ==
    \/ row'[d] = row[d]
    \/ /\ row[d] # None /\ row'[d] # None
       /\ row'[d].content = row[d].content /\ row'[d].revision = row[d].revision
    \/ row[d] = None /\ row'[d] # None /\ (row'[d].revision = None \/ d \in forged')
    \/ row'[d] = None /\ d \in gone'

LEMMA PlainKeeps ==
    ASSUME IInv, UNCHANGED <<archive, lock, pc, req, loc, ok, named>>,
           row' \in [Docs -> LiveRow \cup {None}], gone' \subseteq Docs, gone \subseteq gone',
           forged' \subseteq Docs, forged \subseteq forged',
           used' \in [ingests : Nat, rollbacks : Nat, plain : Nat, faults : Nat],
           used'.plain # 0, \A d \in Docs : PlainEffect(d)
    PROVE  IInv'
<1>1. Typed' /\ LockHeld' /\ ArchiveInjective' /\ Numbered'
  BY DEF IInv, Typed, Control, LockHeld, Working, ArchiveInjective, Numbered
<1>2. RowsAgree'
  BY DEF IInv, RowsAgree, Present, Consistent, PlainEffect
<1>3. \A d, n, body : InArchive(d, n, body) => InArchive(d, n, body)'
  BY DEF InArchive
<1>4. ASSUME NEW d, NEW r, Kept(d, r) PROVE Kept(d, r)'
  BY <1>3, <1>4 DEF Kept, InRow
<1>5. Recorded'
  <2> SUFFICES ASSUME NEW t \in named
               PROVE  \/ t[1] \in gone' \cup forged' \/ InArchive(t[1], t[2], t[3])'
                      \/ InRow(row[t[1]], t[2], t[3])'
    BY DEF Recorded
  <2>1. PICK d \in Docs, n \in Nat, body \in Bodies : d = t[1] /\ n = t[2] /\ body = t[3]
    BY DEF IInv, Typed
  <2>2. d \in gone \cup forged \/ InArchive(d, n, body) \/ InRow(row[d], n, body)
    BY <2>1 DEF IInv, Recorded
  <2>3. CASE InRow(row[d], n, body)
    BY <2>1, <2>3 DEF InRow, PlainEffect
  <2> QED
    BY <1>3, <2>1, <2>2, <2>3
<1>6. \A c \in Clients : Handler(c)'
  <2> SUFFICES ASSUME NEW c \in Clients, pc[c] # "idle" PROVE Handler(c)'
    BY DEF Handler
  <2>1. req[c].id \in Docs /\ Handler(c)
    BY AskParts DEF IInv, Typed, Control, Handlers
  <2>2. PICK d \in Docs, live \in {loc[c].live} : d = req[c].id
    BY <2>1
  <2>3. Snapshot(c) => Snapshot(c)'
    <3> SUFFICES ASSUME Snapshot(c) PROVE Snapshot(c)'
      OBVIOUS
    <3>1. Kept(d, live)
      BY <2>2 DEF Snapshot
    <3>2. Kept(d, live)'
      BY <1>4, <3>1
    <3> QED
      BY <2>2, <3>2 DEF Snapshot, Consistent, Present, PlainEffect
  <2>4. CanonicalHolds(c) => CanonicalHolds(c)'
    BY DEF CanonicalHolds, Present, PlainEffect
  <2>5. Kept(req[c].id, None) => Kept(req[c].id, None)'
    BY <1>4, <2>2
  <2>6. Allotted(c) => Allotted(c)'
    BY <2>5 DEF Allotted, Consistent
  <2>7. RowStored(c) => RowStored(c)'
    BY <2>1 DEF RowStored, Present, PlainEffect
  <2>8. Chosen(c) => Chosen(c)'
    BY DEF Chosen
  <2> QED
    BY <2>1, <2>3, <2>4, <2>5, <2>6, <2>7, <2>8 DEF Handler
<1> QED
  BY <1>1, <1>2, <1>5, <1>6 DEF IInv, Handlers

LEMMA PlainUsed ==
    ASSUME Typed, Plain
    PROVE  /\ used' \in [ingests : Nat, rollbacks : Nat, plain : Nat, faults : Nat]
           /\ used'.plain # 0
           /\ UNCHANGED <<archive, lock, pc, req, loc, ok, named>>
  BY DEF Typed, Plain, Spend

\* A row a plain save may bring, and what is recorded of its number.
LEMMA PlainRowFits ==
    ASSUME IInv, NEW d \in Docs, NEW r \in PlainRows, Forge(d, r)
    PROVE  /\ r \in LiveRow /\ r # None /\ (r.revision = None \/ d \in forged')
           /\ forged' \subseteq Docs /\ forged \subseteq forged'
<1>1. r \in LiveRow /\ r # None
  BY PlainFields, NoneNowhere DEF PlainRows, LiveRow
<1> QED
  BY <1>1 DEF Forge, IInv, Typed

LEMMA PlainSaveKeeps ==
    ASSUME IInv, NEW d \in Docs, NEW r \in PlainRows, PlainSave(d, r)
    PROVE  IInv'
<1>1. /\ r \in LiveRow /\ r # None /\ (r.revision = None \/ d \in forged')
      /\ forged' \subseteq Docs /\ forged \subseteq forged'
  BY PlainRowFits DEF PlainSave
<1>2. /\ row \in [Docs -> LiveRow \cup {None}] /\ gone \subseteq Docs
      /\ row' = [row EXCEPT ![d] = r] /\ row[d] = None /\ UNCHANGED gone
  BY DEF IInv, Typed, PlainSave, Present
<1>3. \A e \in Docs : PlainEffect(e)
  BY <1>1, <1>2 DEF PlainEffect
<1>4. row' \in [Docs -> LiveRow \cup {None}]
  BY <1>1, <1>2
<1> QED
  BY <1>1, <1>2, <1>3, <1>4, PlainUsed, PlainKeeps DEF PlainSave, IInv

LEMMA PlainCorrectionKeeps ==
    ASSUME IInv, NEW d \in Docs, NEW t \in Docs, NEW r \in PlainRows,
           PlainCorrection(d, t, r)
    PROVE  IInv'
<1> DEFINE old == [row[t] EXCEPT !.superseded_by = d]
<1>1. /\ r \in LiveRow /\ r # None /\ (r.revision = None \/ d \in forged')
      /\ forged' \subseteq Docs /\ forged \subseteq forged'
  BY PlainRowFits DEF PlainCorrection
<1>2. /\ row \in [Docs -> LiveRow \cup {None}] /\ gone \subseteq Docs
      /\ row[d] = None /\ row[t] # None /\ d # t /\ UNCHANGED gone
      /\ row' = [row EXCEPT ![d] = r, ![t].superseded_by = d]
  BY DEF IInv, Typed, PlainCorrection, Present, Live
<1>3. /\ old \in LiveRow /\ old # None
      /\ old.content = row[t].content /\ old.revision = row[t].revision
  BY <1>2, NoneNowhere DEF LiveRow
<1>4. row' = [row EXCEPT ![d] = r, ![t] = old]
  BY <1>2
<1> HIDE DEF old
<1>5. \A e \in Docs : PlainEffect(e)
  BY <1>1, <1>2, <1>3, <1>4 DEF PlainEffect
<1>6. row' \in [Docs -> LiveRow \cup {None}]
  BY <1>1, <1>2, <1>3, <1>4
<1> QED
  BY <1>1, <1>2, <1>5, <1>6, PlainUsed, PlainKeeps DEF PlainCorrection, IInv

LEMMA PlainDeleteKeeps ==
    ASSUME IInv, NEW d \in Docs, PlainDelete(d)
    PROVE  IInv'
<1>1. /\ row \in [Docs -> LiveRow \cup {None}] /\ gone \subseteq Docs
      /\ row' = [row EXCEPT ![d] = None] /\ gone' = gone \cup {d}
      /\ forged \subseteq Docs /\ UNCHANGED forged
  BY DEF IInv, Typed, PlainDelete
<1>2. \A e \in Docs : PlainEffect(e)
  BY <1>1 DEF PlainEffect
<1>3. row' \in [Docs -> LiveRow \cup {None}]
  BY <1>1
<1> QED
  BY <1>1, <1>2, <1>3, PlainUsed, PlainKeeps DEF PlainDelete, IInv

-----------------------------------------------------------------------------
(* The theorems *)

LEMMA IInvInit == Init => IInv
<1> SUFFICES ASSUME Init PROVE IInv
  OBVIOUS
<1>1. Control /\ LockHeld /\ Handlers
  BY DEF Init, Control, LockHeld, Working, Handlers, Handler, Steps, IngestSteps,
         RollbackSteps, Locals, NoLocals
<1>2. ArchiveInjective /\ Numbered /\ RowsAgree /\ Recorded
  BY DEF Init, ArchiveInjective, Numbered, RowsAgree, Recorded, Present
<1>3. Typed
  BY <1>1 DEF Init, Typed
<1> QED
  BY <1>1, <1>2, <1>3 DEF IInv

LEMMA StutterKeeps ==
    ASSUME IInv, UNCHANGED vars
    PROVE  IInv'
<1>1. \A e \in Clients : Handler(e)'
  BY HandlerKept DEF IInv, Handlers, vars
<1>2. Typed' /\ LockHeld'
  BY DEF IInv, Typed, Control, LockHeld, Working, vars
<1> QED
  BY <1>1, <1>2, WallKept DEF IInv, Handlers, vars

\* Every step of every operation, of a plain writer and of a failure keeps the
\* invariant.
LEMMA IInvInductive == IInv /\ [Next]_vars => IInv'
<1> SUFFICES ASSUME IInv, [Next]_vars PROVE IInv'
  OBVIOUS
<1>1. CASE \E c \in Clients : \E r \in Asks : Receive(c, r)
  BY <1>1, ReceiveKeeps
<1>2. ASSUME NEW c \in Clients, Progress(c) PROVE IInv'
  BY <1>2, ReadLiveKeeps, DedupKeeps, RecallCanonicalKeeps, RetireKeeps, AllocateKeeps,
     DeleteRowKeeps, StoreCheckKeeps, StoreCreateKeeps, RecallStoredKeeps, SetFlagsKeeps,
     SelectKeeps, UpsertKeeps DEF Progress
<1>3. ASSUME NEW c \in Clients, TakeLock(c) \/ StoreError(c) \/ Drop(c) PROVE IInv'
  BY <1>3, TakeLockKeeps, StoreErrorKeeps, DropKeeps
<1>4. CASE \E d \in Docs : \E r \in PlainRows : PlainSave(d, r)
  BY <1>4, PlainSaveKeeps
<1>5. CASE \E d, t \in Docs : \E r \in PlainRows : PlainCorrection(d, t, r)
  BY <1>5, PlainCorrectionKeeps
<1>6. CASE \E d \in Docs : PlainDelete(d)
  BY <1>6, PlainDeleteKeeps
<1> QED
  BY <1>1, <1>2, <1>3, <1>4, <1>5, <1>6, CrashKeeps, StutterKeeps DEF Next

LEMMA IInvHolds == Spec => []IInv
  BY IInvInit, IInvInductive, PTL DEF Spec

\* A doc's archive never holds a body twice or a number twice, whatever
\* ingests, rollbacks, plain writes, errors, dropped requests and crashes do.
THEOREM ArchiveStaysInjective == Spec => []ArchiveInjective
<1>1. IInv => ArchiveInjective
  BY DEF IInv
<1> QED
  BY <1>1, IInvHolds, PTL

\* A body a client was told is stored stays live or archived until its doc is
\* deleted or a plain save brings a row of that id with a revision of its own:
\* commit_doctrine_ingest archives before it deletes.
THEOREM NothingIsLost == Spec => []NothingLost
<1>1. IInv => NothingLost
  BY DEF IInv, Recorded, InArchive, InRow, NothingLost, Present
<1> QED
  BY <1>1, IInvHolds, PTL

\* Without plain writes on the wall, a number of a doc names one body for good:
\* in every answer ever given, in the archive and on the live row.
THEOREM RevisionsAreStable == Spec => []StableIdentity
<1>1. ASSUME IInv PROVE StableIdentity
  <2> SUFFICES ASSUME used.plain = 0, NEW d \in Docs, NEW a \in Bodies, NEW b \in Bodies,
                      NEW n \in 1..(MaxIngests + MaxPlain + 1), Names(d, n, a), Names(d, n, b)
               PROVE  a = b
    BY DEF StableIdentity
  <2>1. /\ gone = {} /\ forged = {}
        /\ Present(d) => Consistent(d, row[d].revision, row[d].content)
    BY <1>1 DEF IInv, RowsAgree
  <2>2. ASSUME NEW x, Names(d, n, x)
        PROVE  \/ \E v \in archive[d] : v.version = n /\ v.content = x
               \/ Present(d) /\ row[d].revision = n /\ row[d].content = x
    <3>1. CASE <<d, n, x>> \in named
      BY <1>1, <2>1, <3>1 DEF IInv, Recorded, InArchive, InRow, Present
    <3> QED
      BY <2>2, <3>1 DEF Names
  <2>3. \A v, w \in archive[d] : v.version = w.version => v = w
    BY <1>1 DEF IInv, ArchiveInjective
  <2> QED
    BY <2>1, <2>2, <2>3 DEF Consistent
<1> QED
  BY <1>1, IInvHolds, PTL

-----------------------------------------------------------------------------
(* Ingests serve their body, and serve it once *)

\* An answer that names an ingest's body comes from a row that is live then.
LEMMA AnswerServes ==
    ASSUME IInv, NEW c \in Clients, ok'[c], ~ok[c], req[c].op = "ingest", used.plain = 0,
           [Next]_vars
    PROVE  \E d \in Docs : Live(d)' /\ row'[d].content = req[c].content
<1> USE DEF IInv
<1>1. ok \in [Clients -> BOOLEAN] /\ row \in [Docs -> LiveRow \cup {None}]
  BY DEF Typed, Control
<1>2. ASSUME NEW e \in Clients, Leave(e, FALSE) PROVE FALSE
  BY <1>1, <1>2 DEF Leave
<1>3. ASSUME NEW e \in Clients, Leave(e, TRUE) PROVE e = c
  BY <1>1, <1>3 DEF Leave
<1>4. ~UNCHANGED ok
  OBVIOUS
<1>5. CASE ReadLive(c)
  <2>1. Satisfied(c) /\ UNCHANGED row
    BY <1>4, <1>5 DEF ReadLive, Goto
  <2>2. req[c].id \in Docs
    BY <1>5, AskParts DEF ReadLive, Typed, Control
  <2> QED
    BY <2>1, <2>2 DEF Satisfied, Live, Present
<1>6. CASE RecallCanonical(c)
  <2>1. UNCHANGED row
    BY <1>6 DEF RecallCanonical
  <2>2. CanonicalHolds(c)
    BY <1>6 DEF RecallCanonical, Handlers, Handler
  <2>3. gone = {}
    BY DEF RowsAgree
  <2> QED
    BY <2>1, <2>2, <2>3 DEF CanonicalHolds, Live, Present
<1>7. CASE Retire(c)
  <2>1. CanonicalHolds(c) /\ gone = {}
    BY <1>7 DEF Retire, Handlers, Handler, RowsAgree
  <2>2. PICK k \in Docs : k = loc[c].canonical
    BY <2>1 DEF CanonicalHolds
  <2>3. row'[k] = row[k]
    BY <1>1, <1>7, <2>1, <2>2 DEF Retire, CanonicalHolds
  <2>4. Live(k)' /\ row'[k].content = req[c].content
    BY <2>1, <2>2, <2>3 DEF CanonicalHolds, Live, Present
  <2> QED
    BY <2>4
<1>8. CASE SetFlags(c)
  <2>1. RowStored(c) /\ gone = {} /\ UNCHANGED row
    BY <1>8 DEF SetFlags, Handlers, Handler, RowsAgree
  <2>2. PICK k \in Docs : k = req[c].id
    BY <1>8, AskParts DEF SetFlags, Typed, Control
  <2>3. Live(k)' /\ row'[k].content = req[c].content
    BY <2>1, <2>2 DEF RowStored, Live, Present
  <2> QED
    BY <2>3
<1>9. ASSUME NEW e \in Clients, Progress(e)
      PROVE  ReadLive(c) \/ RecallCanonical(c) \/ Retire(c) \/ SetFlags(c)
  <2>1. CASE ReadLive(e)
    BY <1>3, <1>4, <2>1 DEF ReadLive, Answer, Goto
  <2>2. CASE RecallCanonical(e)
    BY <1>2, <1>3, <1>4, <2>2 DEF RecallCanonical, Answer, Fail, Goto
  <2>3. CASE Retire(e)
    BY <1>3, <2>3 DEF Retire, Answer
  <2>4. CASE SetFlags(e)
    BY <1>3, <2>4 DEF SetFlags, Answer
  <2> QED
    BY <1>2, <1>4, <1>9, <2>1, <2>2, <2>3, <2>4
       DEF Progress, Dedup, Allocate, DeleteRow, StoreCheck, StoreCreate, RecallStored, Select,
           Upsert, Goto, Fail
<1>10. ASSUME NEW e \in Clients, TakeLock(e) \/ StoreError(e) \/ Drop(e) PROVE FALSE
  BY <1>2, <1>4, <1>10 DEF TakeLock, StoreError, Drop, Fail, Goto
<1>11. ASSUME NEW e \in Clients, NEW r \in Asks, Receive(e, r) PROVE FALSE
  BY <1>1, <1>11 DEF Receive
<1>12. ~Crash
  BY DEF Crash
<1>13. ~Plain
  BY <1>4 DEF Plain
<1>14. \E e \in Clients : Progress(e)
  BY <1>4, <1>10, <1>11, <1>12, <1>13
     DEF Next, vars, PlainSave, PlainCorrection, PlainDelete
<1> QED
  BY <1>5, <1>6, <1>7, <1>8, <1>9, <1>14

\* commit_doctrine_ingest answers Ok only while its body is live in the wall, at
\* the requested id or at the canonical one (no plain writer about).
THEOREM IngestsServe == Spec => IngestServes
<1>1. IInv /\ [Next]_vars =>
        [\A c \in Clients :
            Undisturbed /\ ok'[c] /\ ~ok[c] /\ req[c].op = "ingest" =>
                \E d \in Docs : Live(d)' /\ row'[d].content = req[c].content]_vars
  BY AnswerServes DEF Undisturbed
<1> QED
  BY <1>1, IInvHolds, PTL DEF Spec, IngestServes

\* Until a rollback or a plain writer comes along, live rows differ in their
\* bodies; an ingest about to create its row has checked that nobody holds its body,
\* and under the lock nobody else can have written it since.
Sole ==
    used.rollbacks = 0 /\ used.plain = 0 =>
        /\ \A a, b \in Docs : Live(a) /\ Live(b) /\ row[a].content = row[b].content => a = b
        /\ \A c \in Clients : pc[c] # "idle" => req[c].op = "ingest"
        /\ \A c \in Clients : pc[c] = "create" => Holders(req[c].content) = {}

\* Live rows are among those before, with their bodies.
FewerLive ==
    \A d \in Docs : Live(d)' => Live(d) /\ row'[d].content = row[d].content

LEMMA SoleKept ==
    ASSUME IInv, Sole, FewerLive,
           used'.rollbacks >= used.rollbacks, used'.plain >= used.plain,
           \A c \in Clients : pc'[c] # "idle" => pc[c] # "idle" /\ req'[c] = req[c],
           \A c \in Clients : pc'[c] = "create" => pc[c] = "create" \/ Holders(req[c].content) = {}
    PROVE  Sole'
<1> SUFFICES ASSUME used'.rollbacks = 0, used'.plain = 0 PROVE Sole'
  BY DEF Sole
<1>1. used.rollbacks = 0 /\ used.plain = 0
  BY DEF IInv, Typed
<1>2. \A body : Holders(body)' \subseteq Holders(body)
  BY DEF Holders, FewerLive
<1>3. \A c \in Clients : pc'[c] = "create" => Holders(req[c].content)' = {}
  <2> SUFFICES ASSUME NEW c \in Clients, pc'[c] = "create" PROVE Holders(req[c].content)' = {}
    OBVIOUS
  <2>1. PICK body : body = req[c].content
    OBVIOUS
  <2>2. Holders(body) = {}
    BY <1>1, <2>1 DEF Sole
  <2>3. Holders(body)' = {}
    BY <1>2, <2>2
  <2> QED
    BY <2>1, <2>3
<1> QED
  BY <1>1, <1>3 DEF Sole, FewerLive

\* Control of a step that ends in Goto or Leave, as SoleKept wants it.
LEMMA SoleControl ==
    ASSUME Control, NEW c \in Clients, pc[c] # "idle",
           Leave(c, TRUE) \/ Leave(c, FALSE)
             \/ \E step \in Steps \ {"create"} : \E l : Goto(c, step, l)
    PROVE  /\ \A e \in Clients : pc'[e] # "idle" => pc[e] # "idle" /\ req'[e] = req[e]
           /\ \A e \in Clients : pc'[e] = "create" => pc[e] = "create"
<1>1. CASE Leave(c, TRUE) \/ Leave(c, FALSE)
  BY <1>1 DEF Leave, Control
<1>2. CASE \E step \in Steps \ {"create"} : \E l : Goto(c, step, l)
  BY <1>2 DEF Goto, Control
<1> QED
  BY <1>1, <1>2

LEMMA SoleInductive == IInv /\ Sole /\ [Next]_vars => Sole'
<1> SUFFICES ASSUME IInv, Sole, [Next]_vars PROVE Sole'
  OBVIOUS
<1>1. /\ used \in [ingests : Nat, rollbacks : Nat, plain : Nat, faults : Nat]
      /\ row \in [Docs -> LiveRow \cup {None}] /\ Control
  BY DEF IInv, Typed
<1>2. ASSUME UNCHANGED row PROVE FewerLive
  BY <1>2 DEF FewerLive, Live, Present
<1>3. ASSUME NEW c \in Clients, NEW r \in Asks, Receive(c, r) PROVE Sole'
  <2> SUFFICES ASSUME used'.rollbacks = 0, used'.plain = 0 PROVE Sole'
    BY DEF Sole
  <2>1. r.op = "ingest" /\ used.rollbacks = 0 /\ used.plain = 0 /\ UNCHANGED row
    BY <1>1, <1>3 DEF Receive, Spend
  <2>2. /\ pc'[c] = "lock" /\ req'[c] = r
        /\ \A e \in Clients \ {c} : pc'[e] = pc[e] /\ req'[e] = req[e]
    BY <1>1, <1>3 DEF Receive, Control
  <2> QED
    BY <2>1, <2>2 DEF Sole, Live, Present, Holders
<1>4. ASSUME NEW c \in Clients, TakeLock(c) PROVE Sole'
  <2>1. /\ UNCHANGED <<row, used, req>> /\ pc[c] = "lock"
        /\ pc'[c] # "create" /\ \A e \in Clients \ {c} : pc'[e] = pc[e]
    BY <1>1, <1>4 DEF TakeLock, Control
  <2> QED
    BY <1>1, <1>2, <2>1, SoleKept
<1>5. ASSUME NEW c \in Clients, StoreError(c) \/ Drop(c) PROVE Sole'
  <2>1. /\ UNCHANGED row /\ pc[c] # "idle"
        /\ used'.rollbacks >= used.rollbacks /\ used'.plain >= used.plain
    BY <1>1, <1>5 DEF StoreError, Drop, Spend
  <2>2. Leave(c, FALSE) \/ \E step \in Steps \ {"create"} : \E l : Goto(c, step, l)
    <3>1. "check" \in Steps \ {"create"}
      BY DEF Steps, IngestSteps
    <3> QED
      BY <1>5, <3>1 DEF StoreError, Drop, Fail
  <2> QED
    BY <1>1, <1>2, <2>1, <2>2, SoleControl, SoleKept
<1>6. CASE Crash
  <2>1. /\ UNCHANGED row /\ \A e \in Clients : pc'[e] = "idle"
        /\ used'.rollbacks >= used.rollbacks /\ used'.plain >= used.plain
    BY <1>1, <1>6 DEF Crash, Spend
  <2> QED
    BY <1>2, <2>1, SoleKept
<1>7. ASSUME Plain PROVE Sole'
  <2>1. used'.plain # 0
    BY <1>1, <1>7 DEF Plain, Spend
  <2> QED
    BY <2>1 DEF Sole
<1>8. CASE UNCHANGED vars
  BY <1>1, <1>2, <1>8, SoleKept DEF vars
<1>9. ASSUME NEW c \in Clients, Progress(c) PROVE Sole'
  <2>0. pc[c] # "idle" /\ used' = used
    BY <1>9 DEF Progress, ReadLive, Dedup, RecallCanonical, Retire, Allocate, DeleteRow,
                StoreCheck, StoreCreate, RecallStored, SetFlags, Select, Upsert
  <2>1. /\ pc[c] # "idle" /\ used' = used
        /\ used'.rollbacks >= used.rollbacks /\ used'.plain >= used.plain
    BY <1>1, <2>0
  <2>2. CASE ReadLive(c) \/ Dedup(c) \/ RecallCanonical(c) \/ Allocate(c) \/ RecallStored(c)
               \/ SetFlags(c) \/ Select(c)
    <3>1. UNCHANGED row
      BY <2>2 DEF ReadLive, Dedup, RecallCanonical, Allocate, RecallStored, SetFlags, Select
    <3>2. {"dedup", "canonical", "retire", "allocate", "delete", "flags", "upsert"}
             \subseteq Steps \ {"create"}
      BY DEF Steps, IngestSteps, RollbackSteps
    <3>3. Leave(c, TRUE) \/ Leave(c, FALSE)
            \/ \E step \in Steps \ {"create"} : \E l : Goto(c, step, l)
      BY <2>2, <3>2 DEF ReadLive, Dedup, RecallCanonical, Allocate, RecallStored, SetFlags,
                        Select, Answer, Fail
    <3> QED
      BY <1>1, <1>2, <2>1, <3>1, <3>3, SoleControl, SoleKept
  <2>3. CASE Retire(c)
    <3>1. PICK d \in Docs, k \in Docs : d = req[c].id /\ k = loc[c].canonical
      BY <2>3, AskParts
         DEF Retire, IInv, Handlers, Handler, CanonicalHolds, Typed, Control
    <3>2. k # None
      BY NoneNowhere
    <3>3. CASE row[d] = None
      <4>1. UNCHANGED row
        BY <2>3, <3>1, <3>3 DEF Retire, Present
      <4> QED
        BY <1>1, <1>2, <2>1, <2>3, <4>1, SoleControl, SoleKept DEF Retire, Answer
    <3>4. CASE row[d] # None
      <4> DEFINE r == [row[d] EXCEPT !.superseded_by = k]
      <4>1. row' = [row EXCEPT ![d] = r]
        BY <2>3, <3>1, <3>4 DEF Retire, Present
      <4>2. r.superseded_by = k
        BY <1>1, <3>4 DEF LiveRow
      <4> HIDE DEF r
      <4>3. FewerLive
        BY <1>1, <3>2, <4>1, <4>2 DEF FewerLive, Live, Present
      <4> QED
        BY <1>1, <2>1, <2>3, <4>3, SoleControl, SoleKept DEF Retire, Answer
    <3> QED
      BY <3>3, <3>4
  <2>4. CASE DeleteRow(c)
    <3>1. FewerLive
      BY <1>1, <2>4 DEF DeleteRow, FewerLive, Live, Present
    <3>2. "check" \in Steps \ {"create"}
      BY DEF Steps, IngestSteps
    <3> QED
      BY <1>1, <2>1, <2>4, <3>1, <3>2, SoleControl, SoleKept DEF DeleteRow
  <2>5. CASE StoreCheck(c)
    <3>1. UNCHANGED row
      BY <2>5 DEF StoreCheck
    <3>2. CASE Fail(c)
      BY <1>1, <1>2, <2>1, <3>1, <3>2, SoleControl, SoleKept DEF Fail
    <3>3. CASE Holders(req[c].content) = {} /\ Goto(c, "create", loc[c])
      <4>1. /\ \A e \in Clients : pc'[e] # "idle" => pc[e] # "idle" /\ req'[e] = req[e]
            /\ \A e \in Clients : pc'[e] = "create" =>
                  pc[e] = "create" \/ Holders(req[e].content) = {}
        BY <1>1, <2>1, <3>3 DEF Goto, Control
      <4> QED
        BY <1>1, <1>2, <2>1, <3>1, <4>1, SoleKept
    <3> QED
      BY <2>5, <3>2, <3>3 DEF StoreCheck
  <2>6. CASE Upsert(c)
    <3>1. req[c].op = "rollback"
      BY <2>6 DEF Upsert, IInv, Typed, Control, RollbackSteps
    <3>2. ~(used.rollbacks = 0 /\ used.plain = 0)
      BY <2>1, <3>1 DEF Sole
    <3> QED
      BY <2>1, <3>2 DEF Sole
  <2>7. CASE StoreCreate(c)
    <3>1. CASE Fail(c) /\ UNCHANGED row
      BY <1>1, <1>2, <2>1, <3>1, SoleControl, SoleKept DEF Fail
    <3> DEFINE r == [content |-> req[c].content, revision |-> loc[c].revision,
                     superseded_by |-> None]
    <3>2. CASE Goto(c, "recall", loc[c]) /\ row' = [row EXCEPT ![req[c].id] = r]
      <4> SUFFICES ASSUME used.rollbacks = 0, used.plain = 0 PROVE Sole'
        BY <2>1 DEF Sole
      <4>1. PICK d \in Docs : d = req[c].id
        BY <2>7, AskParts DEF StoreCreate, IInv, Typed, Control
      <4>2. row' = [row EXCEPT ![d] = r] /\ r.content = req[c].content
        BY <3>2, <4>1
      <4> HIDE DEF r
      <4>3. row'[d].content = req[c].content /\ \A e \in Docs \ {d} : row'[e] = row[e]
        BY <1>1, <4>2
      <4>4. \A e \in Docs : Live(e) => row[e].content # req[c].content
        BY <2>7 DEF StoreCreate, Sole, Holders
      <4>5. \A e \in Clients \ {c} : pc'[e] # "create"
        BY <1>1, <2>7, <3>2 DEF StoreCreate, Goto, Control, IInv, LockHeld, Working
      <4>6. /\ \A e \in Clients : pc'[e] # "idle" => pc[e] # "idle" /\ req'[e] = req[e]
            /\ pc'[c] # "create"
        BY <1>1, <2>1, <3>2 DEF Goto, Control
      <4>7. \A a, b \in Docs : Live(a)' /\ Live(b)' /\ row'[a].content = row'[b].content => a = b
        BY <4>3, <4>4 DEF Sole, Live, Present
      <4> QED
        BY <4>5, <4>6, <4>7 DEF Sole
    <3> QED
      BY <2>7, <3>1, <3>2 DEF StoreCreate
  <2> QED
    BY <1>9, <2>2, <2>3, <2>4, <2>5, <2>6, <2>7 DEF Progress
<1> QED
  BY <1>3, <1>4, <1>5, <1>6, <1>7, <1>8, <1>9
     DEF Next, PlainSave, PlainCorrection, PlainDelete

\* However ingests interleave, fail and crash, no two live rows of the wall
\* hold one body (no rollback and no plain writer about).
THEOREM OneHolderOnly == Spec => []OneLiveHolder
<1>1. Init => Sole
  BY DEF Init, Sole, Live, Present
<1>2. Sole => OneLiveHolder
  <2> SUFFICES ASSUME Sole, used.rollbacks = 0, used.plain = 0, NEW body \in Bodies
               PROVE  Cardinality(Holders(body)) <= 1
    BY DEF OneLiveHolder
  <2>1. \A a, b \in Holders(body) : a = b
    BY DEF Sole, Holders
  <2>2. CASE Holders(body) = {}
    BY <2>2, FS_EmptySet
  <2>3. CASE Holders(body) # {}
    <3>1. PICK a : Holders(body) = {a}
      BY <2>1, <2>3
    <3> QED
      BY <3>1, FS_Singleton
  <2> QED
    BY <2>2, <2>3
<1> QED
  BY <1>1, <1>2, SoleInductive, IInvHolds, PTL DEF Spec

=============================================================================
