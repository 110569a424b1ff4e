-------------------------- MODULE FederationProofs --------------------------
(***************************************************************************)
(* Proofs about Federation and the Mining it extends, for any number of      *)
(* clients, texts, sessions, model replies, environments and routed writes.  *)
(*                                                                         *)
(* Nothing in these handlers is locked: what they know when they resume is   *)
(* in the job they carry, so the invariant is about jobs.                    *)
(***************************************************************************)
EXTENDS Federation, FiniteSetTheorems, TLAPS

-----------------------------------------------------------------------------
(* merge_extractions invents nothing *)

\* A set of numbers has a least one.
LEMMA LeastNumber ==
    ASSUME NEW T, \A y \in T : y \in Nat, T # {}
    PROVE  \E m \in T : \A y \in T : ~(y < m)
<1> DEFINE R == {ss \in Nat \X Nat : ss[1] < ss[2]}
<1>1. IsWellFoundedOn(R, Nat)
  BY NatLessThanWellFounded, Zenon DEF OpToRel
<1>2. T \subseteq Nat
  OBVIOUS
<1> HIDE DEF R
<1>3. PICK m \in T : \A y \in T : ~(<<y, m>> \in R)
  BY <1>1, <1>2, WFMin
<1>4. \A y \in T : y < m => <<y, m>> \in R
  BY DEF R
<1> QED
  BY <1>3, <1>4

\* A finite set of positive numbers has a k-th one.
LEMMA NthExists ==
    ASSUME NEW n \in Nat, NEW I, \A j \in I : j \in Nat /\ j > 0 /\ j <= n,
           NEW k, k \in 1..Cardinality(I)
    PROVE  Nth(I, k) \in I
<1> DEFINE Below(m) == {j \in I : j <= m}
           T == {m \in Nat : Cardinality(Below(m)) >= k}
<1>1. IsFiniteSet(I) /\ Cardinality(I) \in Nat /\ k \in Nat /\ k > 0 /\ k <= Cardinality(I)
  <2>1. I \subseteq 1..n
    OBVIOUS
  <2>2. IsFiniteSet(1..n)
    BY FS_Interval
  <2>3. IsFiniteSet(I)
    BY <2>1, <2>2, FS_Subset
  <2>4. Cardinality(I) \in Nat
    BY <2>3, FS_CardinalityType
  <2> QED
    BY <2>3, <2>4
<1>2. \A m \in Nat : IsFiniteSet(Below(m)) /\ Cardinality(Below(m)) \in Nat
  <2>1. \A m \in Nat : Below(m) \in SUBSET I
    OBVIOUS
  <2> HIDE DEF Below
  <2> QED
    BY <1>1, <2>1, FS_Subset, FS_CardinalityType
<1>3. n \in T
  <2>1. Below(n) = I
    OBVIOUS
  <2> HIDE DEF Below
  <2> QED
    BY <1>1, <2>1
<1>4. PICK m \in T : \A y \in T : ~(y < m)
  <2>1. \A y \in T : y \in Nat
    OBVIOUS
  <2> HIDE DEF T
  <2> QED
    BY <1>3, <2>1, LeastNumber
<1>5. m \in Nat /\ Cardinality(Below(m)) >= k
  BY <1>4
<1>6. m # 0
  <2>1. Below(0) = {}
    OBVIOUS
  <2>2. Cardinality({}) = 0
    BY FS_EmptySet
  <2> HIDE DEF Below
  <2> QED
    BY <1>1, <1>5, <2>1, <2>2
<1>7. m - 1 \in Nat /\ Cardinality(Below(m - 1)) < k
  <2>1. m - 1 \in Nat /\ m - 1 < m
    BY <1>5, <1>6
  <2>2. m - 1 \notin T
    <3> HIDE DEF T
    <3> QED
      BY <1>4, <2>1
  <2>3. ~(Cardinality(Below(m - 1)) >= k) /\ Cardinality(Below(m - 1)) \in Nat
    BY <1>2, <2>1, <2>2
  <2> HIDE DEF Below
  <2> QED
    BY <1>1, <2>1, <2>3
<1>8. CASE m \notin I
  <2>1. Below(m) = Below(m - 1)
    BY <1>5, <1>7, <1>8
  <2> HIDE DEF Below
  <2> QED
    BY <1>1, <1>2, <1>5, <1>7, <2>1
<1>9. CASE m \in I
  <2>1. Below(m) = Below(m - 1) \cup {m} /\ m \notin Below(m - 1)
    <3>1. \A j \in I : j <= m <=> j <= m - 1 \/ j = m
      BY <1>5, <1>7
    <3>2. ~(m <= m - 1)
      BY <1>5
    <3> QED
      BY <1>9, <3>1, <3>2
  <2>2. Cardinality(Below(m)) = k
    <3> HIDE DEF Below
    <3>1. Cardinality(Below(m - 1) \cup {m}) = Cardinality(Below(m - 1)) + 1
      BY <1>2, <1>7, <2>1, FS_AddElement
    <3> QED
      BY <1>1, <1>2, <1>5, <1>7, <2>1, <3>1
  <2> QED
    BY <1>9, <2>2 DEF Nth
<1> QED
  BY <1>8, <1>9

LEMMA MergeKeepsOnly ==
    ASSUME NEW S, NEW s \in Seq(S)
    PROVE  /\ MergeExtractions(s) \in Seq(S)
           /\ \A i \in 1..Len(MergeExtractions(s)) : \E j \in 1..Len(s) :
                 MergeExtractions(s)[i] = s[j]
<1> DEFINE I == Firsts(s)
           n == Cardinality(I)
<1>1. Len(s) \in Nat /\ I \subseteq 1..Len(s)
  BY DEF Firsts
<1>2. MergeExtractions(s) = [k \in 1..n |-> s[Nth(I, k)]]
  BY DEF MergeExtractions
<1> HIDE DEF I
<1>3. \A j \in I : j \in Nat /\ j > 0 /\ j <= Len(s)
  BY <1>1
<1>4. \A k \in 1..n : Nth(I, k) \in 1..Len(s)
  BY <1>1, <1>3, NthExists
<1>5. n \in Nat
  <2>1. IsFiniteSet(1..Len(s))
    BY <1>1, FS_Interval
  <2> QED
    BY <1>1, <2>1, FS_Subset, FS_CardinalityType
<1> QED
  BY <1>2, <1>4, <1>5

\* What a pass may archive unseen: what the rules found, what the model is sure of.
Cleared(s) ==
    /\ s \in Seq(Extraction)
    /\ \A i \in 1..Len(s) : s[i].kind = "Auto" => s[i].fact \in AutoFacts

LEMMA MineCleared ==
    ASSUME NEW session \in Sessions PROVE Cleared(Mine(session))
<1>1. session \in Seq(Facts)
  BY InputsAssumption
<1>2. /\ Mine(session) \in Seq(Extraction) /\ Len(Mine(session)) = Len(session)
      /\ \A i \in 1..Len(session) : Mine(session)[i].fact = session[i]
  BY <1>1 DEF Mine, Extraction
<1>3. \A i \in 1..Len(session) : session[i] \in ToSet(session)
  BY <1>1 DEF ToSet
<1>4. \A f \in ToSet(session) : f \in AutoFacts
  BY DEF AutoFacts
<1> QED
  BY <1>2, <1>3, <1>4 DEF Cleared

LEMMA ParseCleared ==
    ASSUME NEW reply \in Replies PROVE Cleared(ParseResponse(reply))
<1>1. reply \in Seq([fact : Facts, confident : BOOLEAN])
  BY InputsAssumption
<1>2. DOMAIN reply = 1..Len(reply) /\ Len(reply) \in Nat
  BY <1>1
<1>3. \A i \in 1..Len(reply) :
         reply[i] \in [fact : Facts, confident : BOOLEAN] /\ reply[i] \in ToSet(reply)
  <2>1. ToSet(reply) = {reply[i] : i \in 1..Len(reply)}
    BY <1>2, Zenon DEF ToSet
  <2> DEFINE Lines == [fact : Facts, confident : BOOLEAN]
  <2>2. reply \in Seq(Lines)
    BY <1>1
  <2> HIDE DEF Lines
  <2>3. \A i \in 1..Len(reply) : reply[i] \in Lines
    BY <2>2
  <2> QED
    BY <2>1, <2>3 DEF Lines
<1> DEFINE x(i) == [kind |-> IF reply[i].confident THEN "Auto" ELSE "PendingReview",
                    tier |-> "llm", fact |-> reply[i].fact]
<1>4. \A i \in 1..Len(reply) :
         x(i) \in Extraction /\ x(i).fact = reply[i].fact /\ (x(i).kind = "Auto" => reply[i].confident)
  <2> SUFFICES ASSUME NEW i \in 1..Len(reply)
               PROVE  x(i) \in Extraction /\ x(i).fact = reply[i].fact
                        /\ (x(i).kind = "Auto" => reply[i].confident)
    OBVIOUS
  <2>1. CASE reply[i].confident
    BY <1>3, <2>1 DEF Extraction
  <2>2. CASE ~reply[i].confident
    BY <1>3, <2>2 DEF Extraction
  <2> QED
    BY <2>1, <2>2
<1>5. ParseResponse(reply) = [i \in 1..Len(reply) |-> x(i)]
  BY DEF ParseResponse
<1> HIDE DEF x
<1>6. /\ ParseResponse(reply) \in Seq(Extraction) /\ Len(ParseResponse(reply)) = Len(reply)
      /\ \A i \in 1..Len(reply) : ParseResponse(reply)[i] = x(i)
  BY <1>2, <1>4, <1>5
<1>7. \A l \in ToSet(reply) : l.confident => l.fact \in AutoFacts
  <2> SUFFICES ASSUME NEW l \in ToSet(reply), l.confident PROVE l.fact \in AutoFacts
    OBVIOUS
  <2>1. l \in UNION {ToSet(r) : r \in Replies}
    OBVIOUS
  <2>2. l \in SureLines
    BY <2>1, Zenon DEF SureLines
  <2>3. l.fact \in {k.fact : k \in SureLines}
    BY <2>2
  <2> QED
    BY <2>3 DEF AutoFacts
<1> QED
  BY <1>3, <1>4, <1>6, <1>7 DEF Cleared

\* mine_all adds nothing to its two tiers.
LEMMA MineAllCleared ==
    ASSUME NEW session \in Sessions, NEW reply \in Replies \cup {None}
    PROVE  Cleared(MineAll(session, reply))
<1>1. CASE reply = None
  BY <1>1, MineCleared DEF MineAll
<1>2. CASE reply # None
  <2> DEFINE a == Mine(session)
             b == ParseResponse(reply)
  <2>1. Cleared(a) /\ Cleared(b)
    BY <1>2, MineCleared, ParseCleared
  <2>2. MineAll(session, reply) = MergeExtractions(a \o b)
    BY <1>2 DEF MineAll
  <2> HIDE DEF a, b
  <2>3. Cleared(a \o b)
    <3>1. a \in Seq(Extraction) /\ b \in Seq(Extraction)
      BY <2>1 DEF Cleared
    <3>2. /\ a \o b \in Seq(Extraction) /\ Len(a \o b) = Len(a) + Len(b)
          /\ \A i \in 1..(Len(a) + Len(b)) :
                (a \o b)[i] = IF i <= Len(a) THEN a[i] ELSE b[i - Len(a)]
      BY <3>1
    <3>3. ASSUME NEW i \in 1..(Len(a) + Len(b)), (a \o b)[i].kind = "Auto"
          PROVE  (a \o b)[i].fact \in AutoFacts
      <4>1. CASE i <= Len(a)
        <5>1. i \in 1..Len(a)
          BY <3>1, <4>1
        <5> QED
          BY <2>1, <3>2, <3>3, <4>1, <5>1 DEF Cleared
      <4>2. CASE i > Len(a)
        <5>1. i - Len(a) \in 1..Len(b) /\ ~(i <= Len(a))
          BY <3>1, <4>2
        <5> QED
          BY <2>1, <3>2, <3>3, <5>1 DEF Cleared
      <4> QED
        BY <3>1, <4>1, <4>2
    <3> QED
      BY <3>2, <3>3 DEF Cleared
  <2>4. PICK s : s = a \o b
    OBVIOUS
  <2>5. s \in Seq(Extraction) /\ \A i \in 1..Len(s) : s[i].kind = "Auto" => s[i].fact \in AutoFacts
    BY <2>3, <2>4 DEF Cleared
  <2>6. /\ MergeExtractions(s) \in Seq(Extraction)
        /\ \A i \in 1..Len(MergeExtractions(s)) : \E j \in 1..Len(s) :
              MergeExtractions(s)[i] = s[j]
    BY <2>5, MergeKeepsOnly
  <2>7. Cleared(MergeExtractions(s))
    BY <2>5, <2>6 DEF Cleared
  <2> QED
    BY <2>2, <2>4, <2>7
<1> QED
  BY <1>1, <1>2

-----------------------------------------------------------------------------
(* The invariant *)

Steps == {"idle", "ingest", "archive", "accept", "promote", "dequeue", "stage", "route", "apply"}

Shape ==
    /\ pc \in [Clients -> Steps]
    /\ \E S : job \in [Clients -> S]

\* A handler suspended at a step carries the job of that step.
JobOK(c) ==
    /\ pc[c] \in {"ingest", "archive"} => Cleared(job[c])
    /\ pc[c] = "archive" => job[c] # <<>> /\ Current(c).kind = "Auto"
    /\ pc[c] \in {"accept", "promote", "dequeue"} => \E q \in approved : job[c] = <<q>>
    /\ pc[c] = "dequeue" => Current(c).id[2] \in promoted
    /\ pc[c] \in {"stage", "route", "apply"} =>
          \E w \in Writes : job[c] = <<w>> /\ Admits(w) /\ (w.doctrine => pc[c] = "stage")

Jobs == \A c \in Clients : JobOK(c)

FInv == Shape /\ Jobs /\ NothingSlips /\ ReviewGate /\ BoundaryHolds

LEMMA Pending == \A q : (\E p \in ListPending : p.queue_id = q) <=> q \in queue
<1> DEFINE row(q) == [queue_id |-> q, memory_id |-> q.id]
<1>1. ListPending = {row(q) : q \in queue} /\ \A q : row(q).queue_id = q
  BY DEF ListPending
<1> HIDE DEF row
<1> QED
  BY <1>1

LEMMA PendingNext == \A q : (\E p \in ListPending' : p.queue_id = q) <=> q \in queue'
<1> DEFINE row(q) == [queue_id |-> q, memory_id |-> q.id]
<1>1. ListPending' = {row(q) : q \in queue'} /\ \A q : row(q).queue_id = q
  BY DEF ListPending
<1> HIDE DEF row
<1> QED
  BY <1>1

\* History only grows and the environment stays.
Steady == approved \subseteq approved' /\ promoted \subseteq promoted' /\ environment' = environment

LEMMA JobKept ==
    ASSUME NEW e \in Clients, JobOK(e), pc'[e] = pc[e], job'[e] = job[e], Steady
    PROVE  JobOK(e)'
<1>1. \A w : Admits(w)' <=> Admits(w)
  BY DEF Steady, Admits, FederationConfigFromEnv, AcceptsScope
<1> QED
  BY <1>1 DEF JobOK, Current, Steady

\* A step of one handler: only its own job needs looking after.
LEMMA OwnStep ==
    ASSUME Jobs, Steady, NEW c \in Clients, JobOK(c)',
           \A e \in Clients \ {c} : pc'[e] = pc[e] /\ job'[e] = job[e]
    PROVE  Jobs'
<1>1. \A e \in Clients \ {c} : JobOK(e)'
  BY JobKept DEF Jobs
<1> QED
  BY <1>1 DEF Jobs

Sets(c, step, what) == pc' = [pc EXCEPT ![c] = step] /\ job' = [job EXCEPT ![c] = what]

LEMMA ShapeKept ==
    ASSUME Shape, NEW c \in Clients, NEW step \in Steps, NEW what, Sets(c, step, what)
    PROVE  /\ Shape' /\ pc'[c] = step /\ job'[c] = what
           /\ \A e \in Clients \ {c} : pc'[e] = pc[e] /\ job'[e] = job[e]
<1>1. PICK S : job \in [Clients -> S]
  BY DEF Shape
<1>2. job' \in [Clients -> S \cup {what}]
  BY <1>1 DEF Sets
<1>3. \E T : job' \in [Clients -> T]
  BY <1>2
<1> QED
  BY <1>1, <1>3 DEF Shape, Sets

LEMMA FinishKeeps ==
    ASSUME Shape, Jobs, Steady, NEW c \in Clients, NEW how, Finish(c, how)
    PROVE  Shape' /\ Jobs'
<1>1. "idle" \in Steps /\ Sets(c, "idle", None)
  BY DEF Finish, Goto, Sets, Steps
<1>2. /\ Shape' /\ pc'[c] = "idle"
      /\ \A e \in Clients \ {c} : pc'[e] = pc[e] /\ job'[e] = job[e]
  BY <1>1, ShapeKept
<1>3. JobOK(c)'
  BY <1>2 DEF JobOK
<1> QED
  BY <1>1, <1>2, <1>3, OwnStep

LEMMA GotoKeeps ==
    ASSUME Shape, Jobs, Steady, NEW c \in Clients, NEW step \in Steps, Goto(c, step),
           UNCHANGED job, pc'[c] = step => JobOK(c)'
    PROVE  Shape' /\ Jobs'
<1>1. Shape'
  BY DEF Shape, Goto
<1>2. /\ pc'[c] = step
      /\ \A e \in Clients \ {c} : pc'[e] = pc[e] /\ job'[e] = job[e]
  BY DEF Shape, Goto
<1> QED
  BY <1>1, <1>2, OwnStep

\* Steps of no handler.
LEMMA RestKeeps ==
    ASSUME Shape, Jobs, Steady, UNCHANGED <<pc, job>>
    PROVE  Shape' /\ Jobs'
<1>1. \A e \in Clients : JobOK(e)'
  BY JobKept DEF Jobs
<1> QED
  BY <1>1 DEF Shape, Jobs

\* What the properties look at.
LEMMA ViewKept ==
    ASSUME NothingSlips, ReviewGate, BoundaryHolds,
           UNCHANGED <<queue, staged, rejected, approved, promoted, landed>>
    PROVE  NothingSlips' /\ ReviewGate' /\ BoundaryHolds'
  BY DEF NothingSlips, ListPending, ReviewGate, BoundaryHolds

-----------------------------------------------------------------------------
(* Mining passes *)

\* The head of a job is what the handler is at, the tail what it has left.
LEMMA ClearedParts ==
    ASSUME NEW s, Cleared(s), s # <<>>
    PROVE  /\ Cleared(Tail(s)) /\ Head(s) \in Extraction
           /\ Head(s).kind = "Auto" => Head(s).fact \in AutoFacts
<1>1. s \in Seq(Extraction) /\ Len(s) \in Nat /\ Len(s) > 0 /\ 1 \in 1..Len(s)
  BY DEF Cleared
<1>2. /\ Tail(s) \in Seq(Extraction) /\ Len(Tail(s)) = Len(s) - 1
      /\ \A i \in 1..(Len(s) - 1) : Tail(s)[i] = s[i + 1]
      /\ Head(s) = s[1] /\ Head(s) \in Extraction
  BY <1>1
<1>3. \A i \in 1..(Len(s) - 1) : i + 1 \in 1..Len(s)
  BY <1>1
<1> QED
  BY <1>1, <1>2, <1>3 DEF Cleared

LEMMA TriggerMineKeeps ==
    ASSUME FInv, NEW c \in Clients, NEW s \in Sessions, NEW env \in LlmEnvs, NEW r \in Replies,
           TriggerMine(c, s, env, r), UNCHANGED fed
    PROVE  FInv'
<1> USE DEF FInv
<1>1. PICK m : m = MineAll(s, IF Agent(env) THEN r ELSE None)
  OBVIOUS
<1>2. Cleared(m)
  BY <1>1, MineAllCleared
<1>3. Sets(c, "ingest", m) /\ "ingest" \in Steps
  BY <1>1 DEF TriggerMine, Start, Goto, Sets, Steps
<1>4. Steady /\ UNCHANGED <<queue, staged, rejected, approved, promoted, landed>>
  BY DEF TriggerMine, tables, history, fed, Steady
<1>5. /\ Shape' /\ pc'[c] = "ingest" /\ job'[c] = m
      /\ \A e \in Clients \ {c} : pc'[e] = pc[e] /\ job'[e] = job[e]
  BY <1>3, ShapeKept
<1>6. JobOK(c)'
  BY <1>2, <1>5 DEF JobOK
<1> QED
  BY <1>4, <1>5, <1>6, OwnStep, ViewKept

LEMMA CheckKeeps ==
    ASSUME FInv, UNCHANGED fed, NEW c \in Clients, NEW f, NEW step \in Steps,
           CheckDuplicate(c, f, step),
           pc'[c] = step /\ job'[c] = job[c] => JobOK(c)'
    PROVE  FInv'
<1> USE DEF FInv
<1>1. Steady /\ UNCHANGED <<queue, staged, rejected, approved, promoted, landed>>
  BY DEF CheckDuplicate, tables, history, fed, Steady
<1>2. CASE Finish(c, "duplicate")
  BY <1>1, <1>2, FinishKeeps, ViewKept
<1>3. CASE Goto(c, step) /\ UNCHANGED <<job, answer>>
  BY <1>1, <1>3, GotoKeeps, ViewKept
<1> QED
  BY <1>2, <1>3 DEF CheckDuplicate

LEMMA ArchiveCheckKeeps ==
    ASSUME FInv, NEW c \in Clients, ArchiveCheck(c), UNCHANGED fed
    PROVE  FInv'
<1>1. PICK f : f = Current(c).fact
  OBVIOUS
<1>2. CheckDuplicate(c, f, "archive")
  BY <1>1 DEF ArchiveCheck, CheckDuplicate
<1>3. "archive" \in Steps /\ Cleared(job[c]) /\ job[c] # <<>> /\ Head(job[c]).kind = "Auto"
  BY DEF ArchiveCheck, FInv, Jobs, JobOK, Steps, Current
<1>4. pc'[c] = "archive" /\ job'[c] = job[c] => JobOK(c)'
  BY <1>3 DEF JobOK, Current
<1> QED
  BY <1>2, <1>3, <1>4, CheckKeeps

\* One more text in the palace, that needed no review or had it.
LEMMA PromotedKeeps ==
    ASSUME NothingSlips, ReviewGate, BoundaryHolds, NEW f,
           f \in AutoFacts \cup SentPlain \/ \E q \in approved : q.id[2] = f,
           promoted' = promoted \cup {f}, UNCHANGED <<queue, staged, rejected, approved>>
    PROVE  NothingSlips' /\ ReviewGate'
  BY DEF NothingSlips, ListPending, ReviewGate

LEMMA NextKeeps ==
    ASSUME FInv, Steady, NEW c \in Clients, pc[c] \in {"ingest", "archive"}, job[c] # <<>>,
           NextExtraction(c)
    PROVE  Shape' /\ Jobs'
<1>1. PICK s : s = Tail(job[c])
  OBVIOUS
<1>2. Cleared(s)
  BY <1>1, ClearedParts DEF FInv, Jobs, JobOK
<1>3. Sets(c, "ingest", s) /\ "ingest" \in Steps
  BY <1>1 DEF NextExtraction, Goto, Sets, Steps
<1>4. /\ Shape' /\ pc'[c] = "ingest" /\ job'[c] = s
      /\ \A e \in Clients \ {c} : pc'[e] = pc[e] /\ job'[e] = job[e]
  BY <1>3, ShapeKept DEF FInv
<1>5. JobOK(c)'
  BY <1>2, <1>4 DEF JobOK
<1> QED
  BY <1>4, <1>5, OwnStep DEF FInv

LEMMA ArchiveCreateKeeps ==
    ASSUME FInv, NEW c \in Clients, ArchiveCreate(c), UNCHANGED fed
    PROVE  FInv'
<1> USE DEF FInv
<1>1. Cleared(job[c]) /\ job[c] # <<>> /\ Head(job[c]).kind = "Auto" /\ pc[c] = "archive"
  BY DEF ArchiveCreate, Jobs, JobOK, Current
<1>2. PICK f : f = Head(job[c]).fact
  OBVIOUS
<1>3. f \in AutoFacts
  BY <1>1, <1>2, ClearedParts
<1>4. <<Current(c).tier, Current(c).fact>>[2] = f
  BY <1>2 DEF Current
<1>5. UNCHANGED <<queue, staged, rejected, approved, landed, environment>>
  BY DEF ArchiveCreate, Create, fed
<1>6. CASE Finish(c, "error") /\ UNCHANGED <<stored, promoted>>
  BY <1>5, <1>6, FinishKeeps, ViewKept DEF Steady
<1>7. CASE promoted' = promoted \cup {f} /\ NextExtraction(c)
  <2>1. Steady
    BY <1>5, <1>7 DEF Steady
  <2>2. Shape' /\ Jobs'
    BY <1>1, <1>7, <2>1, NextKeeps
  <2>3. NothingSlips' /\ ReviewGate'
    BY <1>3, <1>5, <1>7, PromotedKeeps
  <2>4. BoundaryHolds'
    BY <1>5 DEF BoundaryHolds
  <2> QED
    BY <2>2, <2>3, <2>4
<1> QED
  BY <1>4, <1>6, <1>7 DEF ArchiveCreate, Create

\* One more entry in the queue.
LEMMA StagedKeeps ==
    ASSUME NothingSlips, ReviewGate, NEW q,
           queue' = queue \cup {q}, staged' = staged \cup {q},
           UNCHANGED <<rejected, approved, promoted>>
    PROVE  NothingSlips' /\ ReviewGate'
<1>1. ReviewGate'
  BY DEF ReviewGate
<1>2. NothingSlips'
  BY Pending, PendingNext DEF NothingSlips
<1> QED
  BY <1>1, <1>2

LEMMA EnqueueKeeps ==
    ASSUME FInv, NEW c \in Clients, Enqueue(c), UNCHANGED fed
    PROVE  FInv'
<1> USE DEF FInv
<1>1. pc[c] = "ingest" /\ job[c] # <<>>
  BY DEF Enqueue
<1>2. PICK q : q = QueueKey(<<Current(c).tier, Current(c).fact>>)
  OBVIOUS
<1>3. UNCHANGED <<rejected, approved, promoted, landed, environment>>
  BY DEF Enqueue, EnqueueExtraction, fed
<1>4. Steady
  BY <1>3 DEF Steady
<1>5. CASE Finish(c, "error") /\ UNCHANGED <<queue, staged>>
  BY <1>3, <1>4, <1>5, FinishKeeps, ViewKept
<1>6. CASE queue' = queue \cup {q} /\ staged' = staged \cup {q} /\ NextExtraction(c)
  <2>1. Shape' /\ Jobs'
    BY <1>1, <1>4, <1>6, NextKeeps
  <2>2. NothingSlips' /\ ReviewGate'
    BY <1>3, <1>6, StagedKeeps
  <2> QED
    BY <1>3, <2>1, <2>2 DEF BoundaryHolds
<1> QED
  BY <1>2, <1>5, <1>6 DEF Enqueue, EnqueueExtraction

LEMMA MineDoneKeeps ==
    ASSUME FInv, NEW c \in Clients, MineDone(c), UNCHANGED fed
    PROVE  FInv'
<1>1. Steady /\ UNCHANGED <<queue, staged, rejected, approved, promoted, landed>>
  BY DEF MineDone, tables, history, fed, Steady
<1> QED
  BY <1>1, FinishKeeps, ViewKept DEF MineDone, FInv

-----------------------------------------------------------------------------
(* Reviews *)

LEMMA AcceptKeeps ==
    ASSUME FInv, NEW c \in Clients, NEW q \in queue, Accept(c, q), UNCHANGED fed
    PROVE  FInv'
<1> USE DEF FInv
<1>1. Sets(c, "accept", <<q>>) /\ "accept" \in Steps
  BY DEF Accept, Start, Goto, Sets, Steps
<1>2. Steady /\ approved' = approved \cup {q}
      /\ UNCHANGED <<queue, staged, rejected, promoted, landed>>
  BY DEF Accept, tables, fed, Steady
<1>3. PICK w : w = <<q>>
  OBVIOUS
<1>4. /\ Shape' /\ pc'[c] = "accept" /\ job'[c] = w
      /\ \A e \in Clients \ {c} : pc'[e] = pc[e] /\ job'[e] = job[e]
  BY <1>1, <1>3, ShapeKept
<1>5. JobOK(c)'
  BY <1>2, <1>3, <1>4 DEF JobOK
<1>6. NothingSlips' /\ ReviewGate' /\ BoundaryHolds'
  BY <1>2 DEF NothingSlips, ListPending, ReviewGate, BoundaryHolds
<1> QED
  BY <1>2, <1>4, <1>5, <1>6, OwnStep

LEMMA PromoteCheckKeeps ==
    ASSUME FInv, NEW c \in Clients, PromoteCheck(c), UNCHANGED fed
    PROVE  FInv'
<1>1. PICK f : f = Current(c).id[2]
  OBVIOUS
<1>2. CheckDuplicate(c, f, "promote") /\ pc[c] = "accept"
  BY <1>1 DEF PromoteCheck, CheckDuplicate
<1>3. "promote" \in Steps /\ \E q \in approved : job[c] = <<q>>
  BY <1>2 DEF FInv, Jobs, JobOK, Steps
<1>4. UNCHANGED approved
  BY <1>2 DEF CheckDuplicate, history
<1>5. pc'[c] = "promote" /\ job'[c] = job[c] => JobOK(c)'
  BY <1>3, <1>4 DEF JobOK
<1> QED
  BY <1>2, <1>3, <1>5, CheckKeeps

LEMMA PromoteCreateKeeps ==
    ASSUME FInv, NEW c \in Clients, PromoteCreate(c), UNCHANGED fed
    PROVE  FInv'
<1> USE DEF FInv
<1>1. pc[c] = "promote"
  BY DEF PromoteCreate
<1>2. PICK q \in approved : job[c] = <<q>>
  BY <1>1 DEF Jobs, JobOK
<1>3. Current(c) = q
  BY <1>2 DEF Current
<1>4. UNCHANGED <<queue, staged, rejected, approved, landed, environment>>
  BY DEF PromoteCreate, Create, fed
<1>5. CASE Finish(c, "error") /\ UNCHANGED <<stored, promoted>>
  BY <1>4, <1>5, FinishKeeps, ViewKept DEF Steady
<1>6. CASE promoted' = promoted \cup {q.id[2]} /\ Goto(c, "dequeue") /\ UNCHANGED <<job, answer>>
  <2>1. Steady /\ "dequeue" \in Steps
    BY <1>4, <1>6 DEF Steady, Steps
  <2>2. ASSUME pc'[c] = "dequeue" PROVE JobOK(c)'
    <3>1. Current(c)' = q /\ q.id[2] \in promoted' /\ q \in approved' /\ job'[c] = <<q>>
      BY <1>2, <1>4, <1>6 DEF Current
    <3> QED
      BY <2>2, <3>1 DEF JobOK
  <2>3. Shape' /\ Jobs'
    BY <1>6, <2>1, <2>2, GotoKeeps
  <2>4. NothingSlips' /\ ReviewGate'
    BY <1>4, <1>6, PromotedKeeps
  <2> QED
    BY <1>4, <2>3, <2>4 DEF BoundaryHolds
<1> QED
  BY <1>3, <1>5, <1>6 DEF PromoteCreate, Create

LEMMA DequeueKeeps ==
    ASSUME FInv, NEW c \in Clients, Dequeue(c), UNCHANGED fed
    PROVE  FInv'
<1> USE DEF FInv
<1>1. pc[c] = "dequeue"
  BY DEF Dequeue
<1>2. PICK q : q = Current(c)
  OBVIOUS
<1>3. q.id[2] \in promoted
  BY <1>1, <1>2 DEF Jobs, JobOK
<1>4. /\ queue' = queue \ {q} /\ Finish(c, "done") /\ Steady
      /\ UNCHANGED <<staged, rejected, approved, promoted, landed>>
  BY <1>2 DEF Dequeue, history, fed, Steady
<1>5. NothingSlips'
  BY <1>3, <1>4, Pending, PendingNext DEF NothingSlips
<1>6. ReviewGate' /\ BoundaryHolds'
  BY <1>4 DEF ReviewGate, BoundaryHolds
<1> QED
  BY <1>4, <1>5, <1>6, FinishKeeps

LEMMA RejectKeeps ==
    ASSUME FInv, NEW q \in queue, Reject(q), UNCHANGED fed
    PROVE  FInv'
<1> USE DEF FInv
<1>1. /\ queue' = queue \ {q} /\ rejected' = rejected \cup {q} /\ Steady
      /\ UNCHANGED <<pc, job, staged, approved, promoted, landed>>
  BY DEF Reject, control, fed, Steady
<1>2. NothingSlips'
  BY <1>1, Pending, PendingNext DEF NothingSlips
<1>3. ReviewGate' /\ BoundaryHolds'
  BY <1>1 DEF ReviewGate, BoundaryHolds
<1> QED
  BY <1>1, <1>2, <1>3, RestKeeps

LEMMA OthersKeep ==
    ASSUME FInv, UNCHANGED fed,
           \/ \E id \in MemoryIds, to \in {"absent", "superseded"} : PlainWrite(id, to)
           \/ Tick
    PROVE  FInv'
<1>1. /\ UNCHANGED <<pc, job>> /\ Steady
      /\ UNCHANGED <<queue, staged, rejected, approved, promoted, landed>>
  BY DEF PlainWrite, Tick, control, history, fed, Steady
<1> QED
  BY <1>1, RestKeeps, ViewKept DEF FInv

LEMMA FaultKeeps ==
    ASSUME FInv, NEW c \in Clients, Fault(c), UNCHANGED fed
    PROVE  FInv'
<1>1. /\ Finish(c, "error") /\ Steady
      /\ UNCHANGED <<queue, staged, rejected, approved, promoted, landed>>
  BY DEF Fault, tables, history, fed, Steady
<1> QED
  BY <1>1, FinishKeeps, ViewKept DEF FInv

\* A restart, with the same environment or another: no request survives it.
LEMMA RestartKeeps ==
    ASSUME FInv, pc' = [c \in Clients |-> "idle"], job' = [c \in Clients |-> None],
           UNCHANGED <<queue, staged, rejected, approved, promoted, landed>>
    PROVE  FInv'
<1>1. job' \in [Clients -> {None}]
  OBVIOUS
<1>2. Shape'
  BY <1>1 DEF Shape, Steps
<1>3. Jobs'
  BY DEF Jobs, JobOK
<1> QED
  BY <1>2, <1>3, ViewKept DEF FInv

-----------------------------------------------------------------------------
(* Routed writes *)

LEMMA RoutedWriteKeeps ==
    ASSUME FInv, NEW c \in Clients, NEW w \in Writes, RoutedWrite(c, w)
    PROVE  FInv'
<1> USE DEF FInv
<1>1. PICK step \in Steps : step = IF w.doctrine THEN "stage" ELSE "route"
  BY DEF Steps
<1>2. PICK x : x = <<w>>
  OBVIOUS
<1>3. Sets(c, step, x)
  BY <1>1, <1>2 DEF RoutedWrite, Start, Goto, Sets
<1>4. Steady /\ UNCHANGED <<queue, staged, rejected, approved, promoted, landed, environment>>
  BY DEF RoutedWrite, tables, history, fed, Steady
<1>5. /\ Shape' /\ pc'[c] = step /\ job'[c] = x
      /\ \A e \in Clients \ {c} : pc'[e] = pc[e] /\ job'[e] = job[e]
  BY <1>3, ShapeKept
<1>6. Admits(w)'
  BY <1>4 DEF RoutedWrite, Admits, FederationConfigFromEnv, AcceptsScope
<1>7. step \in {"stage", "route"} /\ (w.doctrine => step = "stage")
  BY <1>1
<1>8. JobOK(c)'
  BY <1>2, <1>5, <1>6, <1>7 DEF JobOK
<1> QED
  BY <1>4, <1>5, <1>8, OwnStep, ViewKept

\* A write that was admitted by the environment it lands under.
LEMMA LandKeeps ==
    ASSUME BoundaryHolds, NEW w, Admits(w),
           landed' = landed \cup {[write |-> w, under |-> environment]}
    PROVE  BoundaryHolds'
<1>1. environment.role = None \/ Lower(environment.role) # "airgapped"
  BY DEF Admits, FederationConfigFromEnv, Role
<1>2. \E s \in Scopes(environment.scopes) :
         s.namespace \in {w.scope.namespace, "*"} /\ s.project \in {w.scope.project, "*"}
  BY DEF Admits, AcceptsScope, FederationConfigFromEnv
<1>3. PICK l : l = [write |-> w, under |-> environment]
  OBVIOUS
<1>4. l.write = w /\ l.under = environment /\ landed' = landed \cup {l}
  BY <1>3
<1> QED
  BY <1>1, <1>2, <1>4 DEF BoundaryHolds

LEMMA StageKeeps ==
    ASSUME FInv, NEW c \in Clients, Stage(c)
    PROVE  FInv'
<1> USE DEF FInv
<1>1. PICK w \in Writes : job[c] = <<w>> /\ Admits(w)
  BY DEF Stage, Jobs, JobOK
<1>2. PICK q : q = QueueKey(PeerId(c))
  OBVIOUS
<1>3. UNCHANGED <<rejected, approved, promoted, environment>> /\ Steady
  BY DEF Stage, EnqueueExtraction, Land, Steady
<1>4. Current(c) = w
  BY <1>1 DEF Current
<1>5. BoundaryHolds'
  BY <1>1, <1>4, LandKeeps DEF Stage, Land
<1>6. CASE Finish(c, "error") /\ UNCHANGED <<queue, staged>>
  <2>1. NothingSlips' /\ ReviewGate'
    BY <1>3, <1>6 DEF NothingSlips, ListPending, ReviewGate
  <2> QED
    BY <1>3, <1>5, <1>6, <2>1, FinishKeeps
<1>7. CASE queue' = queue \cup {q} /\ staged' = staged \cup {q} /\ Finish(c, "done")
  <2>1. NothingSlips' /\ ReviewGate'
    BY <1>3, <1>7, StagedKeeps
  <2> QED
    BY <1>3, <1>5, <1>7, <2>1, FinishKeeps
<1> QED
  BY <1>2, <1>6, <1>7 DEF Stage, EnqueueExtraction

LEMMA RouteCheckKeeps ==
    ASSUME FInv, NEW c \in Clients, RouteCheck(c)
    PROVE  FInv'
<1>1. PICK f : f = Current(c).fact
  OBVIOUS
<1>2. CheckDuplicate(c, f, "apply") /\ pc[c] = "route" /\ UNCHANGED fed
  BY <1>1 DEF RouteCheck, CheckDuplicate
<1>3. PICK w \in Writes : job[c] = <<w>> /\ Admits(w) /\ ~w.doctrine
  BY <1>2 DEF FInv, Jobs, JobOK
<1>4. Admits(w)' /\ "apply" \in Steps
  BY <1>2, <1>3 DEF fed, Admits, FederationConfigFromEnv, AcceptsScope, Steps
<1>5. pc'[c] = "apply" /\ job'[c] = job[c] => JobOK(c)'
  BY <1>3, <1>4 DEF JobOK
<1> QED
  BY <1>2, <1>4, <1>5, CheckKeeps

LEMMA RouteCreateKeeps ==
    ASSUME FInv, NEW c \in Clients, RouteCreate(c)
    PROVE  FInv'
<1> USE DEF FInv
<1>1. PICK w \in Writes : job[c] = <<w>> /\ Admits(w) /\ ~w.doctrine
  BY DEF RouteCreate, Jobs, JobOK
<1>2. Current(c) = w /\ PeerId(c)[2] = w.fact
  BY <1>1 DEF Current, PeerId
<1>3. w.fact \in SentPlain
  BY <1>1 DEF SentPlain
<1>4. UNCHANGED <<queue, staged, rejected, approved, environment>>
  BY DEF RouteCreate, Create, Land
<1>5. BoundaryHolds'
  BY <1>1, <1>2, LandKeeps DEF RouteCreate, Land
<1>6. CASE Finish(c, "error") /\ UNCHANGED <<stored, promoted>>
  <2>1. NothingSlips' /\ ReviewGate' /\ Steady
    BY <1>4, <1>6 DEF NothingSlips, ListPending, ReviewGate, Steady
  <2> QED
    BY <1>5, <1>6, <2>1, FinishKeeps
<1>7. CASE promoted' = promoted \cup {w.fact} /\ Finish(c, "done")
  <2>1. Steady
    BY <1>4, <1>7 DEF Steady
  <2>2. NothingSlips' /\ ReviewGate'
    BY <1>3, <1>4, <1>7, PromotedKeeps
  <2> QED
    BY <1>5, <1>7, <2>1, <2>2, FinishKeeps
<1> QED
  BY <1>2, <1>6, <1>7 DEF RouteCreate, Create

-----------------------------------------------------------------------------
(* The theorems *)

LEMMA FInvInit == FedInit => FInv
<1> SUFFICES ASSUME FedInit PROVE FInv
  OBVIOUS
<1>1. job \in [Clients -> {None}]
  BY DEF FedInit, Init
<1>2. Shape
  BY <1>1 DEF FedInit, Init, Shape, Steps
<1>3. Jobs
  BY DEF FedInit, Init, Jobs, JobOK
<1> QED
  BY <1>2, <1>3 DEF FedInit, Init, FInv, NothingSlips, ReviewGate, BoundaryHolds

LEMMA FInvNext == FInv /\ [FedNext]_fedvars => FInv'
<1> SUFFICES ASSUME FInv, [FedNext]_fedvars PROVE FInv'
  OBVIOUS
<1>1. CASE Next /\ UNCHANGED fed
  <2>1. CASE \E c \in Clients, s \in Sessions, env \in LlmEnvs, r \in Replies :
                TriggerMine(c, s, env, r)
    BY <1>1, <2>1, TriggerMineKeeps
  <2>2. CASE \E c \in Clients, q \in queue : Accept(c, q)
    BY <1>1, <2>2, AcceptKeeps
  <2>3. CASE \E q \in queue : Reject(q)
    BY <1>1, <2>3, RejectKeeps
  <2>4. CASE \E c \in Clients : Ingest(c)
    BY <1>1, <2>4, ArchiveCheckKeeps, ArchiveCreateKeeps, EnqueueKeeps, MineDoneKeeps DEF Ingest
  <2>5. CASE \E c \in Clients : Promote(c)
    BY <1>1, <2>5, PromoteCheckKeeps, PromoteCreateKeeps, DequeueKeeps DEF Promote
  <2>6. CASE \E c \in Clients : Fault(c)
    BY <1>1, <2>6, FaultKeeps
  <2>7. CASE (\E id \in MemoryIds, to \in {"absent", "superseded"} : PlainWrite(id, to)) \/ Tick
    BY <1>1, <2>7, OthersKeep
  <2>8. CASE Crash
    BY <1>1, <2>8, RestartKeeps DEF Crash, tables, history, fed
  <2> QED
    BY <1>1, <2>1, <2>2, <2>3, <2>4, <2>5, <2>6, <2>7, <2>8 DEF Next
<1>2. CASE \E c \in Clients, w \in Writes : RoutedWrite(c, w)
  BY <1>2, RoutedWriteKeeps
<1>3. CASE \E c \in Clients : Route(c)
  BY <1>3, StageKeeps, RouteCheckKeeps, RouteCreateKeeps DEF Route
<1>4. CASE \E e \in Environments : Reconfigure(e)
  BY <1>4, RestartKeeps DEF Reconfigure, tables, history
<1>5. CASE UNCHANGED fedvars
  <2>1. /\ UNCHANGED <<pc, job>> /\ Steady
        /\ UNCHANGED <<queue, staged, rejected, approved, promoted, landed>>
    BY <1>5 DEF fedvars, vars, tables, control, history, fed, Steady
  <2> QED
    BY <2>1, RestKeeps, ViewKept DEF FInv
<1> QED
  BY <1>1, <1>2, <1>3, <1>4, <1>5 DEF FedNext

LEMMA FInvAlways == FedSpec => []FInv
  BY FInvInit, FInvNext, PTL DEF FedSpec

\* No staged extraction is lost: accept_extraction deletes the queue row only
\* after store_memory, for any number of concurrent passes, reviews, routed
\* writes, failures and restarts.
THEOREM NothingSlipsAway == FedSpec => []NothingSlips
<1>1. FInv => NothingSlips
  BY DEF FInv
<1> QED
  BY FInvAlways, <1>1, PTL

\* Nothing that needs a review is stored without one: neither what only unsure
\* lines of the model report (merge_extractions never turns a pending line into
\* an archived one of a text that was not cleared), nor what peers send as doctrine.
THEOREM ReviewGateHolds == FedSpec => []ReviewGate
<1>1. FInv => ReviewGate
  BY DEF FInv
<1> QED
  BY FInvAlways, <1>1, PTL

\* routed_write checks role and scope in one request and writes in later ones:
\* what lands is covered by the environment it lands under, because no request
\* outlives the daemon that admitted it.
THEOREM BoundaryIsKept == FedSpec => []BoundaryHolds
<1>1. FInv => BoundaryHolds
  BY DEF FInv
<1> QED
  BY FInvAlways, <1>1, PTL

=============================================================================
