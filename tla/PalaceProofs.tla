---------------------------- MODULE PalaceProofs ----------------------------
(***************************************************************************)
(* Proofs about Palace, for any number of clients, ids, contents and faults. *)
(***************************************************************************)
EXTENDS Palace, TLAPS

\* Palace's variables keep their types: every round trip of store_memory, the
\* two deleting operations and a crash preserve TypeOK.
LEMMA TypeInductive == TypeOK /\ [Next]_vars => TypeOK'
<1> SUFFICES ASSUME TypeOK, [Next]_vars PROVE TypeOK'
  OBVIOUS
<1> USE NoneAssumption, LinksAssumption, BoundsAssumption
<1>1. CASE UNCHANGED vars
  BY <1>1 DEF TypeOK, vars
<1>2. ASSUME NEW c \in Clients, NEW m \in Request, Receive(c, m) PROVE TypeOK'
  BY <1>2 DEF TypeOK, Receive, Spend, Steps
<1>3. ASSUME NEW c \in Clients, RejectDuplicate(c) PROVE TypeOK'
  BY <1>3 DEF TypeOK, RejectDuplicate, Leave, Steps, Request
<1>4. ASSUME NEW c \in Clients, PassDuplicateCheck(c) PROVE TypeOK'
  BY <1>4 DEF TypeOK, PassDuplicateCheck, Goto, Steps
<1>5. ASSUME NEW c \in Clients, TakeLock(c) PROVE TypeOK'
  BY <1>5 DEF TypeOK, TakeLock, Steps
<1>6. ASSUME NEW c \in Clients, Create(c) PROVE TypeOK'
  BY <1>6 DEF TypeOK, Create, Leave, Goto, Steps, FromMemory, Request, Row
<1>7. ASSUME NEW c \in Clients, CreateCollides(c) PROVE TypeOK'
  BY <1>7 DEF TypeOK, CreateCollides, Leave, Steps
<1>8. ASSUME NEW c \in Clients, Claim(c) PROVE TypeOK'
  <2> DEFINE t == req[c].supersedes
  <2>1. req[c] \in Request /\ t \in Ids /\ row[t] \in Row
    BY <1>8 DEF TypeOK, Claim, Claimable, Live, Present, Steps, Request
  <2>2. [row[t] EXCEPT !.superseded_by = req[c].id] \in Row
    BY <2>1 DEF Row, Request
  <2>3. row' = [row EXCEPT ![t] = [row[t] EXCEPT !.superseded_by = req[c].id]]
    BY <1>8 DEF Claim
  <2>4. row' \in [Ids -> Row \cup {None}]
    BY <2>1, <2>2, <2>3 DEF TypeOK
  <2>5. req[c].id \in Ids
    BY <2>1 DEF Request
  <2> QED
    BY <1>8, <2>4, <2>5 DEF TypeOK, Claim, Leave, Steps
<1>9. ASSUME NEW c \in Clients, ClaimFails(c) PROVE TypeOK'
  BY <1>9 DEF TypeOK, ClaimFails, Goto, Steps
<1>10. ASSUME NEW c \in Clients, Undo(c) PROVE TypeOK'
  BY <1>10 DEF TypeOK, Undo, Leave, Steps, Request
<1>11. ASSUME NEW c \in Clients, StoreError(c) PROVE TypeOK'
  BY <1>11 DEF TypeOK, StoreError, Spend, Goto, Leave, Steps
<1>12. ASSUME NEW c \in Clients, Drop(c) PROVE TypeOK'
  BY <1>12 DEF TypeOK, Drop, Spend, Leave, Steps
<1>13. ASSUME NEW S \in SUBSET Ids, Remove(S) PROVE TypeOK'
  BY <1>13 DEF TypeOK, Remove, Spend
<1>14. CASE Crash
  BY <1>14 DEF TypeOK, Crash, Spend, Steps
<1> QED
  BY <1>1, <1>2, <1>3, <1>4, <1>5, <1>6, <1>7, <1>8, <1>9, <1>10, <1>11, <1>12,
     <1>13, <1>14 DEF Next, Progress, DeleteMemory, DeleteAgedAutocapture

\* Type correctness of the palace, for every instance.
THEOREM TypeCorrect == Spec => []TypeOK
<1>1. Init => TypeOK
  BY NoneAssumption, BoundsAssumption DEF Init, TypeOK, Steps
<1> QED
  BY <1>1, TypeInductive, PTL DEF Spec

-----------------------------------------------------------------------------
(***************************************************************************)
(* The inductive invariant behind Acyclic and HeirPresent.  Both rest on the *)
(* supersede lock: whoever is between the CREATE and the end of a correction *)
(* holds it, so no other save can claim a row meanwhile, and in particular   *)
(* nobody can claim the row that was just created.                           *)
(***************************************************************************)

\* A correction between its CREATE and its answer.
InFlight(c) == pc[c] \in {"claim", "undo"}

LockHeld ==
    \A c \in Clients :
        InFlight(c) \/ (pc[c] = "create" /\ req[c].supersedes # None) => lock = c

\* The successor of a correction in flight: unclaimed itself, there unless
\* someone deleted it, and nobody's successor yet (but for links left behind
\* by an earlier row of that id, which was deleted).
Undecided ==
    \A c \in Clients : InFlight(c) =>
        /\ Present(req[c].id) => row[req[c].id].superseded_by = None
        /\ Present(req[c].id) \/ req[c].id \in removed
        /\ \A i \in Ids :
             Present(i) /\ row[i].superseded_by = req[c].id => req[c].id \in removed

IInv == TypeOK /\ LockHeld /\ Undecided /\ Acyclic /\ HeirPresent


\* Only four operations write the table.
LEMMA TableWriters ==
    ASSUME [Next]_vars
    PROVE  \/ UNCHANGED <<row, removed>>
           \/ \E c \in Clients : Create(c) \/ Claim(c) \/ Undo(c)
           \/ \E S \in SUBSET Ids : Remove(S)
<1> USE DEF vars
<1>1. CASE \E c \in Clients : \E m \in Request : Receive(c, m)
  BY <1>1 DEF Receive
<1>2. CASE \E c \in Clients : Progress(c)
  BY <1>2 DEF Progress, RejectDuplicate, PassDuplicateCheck, CreateCollides, ClaimFails
<1>3. CASE \E c \in Clients : TakeLock(c) \/ StoreError(c) \/ Drop(c)
  BY <1>3 DEF TakeLock, StoreError, Drop
<1>4. CASE Crash
  BY <1>4 DEF Crash
<1>5. CASE \E i \in Ids : DeleteMemory(i)
  BY <1>5 DEF DeleteMemory
<1>6. CASE \E S \in SUBSET Ids : DeleteAgedAutocapture(S)
  BY <1>6 DEF DeleteAgedAutocapture
<1> QED
  BY <1>1, <1>2, <1>3, <1>4, <1>5, <1>6 DEF Next

\* A correction runs under the supersede lock from before its CREATE to its
\* answer; dropping the handler or crashing releases both together.
LEMMA LockInductive == TypeOK /\ LockHeld /\ [Next]_vars => LockHeld'
<1> SUFFICES ASSUME TypeOK, LockHeld, [Next]_vars PROVE LockHeld'
  OBVIOUS
<1> USE NoneAssumption DEF LockHeld, InFlight, TypeOK
<1>1. CASE UNCHANGED vars
  BY <1>1 DEF vars
<1>2. ASSUME NEW c \in Clients, NEW m \in Request, Receive(c, m) PROVE LockHeld'
  BY <1>2 DEF Receive
<1>3. ASSUME NEW c \in Clients, Leave(c) PROVE LockHeld'
  BY <1>3 DEF Leave
<1>4. ASSUME NEW c \in Clients, PassDuplicateCheck(c) PROVE LockHeld'
  BY <1>4 DEF PassDuplicateCheck, Goto
<1>5. ASSUME NEW c \in Clients, TakeLock(c) PROVE LockHeld'
  BY <1>5 DEF TakeLock
<1>6. ASSUME NEW c \in Clients, Create(c), ~Leave(c) PROVE LockHeld'
  BY <1>6 DEF Create, Goto
<1>7. ASSUME NEW c \in Clients, pc[c] = "claim", Goto(c, "undo") PROVE LockHeld'
  BY <1>7 DEF Goto
<1>8. ASSUME UNCHANGED <<lock, pc, req>> PROVE LockHeld'
  BY <1>8
<1>9. CASE Crash
  BY <1>9 DEF Crash
<1>10. CASE \E c \in Clients : Progress(c)
  BY <1>10, <1>3, <1>4, <1>6, <1>7 DEF Progress, RejectDuplicate, CreateCollides,
     Claim, ClaimFails, Undo
<1>11. CASE \E c \in Clients : StoreError(c) \/ Drop(c)
  BY <1>11, <1>3, <1>7 DEF StoreError, Drop
<1> QED
  BY <1>1, <1>2, <1>5, <1>8, <1>9, <1>10, <1>11 DEF Next, DeleteMemory,
     DeleteAgedAutocapture, Remove

\* A correction comes to be in flight only by its own CREATE.
LEMMA StillInFlight ==
    ASSUME TypeOK, [Next]_vars, NEW d \in Clients, InFlight(d)'
    PROVE  (InFlight(d) /\ req'[d] = req[d]) \/ Create(d)
<1> USE DEF InFlight, TypeOK
<1>1. CASE UNCHANGED vars
  BY <1>1 DEF vars
<1>2. ASSUME NEW c \in Clients, NEW m \in Request, Receive(c, m)
      PROVE  InFlight(d) /\ req'[d] = req[d]
  BY <1>2 DEF Receive
<1>3. ASSUME NEW c \in Clients, Leave(c) PROVE InFlight(d) /\ req'[d] = req[d]
  BY <1>3 DEF Leave
<1>4. ASSUME NEW c \in Clients, PassDuplicateCheck(c)
      PROVE  InFlight(d) /\ req'[d] = req[d]
  BY <1>4 DEF PassDuplicateCheck, Goto
<1>5. ASSUME NEW c \in Clients, TakeLock(c) PROVE InFlight(d) /\ req'[d] = req[d]
  BY <1>5 DEF TakeLock
<1>6. ASSUME NEW c \in Clients, Create(c), c # d, ~Leave(c)
      PROVE  InFlight(d) /\ req'[d] = req[d]
  BY <1>6 DEF Create, Goto
<1>7. ASSUME NEW c \in Clients, pc[c] = "claim", Goto(c, "undo")
      PROVE  InFlight(d) /\ req'[d] = req[d]
  BY <1>7 DEF Goto
<1>8. ASSUME UNCHANGED <<lock, pc, req>> PROVE InFlight(d) /\ req'[d] = req[d]
  BY <1>8
<1>9. ~Crash
  BY DEF Crash
<1>10. CASE \E c \in Clients : Progress(c)
  BY <1>10, <1>3, <1>4, <1>6, <1>7 DEF Progress, RejectDuplicate, CreateCollides,
     Claim, ClaimFails, Undo
<1>11. CASE \E c \in Clients : StoreError(c) \/ Drop(c)
  BY <1>11, <1>3, <1>7 DEF StoreError, Drop
<1> QED
  BY <1>1, <1>2, <1>5, <1>8, <1>9, <1>10, <1>11 DEF Next, DeleteMemory,
     DeleteAgedAutocapture, Remove

\* What CREATE does to the table when request bodies carry no inverse link.
LEMMA CreateRow ==
    ASSUME TypeOK, RequestLinks = {None}, NEW c \in Clients, Create(c)
    PROVE  /\ req[c].id \in Ids /\ ~Present(req[c].id)
           /\ row'[req[c].id] # None /\ row'[req[c].id].superseded_by = None
           /\ \A i \in Ids \ {req[c].id} : row'[i] = row[i]
           /\ removed' = removed
<1>1. req[c] \in Request
  BY DEF TypeOK, Create
<1>2. FromMemory(req[c]) \in Row /\ FromMemory(req[c]).superseded_by = None
  BY <1>1, LinksAssumption DEF FromMemory, Request, Row
<1> QED
  BY <1>1, <1>2, NoneAssumption DEF TypeOK, Create, Vacant, Present, Request

\* What a successful claim does to the table.
LEMMA ClaimRow ==
    ASSUME TypeOK, NEW c \in Clients, Claim(c)
    PROVE  /\ req[c].id \in Ids /\ req[c].supersedes \in Ids \ {req[c].id}
           /\ Live(req[c].supersedes)
           /\ row'[req[c].supersedes] # None
           /\ row'[req[c].supersedes].superseded_by = req[c].id
           /\ \A i \in Ids \ {req[c].supersedes} : row'[i] = row[i]
           /\ removed' = removed
<1> DEFINE t == req[c].supersedes
<1>1. req[c] \in Request /\ t \in Ids /\ row[t] \in Row
  BY DEF TypeOK, Claim, Claimable, Live, Present, Request
<1>2. row' = [row EXCEPT ![t] = [row[t] EXCEPT !.superseded_by = req[c].id]]
  BY DEF Claim
<1>3. /\ [row[t] EXCEPT !.superseded_by = req[c].id] \in Row
      /\ [row[t] EXCEPT !.superseded_by = req[c].id].superseded_by = req[c].id
  BY <1>1 DEF Row, Request
<1> QED
  BY <1>1, <1>2, <1>3, NoneAssumption DEF TypeOK, Claim, Claimable, Present, Request

\* What a compensation does to the table.
LEMMA UndoRow ==
    ASSUME TypeOK, NEW c \in Clients, Undo(c)
    PROVE  /\ req[c].id \in Ids /\ row'[req[c].id] = None
           /\ \A i \in Ids \ {req[c].id} : row'[i] = row[i]
           /\ removed' = removed
<1>1. req[c] \in Request
  BY DEF TypeOK, Undo
<1> QED
  BY <1>1 DEF TypeOK, Undo, Present, Request

\* Whatever step is taken, the successor of a correction in flight stays
\* unclaimed, stored unless deleted, and unreferenced: the lock keeps the other
\* corrections out, and a plain save of the same id only replaces a deleted row.
LEMMA UndecidedInductive ==
    ASSUME IInv, RequestLinks = {None}, [Next]_vars PROVE Undecided'
<1> SUFFICES ASSUME NEW d \in Clients, InFlight(d)'
             PROVE  LET y == req'[d].id IN
                    /\ row'[y] # None => row'[y].superseded_by = None
                    /\ row'[y] # None \/ y \in removed'
                    /\ \A i \in Ids : row'[i] # None /\ row'[i].superseded_by = y
                         => y \in removed'
  BY DEF Undecided, Present
<1>1. CASE Create(d)
  <2>1. req'[d] = req[d]
    BY <1>1 DEF Create, Leave, Goto, InFlight, TypeOK, IInv
  <2> QED
    BY <1>1, <2>1, CreateRow, NoneAssumption DEF IInv, HeirPresent, Present
<1>2. CASE InFlight(d) /\ req'[d] = req[d] /\ ~Create(d)
  <2> DEFINE y == req[d].id
  <2>1. /\ y \in Ids
        /\ row[y] # None => row[y].superseded_by = None
        /\ row[y] # None \/ y \in removed
        /\ \A i \in Ids : row[i] # None /\ row[i].superseded_by = y => y \in removed
    BY <1>2 DEF IInv, Undecided, Present, InFlight, TypeOK, Request
  <2>2. lock = d
    BY <1>2 DEF IInv, LockHeld
  <2>3. CASE UNCHANGED <<row, removed>>
    BY <1>2, <2>1, <2>3
  <2>4. ASSUME NEW c \in Clients, Create(c) PROVE c # d
    BY <1>2, <2>4
  <2>5. ASSUME NEW c \in Clients, Claim(c) \/ Undo(c) PROVE FALSE
    <3>1. c = d
      BY <2>2, <2>5 DEF IInv, LockHeld, InFlight, Claim, Undo
    <3> QED
      BY <2>5, <3>1 DEF Claim, Undo, Leave, InFlight, IInv, TypeOK
  <2>6. CASE \E c \in Clients : Create(c)
    <3> PICK c \in Clients : Create(c)
      BY <2>6
    <3> QED
      BY <1>2, <2>1, CreateRow, NoneAssumption DEF IInv, Present
  <2>7. CASE \E S \in SUBSET Ids : Remove(S)
    BY <1>2, <2>1, <2>7 DEF Remove, IInv, TypeOK
  <2> QED
    BY <2>3, <2>5, <2>6, <2>7, TableWriters
<1> QED
  BY <1>1, <1>2, StillInFlight DEF IInv

\* No step closes a cycle: a created row leads nowhere, and the row a claim
\* leads to leads nowhere itself.
LEMMA AcyclicInductive ==
    ASSUME IInv, RequestLinks = {None}, [Next]_vars PROVE Acyclic'
<1> SUFFICES ASSUME NEW S \in (SUBSET Ids) \ {{}}
             PROVE  \E i \in S : row'[i] = None \/ row'[i].superseded_by \notin S
  BY DEF Acyclic, Present
<1>1. PICK k \in S : row[k] = None \/ row[k].superseded_by \notin S
  BY DEF IInv, Acyclic, Present
<1>2. CASE UNCHANGED <<row, removed>>
  BY <1>1, <1>2
<1>3. ASSUME NEW c \in Clients, Create(c)
      PROVE  \E i \in S : row'[i] = None \/ row'[i].superseded_by \notin S
  BY <1>1, <1>3, CreateRow, NoneAssumption DEF IInv
<1>4. ASSUME NEW c \in Clients, Claim(c)
      PROVE  \E i \in S : row'[i] = None \/ row'[i].superseded_by \notin S
  <2>1. row[req[c].id] # None => row[req[c].id].superseded_by = None
    BY <1>4 DEF IInv, Undecided, InFlight, Claim, Present
  <2>2. CASE req[c].id \in S
    BY <1>4, <2>1, <2>2, ClaimRow, NoneAssumption DEF IInv
  <2>3. CASE req[c].id \notin S
    BY <1>1, <1>4, <2>3, ClaimRow DEF IInv
  <2> QED
    BY <2>2, <2>3
<1>5. ASSUME NEW c \in Clients, Undo(c)
      PROVE  \E i \in S : row'[i] = None \/ row'[i].superseded_by \notin S
  BY <1>1, <1>5, UndoRow DEF IInv
<1>6. ASSUME NEW R \in SUBSET Ids, Remove(R)
      PROVE  \E i \in S : row'[i] = None \/ row'[i].superseded_by \notin S
  BY <1>1, <1>6 DEF Remove
<1> QED
  BY <1>2, <1>3, <1>4, <1>5, <1>6, TableWriters

\* No step but a delete or the sweep leaves a link to a missing row.
LEMMA HeirInductive ==
    ASSUME IInv, RequestLinks = {None}, [Next]_vars PROVE HeirPresent'
<1> SUFFICES ASSUME NEW i \in Ids, row'[i] # None, row'[i].superseded_by # None
             PROVE  \/ row'[row'[i].superseded_by] # None
                    \/ row'[i].superseded_by \in removed'
  BY DEF HeirPresent, Present
<1> DEFINE Goal == \/ row'[row'[i].superseded_by] # None
                   \/ row'[i].superseded_by \in removed'
<1>1. ASSUME row[i] # None, row[i].superseded_by # None
      PROVE  /\ row[i].superseded_by \in Ids
             /\ row[row[i].superseded_by] # None \/ row[i].superseded_by \in removed
  BY <1>1 DEF IInv, HeirPresent, Present, TypeOK, Row
<1>2. CASE UNCHANGED <<row, removed>>
  BY <1>1, <1>2
<1>3. ASSUME NEW c \in Clients, Create(c) PROVE Goal
  BY <1>1, <1>3, CreateRow DEF IInv
<1>4. ASSUME NEW c \in Clients, Claim(c) PROVE Goal
  <2>1. row[req[c].id] # None \/ req[c].id \in removed
    BY <1>4 DEF IInv, Undecided, InFlight, Claim, Present
  <2> QED
    BY <1>1, <1>4, <2>1, ClaimRow DEF IInv
<1>5. ASSUME NEW c \in Clients, Undo(c) PROVE Goal
  <2>1. row[i] # None /\ row[i].superseded_by = req[c].id => req[c].id \in removed
    BY <1>5 DEF IInv, Undecided, InFlight, Undo, Present
  <2> QED
    BY <1>1, <1>5, <2>1, UndoRow DEF IInv
<1>6. ASSUME NEW R \in SUBSET Ids, Remove(R) PROVE Goal
  BY <1>1, <1>6 DEF Remove
<1> QED
  BY <1>2, <1>3, <1>4, <1>5, <1>6, TableWriters

\* The inductive invariant holds throughout.
LEMMA Inductive == ASSUME RequestLinks = {None} PROVE Spec => []IInv
<1>1. Init => IInv
  <2>1. Init => TypeOK
    BY NoneAssumption, BoundsAssumption DEF Init, TypeOK, Steps
  <2>2. Init => LockHeld /\ Undecided
    BY DEF Init, LockHeld, Undecided, InFlight
  <2>3. Init => Acyclic
    <3> SUFFICES ASSUME Init, NEW S \in SUBSET Ids, S # {}
                 PROVE  \E i \in S : ~Present(i)
      BY DEF Acyclic
    <3> QED
      BY DEF Init, Present
  <2>4. Init => HeirPresent
    BY DEF Init, HeirPresent, Present
  <2> QED
    BY <2>1, <2>2, <2>3, <2>4 DEF IInv
<1>2. IInv /\ [Next]_vars => IInv'
  BY TypeInductive, LockInductive, UndecidedInductive, AcyclicInductive,
     HeirInductive DEF IInv
<1> QED
  BY <1>1, <1>2, PTL DEF Spec

\* The correction graph never has a cycle, however saves, deletes, sweeps,
\* failures and crashes interleave, as long as request bodies carry no
\* `superseded_by` (the server is the only writer of the inverse link).
THEOREM CorrectionsAcyclic == ASSUME RequestLinks = {None} PROVE Spec => []Acyclic
BY Inductive, PTL DEF IInv

\* Under the same condition no memory is hidden in favour of a successor that
\* was never stored or that a compensation took away.
THEOREM HeirsPresent == ASSUME RequestLinks = {None} PROVE Spec => []HeirPresent
BY Inductive, PTL DEF IInv

\* A claimed row keeps its successor for as long as it exists: the conditional
\* UPDATE of store_memory lets one correction per target win, with or without
\* the lock.
THEOREM OneWinner == Spec => LinkStable
<1> DEFINE Keep == \A i \in Ids :
                     row[i] # None /\ row[i].superseded_by # None /\ row'[i] # None
                       => row'[i].superseded_by = row[i].superseded_by
<1>1. TypeOK /\ [Next]_vars => [Keep]_vars
  <2> SUFFICES ASSUME TypeOK, [Next]_vars PROVE Keep
    OBVIOUS
  <2>1. CASE UNCHANGED <<row, removed>>
    BY <2>1
  <2>2. ASSUME NEW c \in Clients, Create(c) PROVE Keep
    BY <2>2 DEF TypeOK, Create, Vacant, Present
  <2>3. ASSUME NEW c \in Clients, Claim(c) PROVE Keep
    BY <2>3, ClaimRow DEF Live
  <2>4. ASSUME NEW c \in Clients, Undo(c) PROVE Keep
    BY <2>4, UndoRow
  <2>5. ASSUME NEW S \in SUBSET Ids, Remove(S) PROVE Keep
    BY <2>5 DEF Remove
  <2> QED
    BY <2>1, <2>2, <2>3, <2>4, <2>5, TableWriters
<1>2. [Keep]_vars => [\A i \in Ids :
        Present(i) /\ ~Live(i) /\ Present(i)' =>
            row'[i].superseded_by = row[i].superseded_by]_vars
  BY DEF Present, Live
<1> QED
  BY <1>1, <1>2, TypeCorrect, PTL DEF Spec, LinkStable

-----------------------------------------------------------------------------
(***************************************************************************)
(* Compensation and dedup.  Neither needs a hypothesis on request bodies.    *)
(***************************************************************************)

\* As long as nothing was deleted, what was answered Ok is stored, and the row
\* of a correction in flight is there and is nobody's answered save: its key was
\* free when it was created, and nobody else can have created it since.
OwnRow ==
    removed = {} =>
        /\ NoLostSave
        /\ \A c \in Clients : InFlight(c) => Present(req[c].id) /\ req[c].id \notin saved

\* What each step does to the observation of answered saves.
LEMMA SavedWriters ==
    ASSUME [Next]_vars
    PROVE  \/ UNCHANGED <<row, saved, removed>>
           \/ \E c \in Clients : Create(c) \/ Claim(c) \/ Undo(c)
           \/ \E S \in SUBSET Ids : Remove(S)
<1> USE DEF vars
<1>1. CASE \E c \in Clients : \E m \in Request : Receive(c, m)
  BY <1>1 DEF Receive
<1>2. CASE \E c \in Clients : Progress(c)
  BY <1>2 DEF Progress, RejectDuplicate, PassDuplicateCheck, CreateCollides, ClaimFails
<1>3. CASE \E c \in Clients : TakeLock(c) \/ StoreError(c) \/ Drop(c)
  BY <1>3 DEF TakeLock, StoreError, Drop
<1>4. CASE Crash
  BY <1>4 DEF Crash
<1>5. CASE \E i \in Ids : DeleteMemory(i)
  BY <1>5 DEF DeleteMemory
<1>6. CASE \E S \in SUBSET Ids : DeleteAgedAutocapture(S)
  BY <1>6 DEF DeleteAgedAutocapture
<1> QED
  BY <1>1, <1>2, <1>3, <1>4, <1>5, <1>6 DEF Next

\* What a create does to the table, whatever links the body carries.
LEMMA CreateStores ==
    ASSUME TypeOK, NEW c \in Clients, Create(c)
    PROVE  /\ req[c] \in Request /\ req[c].id \in Ids /\ row[req[c].id] = None
           /\ row'[req[c].id] = FromMemory(req[c]) /\ row'[req[c].id] # None
           /\ \A i \in Ids \ {req[c].id} : row'[i] = row[i]
           /\ removed' = removed
           /\ saved' = IF req[c].supersedes = None THEN saved \cup {req[c].id} ELSE saved
<1>1. req[c] \in Request
  BY DEF TypeOK, Create
<1>2. FromMemory(req[c]) \in Row
  BY <1>1, LinksAssumption DEF FromMemory, Request, Row
<1> QED
  BY <1>1, <1>2, NoneAssumption DEF TypeOK, Create, Vacant, Present, Request

\* The compensation's row is its own: no step deletes an answered save's row but
\* a delete, which lifts the claim.
LEMMA OwnRowInductive ==
    ASSUME TypeOK, LockHeld, OwnRow, [Next]_vars PROVE OwnRow'
<1> SUFFICES ASSUME removed' = {}
             PROVE  /\ \A i \in saved' : row'[i] # None
                    /\ \A d \in Clients : InFlight(d)' =>
                         row'[req'[d].id] # None /\ req'[d].id \notin saved'
  BY DEF OwnRow, NoLostSave, Present
<1> DEFINE Goal(d) == row'[req'[d].id] # None /\ req'[d].id \notin saved'
<1>0. saved \subseteq Ids
  BY DEF TypeOK
<1>1. ASSUME removed = {}
      PROVE  /\ \A i \in saved : row[i] # None
             /\ \A c \in Clients : InFlight(c) => row[req[c].id] # None /\ req[c].id \notin saved
  BY <1>1 DEF OwnRow, NoLostSave, Present
<1>2. ASSUME NEW d \in Clients, InFlight(d)', ~Create(d)
      PROVE  InFlight(d) /\ req'[d] = req[d] /\ lock = d /\ req[d].id \in Ids
  BY <1>2, StillInFlight DEF LockHeld, TypeOK, InFlight, Request
<1>3. CASE UNCHANGED <<row, saved, removed>>
  <2>1. ASSUME NEW d \in Clients, InFlight(d)', Create(d) PROVE FALSE
    BY <2>1, <1>3, CreateStores
  <2> QED
    BY <1>1, <1>2, <1>3, <2>1
<1>4. ASSUME NEW c \in Clients, Create(c)
      PROVE  /\ \A i \in saved' : row'[i] # None
             /\ \A d \in Clients : InFlight(d)' => Goal(d)
  <2>1. removed = {}
    BY <1>4, CreateStores
  <2>2. \A i \in saved' : row'[i] # None
    BY <1>0, <1>1, <1>4, <2>1, CreateStores
  <2>3. ASSUME NEW d \in Clients, InFlight(d)', d # c, ~Create(d) PROVE Goal(d)
    BY <1>1, <1>2, <1>4, <2>1, <2>3, CreateStores
  <2>4. ASSUME NEW d \in Clients, InFlight(d)', Create(d) PROVE Goal(d)
    <3>1. req'[d] = req[d] /\ req[d].supersedes # None
      BY <2>4 DEF Create, Leave, Goto, InFlight, TypeOK
    <3> QED
      BY <1>1, <2>1, <2>4, <3>1, CreateStores
  <2> QED
    BY <1>4, <2>2, <2>3, <2>4
<1>5. ASSUME NEW c \in Clients, Claim(c)
      PROVE  /\ \A i \in saved' : row'[i] # None
             /\ \A d \in Clients : InFlight(d)' => Goal(d)
  <2>1. removed = {} /\ saved' = saved \cup {req[c].id} /\ InFlight(c) /\ lock = c
    BY <1>5 DEF Claim, InFlight, LockHeld
  <2>2. \A i \in saved' : row'[i] # None
    BY <1>0, <1>1, <1>5, <2>1, ClaimRow
  <2>3. ASSUME NEW d \in Clients, InFlight(d)' PROVE FALSE
    <3>1. ~Create(d)
      <4>1. pc[c] = "claim" /\ pc' = [pc EXCEPT ![c] = "idle"]
        BY <1>5 DEF Claim, Leave
      <4>2. Create(d) => pc[d] = "create" /\ \E s : pc' = [pc EXCEPT ![d] = s]
        BY DEF Create, Leave, Goto
      <4> QED
        BY <4>1, <4>2 DEF TypeOK
    <3>2. d = c
      BY <1>2, <2>1, <2>3, <3>1
    <3> QED
      BY <1>5, <2>3, <3>2 DEF Claim, Leave, InFlight, TypeOK
  <2> QED
    BY <2>2, <2>3
<1>6. ASSUME NEW c \in Clients, Undo(c)
      PROVE  /\ \A i \in saved' : row'[i] # None
             /\ \A d \in Clients : InFlight(d)' => Goal(d)
  <2>1. removed = {} /\ saved' = saved /\ InFlight(c) /\ lock = c
    BY <1>6 DEF Undo, InFlight, LockHeld
  <2>2. \A i \in saved' : row'[i] # None
    BY <1>0, <1>1, <1>6, <2>1, UndoRow
  <2>3. ASSUME NEW d \in Clients, InFlight(d)' PROVE FALSE
    <3>1. ~Create(d)
      BY <1>6, <2>1, CreateStores, UndoRow DEF Create, Undo, Leave, TypeOK
    <3>2. d = c
      BY <1>2, <2>1, <2>3, <3>1
    <3> QED
      BY <1>6, <2>3, <3>2 DEF Undo, Leave, InFlight, TypeOK
  <2> QED
    BY <2>2, <2>3
<1>7. ASSUME NEW S \in SUBSET Ids, Remove(S)
      PROVE  /\ \A i \in saved' : row'[i] # None
             /\ \A d \in Clients : InFlight(d)' => Goal(d)
  BY <1>0, <1>1, <1>7 DEF Remove, TypeOK, InFlight, Request
<1> QED
  BY <1>3, <1>4, <1>5, <1>6, <1>7, SavedWriters

\* A compensation takes back its own row only, through every interleaving and
\* failure, until something is deleted.
THEOREM CompensationIsOwn == Spec => []CompensatesItself
<1>1. Init => TypeOK /\ LockHeld /\ OwnRow
  BY NoneAssumption, BoundsAssumption DEF Init, TypeOK, Steps, LockHeld, OwnRow,
     InFlight, NoLostSave
<1>2. TypeOK /\ LockHeld /\ OwnRow /\ [Next]_vars => (TypeOK /\ LockHeld /\ OwnRow)'
  BY TypeInductive, LockInductive, OwnRowInductive
<1>3. OwnRow => CompensatesItself
  BY DEF OwnRow, CompensatesItself
<1> QED
  BY <1>1, <1>2, <1>3, PTL DEF Spec

-----------------------------------------------------------------------------

\* While saves never overlapped: one handler at a time is busy, no text is live
\* twice, and the text of a save that has passed the duplicate check is still
\* not there when it is created.
OneAtATime ==
    raced = "no" =>
        /\ \A c, d \in Clients : pc[c] # "idle" /\ pc[d] # "idle" => c = d
        /\ \A c \in Clients : pc[c] \in {"lock", "create"} => ~DuplicateLive(req[c].content)
        /\ NoLiveDuplicates

\* Steps that add no live row and no busy handler keep the dedup.
LEMMA StaysDeduped ==
    ASSUME TypeOK, OneAtATime,
           raced' = raced,
           \A c \in Clients :
                \/ pc'[c] = "idle"
                \/ /\ pc[c] # "idle" /\ req'[c] = req[c]
                   /\ pc'[c] \in {"lock", "create"} =>
                        pc[c] \in {"lock", "create"} \/ ~DuplicateLive(req[c].content),
           \A i \in Ids : row'[i] # None /\ row'[i].superseded_by = None =>
                /\ row[i] # None /\ row[i].superseded_by = None
                /\ row'[i].content = row[i].content
    PROVE  OneAtATime'
BY DEF OneAtATime, NoLiveDuplicates, DuplicateLive, Live, Present

LEMMA OneAtATimeInductive ==
    ASSUME TypeOK, OneAtATime, [Next]_vars PROVE OneAtATime'
<1> USE DEF TypeOK
<1>1. CASE UNCHANGED vars
  BY <1>1, StaysDeduped DEF vars
<1>2. ASSUME NEW c \in Clients, NEW m \in Request, Receive(c, m) PROVE OneAtATime'
  BY <1>2 DEF Receive, OneAtATime, NoLiveDuplicates, DuplicateLive, Live, Present
<1>3. ASSUME NEW c \in Clients, Leave(c), raced' = raced, row' = row PROVE OneAtATime'
  BY <1>3, StaysDeduped DEF Leave
<1>4. ASSUME NEW c \in Clients, PassDuplicateCheck(c) PROVE OneAtATime'
  BY <1>4, StaysDeduped DEF PassDuplicateCheck, Goto
<1>5. ASSUME NEW c \in Clients, TakeLock(c) PROVE OneAtATime'
  BY <1>5, StaysDeduped DEF TakeLock
<1>6. ASSUME NEW c \in Clients, Create(c) PROVE OneAtATime'
  <2> SUFFICES ASSUME raced = "no" PROVE OneAtATime'
    BY <1>6 DEF Create, OneAtATime
  <2>1. /\ pc[c] = "create"
        /\ \A d \in Clients : d # c => pc[d] = "idle"
        /\ \A i \in Ids : ~(Live(i) /\ row[i].content = req[c].content)
        /\ NoLiveDuplicates
    BY <1>6 DEF OneAtATime, Create, DuplicateLive
  <2>2. /\ \A d \in Clients : d # c => pc'[d] = "idle"
        /\ pc'[c] \in {"idle", "claim"}
    BY <1>6, <2>1 DEF Create, Leave, Goto
  <2>3. row'[req[c].id].content = req[c].content
    <3>1. FromMemory(req[c]).content = req[c].content
      BY DEF FromMemory
    <3> QED
      BY <1>6, <3>1, CreateStores
  <2>4. NoLiveDuplicates'
    BY <1>6, <2>1, <2>3, CreateStores DEF NoLiveDuplicates, Live, Present
  <2> QED
    BY <2>2, <2>4 DEF OneAtATime
<1>7. ASSUME NEW c \in Clients, Claim(c) PROVE OneAtATime'
  <2>1. \A i \in Ids : row'[i] # None /\ row'[i].superseded_by = None => row'[i] = row[i]
    BY <1>7, ClaimRow, NoneAssumption
  <2>2. Leave(c) /\ raced' = raced
    BY <1>7 DEF Claim
  <2> QED
    BY <2>1, <2>2, StaysDeduped DEF Leave
<1>8. ASSUME NEW c \in Clients, Undo(c) PROVE OneAtATime'
  <2>1. \A i \in Ids : row'[i] # None /\ row'[i].superseded_by = None => row'[i] = row[i]
    BY <1>8, UndoRow
  <2>2. Leave(c) /\ raced' = raced
    BY <1>8 DEF Undo
  <2> QED
    BY <2>1, <2>2, StaysDeduped DEF Leave
<1>9. ASSUME NEW c \in Clients, pc[c] = "claim", Goto(c, "undo"), raced' = raced, row' = row
      PROVE  OneAtATime'
  BY <1>9, StaysDeduped DEF Goto
<1>10. ASSUME NEW S \in SUBSET Ids, Remove(S) PROVE OneAtATime'
  BY <1>10, StaysDeduped DEF Remove
<1>11. CASE Crash
  BY <1>11, StaysDeduped DEF Crash
<1>12. CASE \E c \in Clients : Progress(c)
  BY <1>12, <1>3, <1>4, <1>6, <1>7, <1>8, <1>9 DEF Progress, RejectDuplicate,
     CreateCollides, ClaimFails
<1>13. CASE \E c \in Clients : StoreError(c) \/ Drop(c)
  BY <1>13, <1>3, <1>9 DEF StoreError, Drop
<1> QED
  BY <1>1, <1>2, <1>5, <1>10, <1>11, <1>12, <1>13 DEF Next, DeleteMemory,
     DeleteAgedAutocapture

\* Saves that come one after the other never store a text twice, whatever is
\* corrected, deleted, swept or fails in between.
THEOREM DedupHolds == Spec => []OneRowPerText
<1>1. Init => OneAtATime
  BY DEF Init, OneAtATime, NoLiveDuplicates, Live, Present
<1>2. OneAtATime => OneRowPerText
  BY DEF OneAtATime, OneRowPerText
<1> QED
  BY <1>1, <1>2, TypeCorrect, OneAtATimeInductive, PTL DEF Spec

-----------------------------------------------------------------------------
(***************************************************************************)
(* The refinement: CREATE inserts, a claim supersedes, a compensation        *)
(* withdraws, a delete or a sweep deletes, and nothing else shows.           *)
(***************************************************************************)

\* Every step of the palace is a step of Corrections, or stutters.
LEMMA StepSimulation ==
    ASSUME IInv, RequestLinks = {None}, [Next]_vars
    PROVE  [Shown!Next]_(Shown!cvars)
<1> USE DEF IInv
<1> DEFINE here == {i \in Ids : row[i] # None}
           link == [i \in Ids |-> IF row[i] # None THEN row[i].superseded_by ELSE None]
<1>1. CASE UNCHANGED <<row, removed>>
  BY <1>1 DEF Shown!cvars, Present
<1>2. ASSUME NEW c \in Clients, Create(c) PROVE Shown!Next
  <2> DEFINE y == req[c].id
  <2>1. y \in Ids /\ y \notin here /\ here' = here \cup {y} /\ link' = link /\ removed' = removed
    BY <1>2, CreateRow DEF Present
  <2>2. Shown!Insert(y)
    BY <2>1 DEF Shown!Insert, Present
  <2> QED
    BY <2>1, <2>2 DEF Shown!Next
<1>3. ASSUME NEW c \in Clients, Claim(c) PROVE Shown!Next
  <2> PICK t \in Ids, y \in Ids : t = req[c].supersedes /\ y = req[c].id
    BY <1>3, ClaimRow
  <2>1. /\ t # y /\ here' = here /\ link' = [link EXCEPT ![t] = y] /\ removed' = removed
        /\ t \in here /\ link[t] = None
    BY <1>3, ClaimRow DEF Live, Present
  <2>2. (y \in here /\ link[y] = None) \/ (y \notin here /\ y \in removed)
    BY <1>3 DEF Undecided, InFlight, Claim, Present
  <2>3. Shown!Supersede(t, y)
    BY <2>1, <2>2 DEF Shown!Supersede, Shown!Current, Present
  <2> QED
    BY <2>3 DEF Shown!Next
<1>4. ASSUME NEW c \in Clients, Undo(c) PROVE [Shown!Next]_(Shown!cvars)
  <2> DEFINE y == req[c].id
  <2>1. /\ y \in Ids /\ here' = here \ {y} /\ removed' = removed
        /\ \A i \in Ids \ {y} : row'[i] = row[i]
        /\ row'[y] = None
    BY <1>4, UndoRow
  <2>2. /\ row[y] # None => row[y].superseded_by = None
        /\ y \in removed \/ \A j \in Ids : link[j] # y
    BY <1>4, <2>1, NoneAssumption DEF Undecided, InFlight, Undo, Present
  <2>3. link' = link
    BY <2>1, <2>2
  <2>4. CASE row[y] = None
    BY <2>1, <2>3, <2>4 DEF Shown!cvars, Present
  <2>5. CASE row[y] # None
    <3>1. Shown!Withdraw(y)
      BY <2>1, <2>2, <2>3, <2>5 DEF Shown!Withdraw, Shown!Current, Present
    <3> QED
      BY <2>1, <3>1 DEF Shown!Next
  <2> QED
    BY <2>4, <2>5
<1>5. ASSUME NEW S \in SUBSET Ids, \A i \in S : Present(i), Remove(S) PROVE Shown!Next
  <2>1. /\ S \subseteq here /\ here' = here \ S /\ removed' = removed \cup S
        /\ link' = [i \in Ids |-> IF i \in S THEN None ELSE link[i]]
    BY <1>5 DEF Remove, Present
  <2>2. Shown!Delete(S)
    BY <2>1 DEF Shown!Delete, Present
  <2> QED
    BY <2>2 DEF Shown!Next
<1>6. CASE \E i \in Ids : DeleteMemory(i)
  BY <1>5, <1>6 DEF DeleteMemory
<1>7. CASE \E S \in SUBSET Ids : DeleteAgedAutocapture(S)
  BY <1>5, <1>7 DEF DeleteAgedAutocapture
<1>8. CASE \E c \in Clients : Progress(c)
  BY <1>8, <1>1, <1>2, <1>3, <1>4 DEF Progress, RejectDuplicate, PassDuplicateCheck,
     CreateCollides, ClaimFails
<1>9. CASE \E c \in Clients : TakeLock(c) \/ StoreError(c) \/ Drop(c)
  BY <1>9, <1>1 DEF TakeLock, StoreError, Drop
<1>10. CASE UNCHANGED vars \/ Crash \/ \E c \in Clients : \E m \in Request : Receive(c, m)
  BY <1>10, <1>1 DEF vars, Crash, Receive
<1> QED
  BY <1>6, <1>7, <1>8, <1>9, <1>10 DEF Next

\* The save protocol implements Corrections for every number of clients, ids
\* and faults, when request bodies carry no `superseded_by`.
THEOREM PalaceImplementsCorrections ==
    ASSUME RequestLinks = {None} PROVE Spec => ImplementsCorrections
<1>1. Init => Shown!Init
  BY DEF Init, Shown!Init, Present
<1>2. IInv /\ [Next]_vars => [Shown!Next]_(Shown!cvars)
  BY StepSimulation
<1> QED
  BY <1>1, <1>2, Inductive, PTL DEF Spec, ImplementsCorrections, Shown!Spec

=============================================================================
