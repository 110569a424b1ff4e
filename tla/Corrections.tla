---------------------------- MODULE Corrections -----------------------------
(***************************************************************************)
(* What a namespace promises about corrections, without saying how: rows     *)
(* come and go, and a row is superseded at most once, by another row that is *)
(* itself still current.  Nothing but a delete takes away a row that another *)
(* one has been superseded by.  From this alone the links form chains that   *)
(* end in a current or a deleted row and never close.                        *)
(*                                                                         *)
(* Palace implements it with an insert, a conditional update and a           *)
(* compensating delete under one lock.                                      *)
(***************************************************************************)
CONSTANTS Ids, None

VARIABLES
    here,       \* the rows there are
    link,       \* what each is superseded by, or None
    removed     \* ids that a caller or the sweeper has deleted at some time

cvars == <<here, link, removed>>

Init == here = {} /\ link = [i \in Ids |-> None] /\ removed = {}

Current(i) == i \in here /\ link[i] = None

\* Rows appear unsuperseded.
Insert(i) ==
    /\ i \notin here
    /\ here' = here \cup {i}
    /\ UNCHANGED <<link, removed>>

\* The heir is current, unless it was deleted while its correction was under way.
Supersede(i, heir) ==
    /\ i # heir /\ Current(i)
    /\ Current(heir) \/ (heir \notin here /\ heir \in removed)
    /\ link' = [link EXCEPT ![i] = heir]
    /\ UNCHANGED <<here, removed>>

\* A correction that did not come about takes its row back; nobody's heir.
Withdraw(i) ==
    /\ Current(i)
    /\ i \in removed \/ \A j \in Ids : link[j] # i
    /\ here' = here \ {i}
    /\ UNCHANGED <<link, removed>>

Delete(S) ==
    /\ S \subseteq here
    /\ here' = here \ S
    /\ link' = [i \in Ids |-> IF i \in S THEN None ELSE link[i]]
    /\ removed' = removed \cup S

Next ==
    \/ \E i \in Ids : Insert(i) \/ Withdraw(i)
    \/ \E i, heir \in Ids : Supersede(i, heir)
    \/ \E S \in SUBSET Ids : Delete(S)

Spec == Init /\ [][Next]_cvars

=============================================================================
