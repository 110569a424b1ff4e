---------------------------- MODULE Federation ------------------------------
(***************************************************************************)
(* The federation ingress on top of the palace and the review queue: a peer  *)
(* routes a memory here (POST /federation/routed-write), an airgapped         *)
(* instance refuses it, one outside the scopes this instance is the authority *)
(* for is refused too, doctrine is staged for review and everything else is   *)
(* stored, in the same tables that mining passes and reviews work on.  The    *)
(* instance's role and scopes are read from the environment when it boots.    *)
(*                                                                         *)
(* The write's target and operation are read by nobody: an update and a       *)
(* delete are stored like a create.  conflict-signal always answers 404.      *)
(***************************************************************************)
EXTENDS Mining

CONSTANTS
    Environments,   \* what IJIMA_INSTANCE_ROLE and _SCOPES are set to
    Lower(_),       \* to_ascii_lowercase, of a text
    Unparsable,     \* a scope without a colon
    Writes          \* what peers send: [scope, doctrine, fact]

\* A scope names a namespace and a project, "*" for any.
AuthoritativeScope == [namespace : STRING, project : STRING]

ASSUME WritesAssumption ==
    Writes \subseteq [scope : AuthoritativeScope, doctrine : BOOLEAN, fact : Facts]

VARIABLES
    environment,    \* the variables the daemon was started with
    landed          \* observation: routed writes that got as far as a table, and under what

fed == <<environment, landed>>
fedvars == <<vars, fed>>

FedInit ==
    /\ Init
    /\ environment \in Environments
    /\ landed = {}

-----------------------------------------------------------------------------
(* The instance's configuration *)

\* Case does not matter; a role that is unset or unknown is Unifying.
Role(text) ==
    CASE text # None /\ Lower(text) = "airgapped" -> "Airgapped"
      [] text # None /\ Lower(text) = "archive" -> "Archive"
      [] text # None /\ Lower(text) = "edge" -> "Edge"
      [] text # None /\ Lower(text) \in {"domain-authority", "domain_authority"} -> "DomainAuthority"
      [] OTHER -> "Unifying"

Parsed(texts) == texts \ {Unparsable}

\* What does not parse is dropped; when nothing is left, or none is set, the
\* scope is local:*.
Scopes(texts) ==
    IF texts = None \/ Parsed(texts) = {}
    THEN {[namespace |-> "local", project |-> "*"]} ELSE Parsed(texts)

FederationConfigFromEnv ==
    [role |-> Role(environment.role), authoritative_scopes |-> Scopes(environment.scopes)]

AcceptsScope(scope) ==
    \E s \in FederationConfigFromEnv.authoritative_scopes :
        /\ s.namespace \in {scope.namespace, "*"}
        /\ s.project \in {scope.project, "*"}

-----------------------------------------------------------------------------
(* routed_write *)

\* Past the boundary? A refused write changes nothing.
Admits(w) == FederationConfigFromEnv.role # "Airgapped" /\ AcceptsScope(w.scope)

AdmitsByScope(c, w) ==
    /\ AcceptsScope(w.scope)
    /\ Start(c, IF w.doctrine THEN "stage" ELSE "route", <<w>>)
    /\ UNCHANGED <<tables, history, fed>>

RoutesAll(c, w) ==
    /\ Admits(w)
    /\ Start(c, "route", <<w>>)
    /\ UNCHANGED <<tables, history, fed>>

\* Doctrine is never trusted on arrival.
RoutedWrite(c, w) ==
    /\ Admits(w)
    /\ Start(c, IF w.doctrine THEN "stage" ELSE "route", <<w>>)
    /\ UNCHANGED <<tables, history, fed>>

PeerId(c) == <<"peer", Current(c).fact>>

Land(c) ==
    /\ landed' = landed \cup {[write |-> Current(c), under |-> environment]}
    /\ UNCHANGED environment

Stage(c) ==
    /\ pc[c] = "stage"
    /\ EnqueueExtraction(c, PeerId(c), Finish(c, "done"))
    /\ Land(c)

RouteCheck(c) ==
    /\ pc[c] = "route"
    /\ CheckDuplicate(c, Current(c).fact, "apply")
    /\ UNCHANGED fed

RouteCreate(c) ==
    /\ pc[c] = "apply"
    /\ Create(c, PeerId(c), Finish(c, "done"))
    /\ Land(c)

\* The daemon is restarted with other variables; its requests die with it.
Reconfigure(e) ==
    /\ used.faults < MaxFaults /\ e # environment
    /\ Spend("faults")
    /\ pc' = [c \in Clients |-> "idle"]
    /\ job' = [c \in Clients |-> None]
    /\ answer' = [c \in Clients |-> IF pc[c] = "idle" THEN answer[c] ELSE "error"]
    /\ environment' = e
    /\ UNCHANGED <<tables, history, landed>>

Route(c) == Stage(c) \/ RouteCheck(c) \/ RouteCreate(c)

FedNext ==
    \/ Next /\ UNCHANGED fed
    \/ \E c \in Clients, w \in Writes : RoutedWrite(c, w)
    \/ \E c \in Clients : Route(c)
    \/ \E e \in Environments : Reconfigure(e)

FedSpec == FedInit /\ [][FedNext]_fedvars

-----------------------------------------------------------------------------
(* Properties *)

\* Facts that some peer sends as an ordinary memory.
SentPlain == {w.fact : w \in {v \in Writes : ~v.doctrine}}

\* The review gate, over all the ways in: a text that only unsure lines of the
\* model report, or that peers only send as doctrine, is in the palace only if
\* a reviewer asked to accept an entry of it, however many passes, routed
\* writes, accepts, rejects, retries and restarts there were.
ReviewGate ==
    \A f \in promoted \ (AutoFacts \cup SentPlain) : \E q \in approved : q.id[2] = f

\* The boundary holds: no routed write reached a table of a daemon that was
\* started as airgapped, however it is spelled, nor one whose scope none of the
\* scopes covers that the operator wrote (local:* when none of them parses);
\* restarts with other variables included.
BoundaryHolds ==
    \A l \in landed :
        /\ l.under.role = None \/ Lower(l.under.role) # "airgapped"
        /\ \E s \in Scopes(l.under.scopes) :
              /\ s.namespace \in {l.write.scope.namespace, "*"}
              /\ s.project \in {l.write.scope.project, "*"}

=============================================================================
