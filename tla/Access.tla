------------------------------- MODULE Access -------------------------------
(***************************************************************************)
(* Who may do what: the bearer check with its revocation set, the rate      *)
(* limiter, the capability gate and the walls between namespaces, in front  *)
(* of the handlers that recall, store, delete, promote and ingest and that  *)
(* list the versions of a doctrine document, of the routes with a rule of   *)
(* their own for the walls they reach (search of all that is visible,       *)
(* export, deletion of a triple), and of the admin routes that revoke       *)
(* tokens and change memberships.                                           *)
(*                                                                         *)
(* The revocation set and the buckets live in the daemon's memory; the      *)
(* revocation, membership and memory tables survive a crash.  A request is  *)
(* suspended at each database round trip, and its connection may drop       *)
(* there.  Every token is well formed, signed and unexpired: any other is   *)
(* answered 401 and changes nothing.  The limiter is on, as by default.     *)
(***************************************************************************)
EXTENDS Integers, FiniteSets, FiniteSetsExt

CONSTANTS
    Conns,          \* concurrent requests
    Tokens,         \* bearers, one per hash
    Principals,
    Holder,         \* the principal each token was issued to
    Caps,           \* the capabilities each token carries
    Walls,          \* shared namespaces, reached by membership
    Inputs,         \* the requests clients send
    None,
    Base,           \* bucket capacity per unit of codimension
    MaxRequests,    \* bound: requests received
    MaxRefills,     \* bound: bucket tokens that come back with time
    MaxFaults       \* bound: failed round trips, dropped requests and crashes

Capabilities ==
    {"memory:read", "knowledge:read", "mining:review", "memory:write",
     "knowledge:write", "session:ingest", "doctrine:write", "mining:trigger",
     "trust:promote", "trust:endorse", "trust:override", "admin"}

Namespace(kind, owner) == [kind |-> kind, owner |-> owner]
Own(t) == Namespace("private", Holder[t])
Doctrine == Namespace("doctrine", None)
Global == Namespace("global", None)
Namespaces ==
    [kind : {"private"}, owner : Principals]
        \cup [kind : {"shared"}, owner : Walls]
        \cup [kind : {"global", "doctrine", "import"}, owner : {None}]

\* The operations behind the wall of the one namespace they name, the ones with
\* a rule of their own, and the ones on the tables of tokens and memberships.
Walled == {"recall", "store", "delete", "promote", "ingest", "versions"}
Unwalled == {"search", "export", "kg_delete"}
Ops == Walled \cup Unwalled \cup {"revoke", "grant", "expel"}
Request ==
    [op : Ops, token : Tokens, ns : Namespaces \cup {None},
     who : Principals \cup {None}, victim : Tokens \cup {None}]

ASSUME AccessAssumption ==
    /\ Holder \in [Tokens -> Principals]
    /\ Caps \in [Tokens -> (SUBSET Capabilities) \ {{}}]
    /\ Inputs \subseteq Request
    /\ \A r \in Inputs :
        /\ r.op = "revoke" => r.victim \in Tokens
        /\ r.op \in {"grant", "expel"} => r.ns \in Namespaces /\ r.who \in Principals
        /\ r.op = "promote" => r.ns \in Namespaces
    /\ None \notin Tokens \cup Principals \cup Namespaces
    /\ None \notin [cap : Nat, left : Nat]
    /\ Base \in Nat \ {0}

VARIABLES
    daemon,     \* "up" or "down"
    revoked,    \* the token_revocations table
    armed,      \* the daemon's revocation set
    members,    \* the namespace_members table: pairs <<namespace, principal>>
    rows,       \* the namespaces that hold the memory (one id stands for all)
    bucket,     \* per principal [cap, left], or None before its first request
    conn,       \* each connection's request, and where its handler is suspended
    killed,     \* observation: the tokens whose revocation was answered 204
    spent,      \* observation: requests admitted less bucket tokens come back
    used        \* how much of each bound is spent

tables == <<revoked, members, rows>>
vars == <<daemon, revoked, armed, members, rows, bucket, conn, killed, spent, used>>

\* `walls` is the list a visible search goes through; `ever` observes the
\* namespaces the caller was a member of at some time since the request arrived.
Handler ==
    [pc : {"idle", "verify", "consume", "source", "walls", "stats", "member", "store", "arm"},
     op : Ops \cup {None}, token : Tokens \cup {None},
     ns : Namespaces \cup {None}, who : Principals \cup {None},
     victim : Tokens \cup {None}, walls : SUBSET Namespaces, ever : SUBSET Namespaces]
Idle ==
    [pc |-> "idle", op |-> None, token |-> None, ns |-> None, who |-> None,
     victim |-> None, walls |-> {}, ever |-> {}]

Init ==
    /\ daemon = "down"
    /\ revoked = {} /\ armed = {} /\ members = {} /\ rows = {}
    /\ bucket = [p \in Principals |-> None]
    /\ conn = [c \in Conns |-> Idle]
    /\ killed = {}
    /\ spent = [p \in Principals |-> 0]
    /\ used = [requests |-> 0, refills |-> 0, faults |-> 0]

-----------------------------------------------------------------------------
(* Capabilities *)

\* The embedded policy, padded to the four rows of Gr(4,8).
Partition(cap) ==
    CASE cap \in {"memory:read", "knowledge:read"} -> <<1, 0, 0, 0>>
      [] cap \in {"mining:review", "memory:write", "knowledge:write"} -> <<2, 0, 0, 0>>
      [] cap \in {"session:ingest", "doctrine:write"} -> <<3, 0, 0, 0>>
      [] cap \in {"mining:trigger", "trust:promote"} -> <<3, 1, 0, 0>>
      [] cap = "trust:endorse" -> <<3, 2, 0, 0>>
      [] cap = "trust:override" -> <<4, 2, 0, 0>>
      [] cap = "admin" -> <<4, 4, 4, 4>>

MaySomeRow(t, required) ==
    \E cap \in Caps[t] : \E i \in 1..4 : Partition(required)[i] <= Partition(cap)[i]

\* Some granted partition contains the required one, row by row.
May(t, required) ==
    \E cap \in Caps[t] : \A i \in 1..4 : Partition(required)[i] <= Partition(cap)[i]

\* The codimension of the strongest capability of the grant.
Weight(t) ==
    Max({Partition(cap)[1] + Partition(cap)[2] + Partition(cap)[3] + Partition(cap)[4] :
            cap \in Caps[t]})

\* The capability check each handler starts with.  (The list of versions asks
\* for a capability of the wall; each contains memory:read.)
Gate(t, op) ==
    CASE op \in {"recall", "search", "versions"} -> May(t, "memory:read")
      [] op \in {"store", "delete"} -> May(t, "memory:write")
      [] op = "promote" -> May(t, "trust:promote")
      [] op = "ingest" -> May(t, "admin") \/ May(t, "doctrine:write")
      [] OTHER -> May(t, "admin")

-----------------------------------------------------------------------------
(* Walls: "allow", "deny", or "ask" the membership table *)

ResolveNsMembersFirst(t, ns) ==
    CASE ns = Own(t) -> "allow"
      [] ns.kind \in {"global", "doctrine", "import"} -> "allow"
      [] May(t, "admin") -> "allow"
      [] OTHER -> "ask"

ResolveNs(t, ns) ==
    CASE ns = Own(t) -> "allow"
      [] ns # Own(t) /\ ns.kind = "private" -> "deny"
      [] ns.kind \in {"global", "doctrine", "import"} -> "allow"
      [] ns.kind = "shared" -> IF May(t, "admin") THEN "allow" ELSE "ask"

PromoteTarget(t, ns) ==
    CASE ns.kind = "private" -> IF ns = Own(t) THEN "allow" ELSE "deny"
      [] ns.kind \in {"global", "doctrine"} -> "allow"
      [] ns.kind = "import" -> "deny"
      [] ns.kind = "shared" -> IF May(t, "admin") THEN "allow" ELSE "ask"

\* doctrine:write is its own authority on any wall but the curated one.
DoctrineTarget(t, ns) ==
    IF May(t, "admin") THEN ResolveNs(t, ns)
    ELSE IF ns.kind \in {"private", "doctrine"} THEN "deny" ELSE "allow"

\* The versions on the curated wall are for its authors and the operator.
DoctrineReadTarget(t, ns) ==
    IF ns # Doctrine THEN ResolveNs(t, ns)
    ELSE IF May(t, "admin") \/ May(t, "doctrine:write") THEN "allow" ELSE "deny"

\* The namespace a request means: without one, the caller's or the curated one.
Effective(r) ==
    CASE r.ns # None -> r.ns
      [] r.ns = None /\ r.op \in {"ingest", "versions"} -> Doctrine
      [] OTHER -> Own(r.token)

Wall(r) ==
    CASE r.op = "promote" -> PromoteTarget(r.token, r.ns)
      [] r.op = "ingest" -> DoctrineTarget(r.token, Effective(r))
      [] r.op = "versions" -> DoctrineReadTarget(r.token, Effective(r))
      [] OTHER -> ResolveNs(r.token, Effective(r))

AfterWall(r) ==
    CASE Wall(r) = "allow" -> "store"
      [] Wall(r) = "ask" -> "member"
      [] Wall(r) = "deny" -> "idle"

\* The first round trip of the handler, or "idle" when it answers 403 before
\* (or 400: the deletion of a triple names its namespace).
FirstStop(r) ==
    IF ~Gate(r.token, r.op) THEN "idle"
    ELSE CASE r.op \in {"revoke", "grant", "expel", "export"} -> "store"
           [] r.op = "kg_delete" -> IF r.ns = None THEN "idle" ELSE "store"
           [] r.op = "search" -> "walls"
           [] r.op = "promote" -> "source"
           [] OTHER -> AfterWall(r)

\* The namespaces a handler reads or writes at its own round trip.
Reaches(r) ==
    CASE r.op = "search" -> r.walls
      [] r.op = "export" /\ r.ns = None -> Namespaces
      [] OTHER -> {Effective(r)}

-----------------------------------------------------------------------------
(* Control *)

Spend(what) == used' = [used EXCEPT ![what] = @ + 1]

At(c, step) == daemon = "up" /\ conn[c].pc = step
Resume(c, step) ==
    conn' = [conn EXCEPT ![c] = IF step = "idle" THEN Idle ELSE [@ EXCEPT !.pc = step]]

BootUnhydrated ==
    /\ daemon = "down"
    /\ daemon' = "up"
    /\ armed' = {}
    /\ UNCHANGED <<tables, bucket, conn, killed, spent, used>>

\* The daemon listens only after its revocation set is read from the table.
Boot ==
    /\ daemon = "down"
    /\ daemon' = "up"
    /\ armed' = revoked
    /\ UNCHANGED <<tables, bucket, conn, killed, spent, used>>

Crash ==
    /\ daemon = "up" /\ used.faults < MaxFaults
    /\ daemon' = "down"
    /\ armed' = {}
    /\ bucket' = [p \in Principals |-> None]
    /\ conn' = [c \in Conns |-> Idle]
    /\ spent' = [p \in Principals |-> 0]
    /\ Spend("faults")
    /\ UNCHANGED <<tables, killed>>

\* The namespaces the membership table lists for a principal.
Memberships(p) == {n \in Namespaces : <<n, p>> \in members}

Receive(c) ==
    /\ At(c, "idle") /\ used.requests < MaxRequests
    /\ \E r \in Inputs :
        conn' = [conn EXCEPT ![c] =
            [pc |-> "verify", op |-> r.op, token |-> r.token, ns |-> r.ns,
             who |-> r.who, victim |-> r.victim, walls |-> {},
             ever |-> Memberships(Holder[r.token])]]
    /\ Spend("requests")
    /\ UNCHANGED <<daemon, tables, armed, bucket, killed, spent>>

\* verify_bearer: a revoked bearer is answered 401.
Verify(c) ==
    /\ At(c, "verify")
    /\ Resume(c, IF conn[c].token \in armed THEN "idle" ELSE "consume")
    /\ UNCHANGED <<daemon, tables, armed, bucket, killed, spent, used>>

-----------------------------------------------------------------------------
(* The rate limiter *)

Full(t) == [cap |-> Base * Weight(t), left |-> Base * Weight(t)]

SeenEveryTime(t) == Full(t)

\* A principal's bucket is configured by the first token it is seen with.
Seen(t) == IF bucket[Holder[t]] = None THEN Full(t) ELSE bucket[Holder[t]]

\* One bucket token is taken and the handler runs to its first round trip.
Admit(c) ==
    LET t == conn[c].token  p == Holder[t] IN
    /\ At(c, "consume") /\ Seen(t).left > 0
    /\ bucket' = [bucket EXCEPT ![p] = [Seen(t) EXCEPT !.left = @ - 1]]
    /\ spent' = [spent EXCEPT ![p] = @ + 1]
    /\ Resume(c, FirstStop(conn[c]))
    /\ UNCHANGED <<daemon, tables, armed, killed, used>>

\* The bucket is empty: 429.
Limit(c) ==
    LET t == conn[c].token IN
    /\ At(c, "consume") /\ Seen(t).left = 0
    /\ Resume(c, "idle")
    /\ UNCHANGED <<daemon, tables, armed, bucket, killed, spent, used>>

\* Time gives a bucket token back.
Refill(p) ==
    /\ daemon = "up" /\ used.refills < MaxRefills
    /\ bucket[p] # None /\ bucket[p].left < bucket[p].cap
    /\ bucket' = [bucket EXCEPT ![p].left = @ + 1]
    /\ spent' = [spent EXCEPT ![p] = @ - 1]
    /\ Spend("refills")
    /\ UNCHANGED <<daemon, tables, armed, conn, killed>>

-----------------------------------------------------------------------------
(* The handlers *)

\* promote_memory reads the caller's own row, then looks at the target.
Source(c) ==
    /\ At(c, "source")
    /\ Resume(c, IF Own(conn[c].token) \in rows THEN AfterWall(conn[c]) ELSE "idle")
    /\ UNCHANGED <<daemon, tables, armed, bucket, killed, spent, used>>

CheckMemberOfAny(c) ==
    /\ At(c, "member")
    /\ Resume(c, IF \E n \in Namespaces : <<n, Holder[conn[c].token]>> \in members
                 THEN "store" ELSE "idle")
    /\ UNCHANGED <<daemon, tables, armed, bucket, killed, spent, used>>

CheckMember(c) ==
    /\ At(c, "member")
    /\ Resume(c, IF <<conn[c].ns, Holder[conn[c].token]>> \in members
                 THEN "store" ELSE "idle")
    /\ UNCHANGED <<daemon, tables, armed, bucket, killed, spent, used>>

EnterWalls(c, step, walls) ==
    conn' = [conn EXCEPT ![c] = [@ EXCEPT !.pc = step, !.walls = walls]]

\* search_memories, scope visible: the caller's own wall, the commons and every
\* wall of its memberships, whatever kind they are ...
ListMemberships(c) ==
    LET t == conn[c].token IN
    /\ At(c, "walls")
    /\ EnterWalls(c, "stats", {Own(t), Global} \cup Memberships(Holder[t]))
    /\ UNCHANGED <<daemon, tables, armed, bucket, killed, spent, used>>

\* ... then the import walls that hold rows.
ListImports(c) ==
    /\ At(c, "stats")
    /\ EnterWalls(c, "store",
            conn[c].walls \cup {n \in Namespaces : n \in rows /\ n.kind = "import"})
    /\ UNCHANGED <<daemon, tables, armed, bucket, killed, spent, used>>

\* The data handlers' own round trip.  (The triple a kg_delete removes is of the
\* graph, module Knowledge.)
Serve(c) ==
    LET r == conn[c] IN
    /\ At(c, "store") /\ r.op \in Walled \cup Unwalled
    /\ rows' = CASE r.op \in {"store", "promote", "ingest"} -> rows \cup {Effective(r)}
                 [] r.op = "delete" -> rows \ {Effective(r)}
                 [] OTHER -> rows
    /\ Resume(c, "idle")
    /\ UNCHANGED <<daemon, revoked, armed, members, bucket, killed, spent, used>>

RevokeArmsFirst(c) ==
    /\ At(c, "store") /\ conn[c].op = "revoke"
    /\ armed' = armed \cup {conn[c].victim}
    /\ Resume(c, "arm")
    /\ UNCHANGED <<daemon, tables, bucket, killed, spent, used>>

\* revoke_token_route: the table first ...
Revoke(c) ==
    /\ At(c, "store") /\ conn[c].op = "revoke"
    /\ revoked' = revoked \cup {conn[c].victim}
    /\ Resume(c, "arm")
    /\ UNCHANGED <<daemon, armed, members, rows, bucket, killed, spent, used>>

\* ... then the live set, and 204.
Arm(c) ==
    /\ At(c, "arm")
    /\ armed' = armed \cup {conn[c].victim}
    /\ killed' = killed \cup {conn[c].victim}
    /\ Resume(c, "idle")
    /\ UNCHANGED <<daemon, tables, bucket, spent, used>>

\* A new member is one for the requests in flight too.  Any namespace may be
\* granted, a private one as well.
Grant(c) ==
    LET r == conn[c] IN
    /\ At(c, "store") /\ r.op = "grant"
    /\ members' = members \cup {<<r.ns, r.who>>}
    /\ conn' = [d \in Conns |->
            IF d = c THEN Idle
            ELSE IF conn[d].pc # "idle" /\ Holder[conn[d].token] = r.who
                 THEN [conn[d] EXCEPT !.ever = @ \cup {r.ns}]
                 ELSE conn[d]]
    /\ UNCHANGED <<daemon, revoked, armed, rows, bucket, killed, spent, used>>

Expel(c) ==
    LET r == conn[c] IN
    /\ At(c, "store") /\ r.op = "expel"
    /\ members' = members \ {<<r.ns, r.who>>}
    /\ Resume(c, "idle")
    /\ UNCHANGED <<daemon, revoked, armed, rows, bucket, killed, spent, used>>

\* A round trip fails (500), or the client goes away and the handler with it.
Abort(c) ==
    /\ daemon = "up" /\ conn[c].pc \in {"source", "walls", "stats", "member", "store", "arm"}
    /\ used.faults < MaxFaults
    /\ Resume(c, "idle")
    /\ Spend("faults")
    /\ UNCHANGED <<daemon, tables, armed, bucket, killed, spent>>

Next ==
    \/ Boot
    \/ Crash
    \/ \E p \in Principals : Refill(p)
    \/ \E c \in Conns :
        \/ Receive(c) \/ Verify(c) \/ Admit(c) \/ Limit(c)
        \/ Source(c) \/ CheckMember(c) \/ ListMemberships(c) \/ ListImports(c)
        \/ Serve(c)
        \/ Revoke(c) \/ Arm(c) \/ Grant(c) \/ Expel(c)
        \/ Abort(c)

Spec == Init /\ [][Next]_vars

-----------------------------------------------------------------------------
(* Properties *)

\* Once a revocation is answered 204, no request that presents the bearer gets
\* past verify_bearer again, whatever crashes and restarts come between.
DeadOnArrival ==
    [][\A c \in Conns :
        conn[c].pc = "verify" /\ conn'[c].pc = "consume" => conn[c].token \notin killed]_vars

\* What the live set rejects is in the table, so that a restart forgets no
\* rejection a client has seen (revoke_token_route persists first).
RejectionsPersist == armed \subseteq revoked

\* Another principal's private namespace is out of reach of every handler, even
\* of one whose caller was made a member of it (resolve_ns and its promotion and
\* doctrine forms refuse before they ask the membership table), with two
\* exceptions: an operator's export and kg_delete, which take any wall by design,
\* and a visible search, which goes through every wall the caller was a member
\* of since the request arrived.
PrivateStaysPrivate ==
    \A c \in Conns :
        conn[c].pc = "store" /\ conn[c].op \in Walled \cup Unwalled =>
            \A n \in Reaches(conn[c]) :
                n.kind = "private" /\ n # Own(conn[c].token) =>
                    \/ conn[c].op \in {"export", "kg_delete"} /\ May(conn[c].token, "admin")
                    \/ conn[c].op = "search" /\ n \in conn[c].ever

\* Who was outside a wall from the request's arrival on is not served behind
\* it, by a visible search either: a revoked membership holds for every request
\* that comes after it.  Operators and doctrine ingest pass by their capability.
ExpelledStaysOut ==
    \A c \in Conns :
        conn[c].pc = "store" /\ conn[c].op \in (Walled \cup Unwalled) \ {"ingest"} =>
            \A n \in Reaches(conn[c]) :
                n.kind = "shared" /\ n \notin conn[c].ever => May(conn[c].token, "admin")

\* A grant of read capabilities alone changes no memory, membership or
\* revocation through any route.
ReadersChangeNothing ==
    [][tables' # tables =>
        \E c \in Conns :
            /\ conn[c].pc = "store" /\ conn'[c] # conn[c]
            /\ ~(Caps[conn[c].token] \subseteq {"memory:read", "knowledge:read"})]_vars

\* No principal is admitted more often than its bucket holds and time gives
\* back: a request never fills the bucket up (consume, "on first sight only").
NoFreeRefill ==
    \A p \in Principals : bucket[p] # None => spent[p] <= bucket[p].cap

=============================================================================
