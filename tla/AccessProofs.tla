---------------------------- MODULE AccessProofs ----------------------------
(***************************************************************************)
(* Revocations survive every crash and interleaving, and the walls hold, for *)
(* any tokens, principals, policies, requests and bounds.                   *)
(***************************************************************************)
EXTENDS Access, FiniteSetTheorems, TLAPS

Active(c) == conn[c].pc # "idle"

\* What a suspended handler carries.
Shape ==
    /\ daemon \in {"up", "down"}
    /\ conn \in [Conns -> Handler]
    /\ \A c \in Conns : Active(c) =>
        /\ conn[c].token \in Tokens /\ conn[c].op \in Ops
        /\ conn[c].op \in {"promote", "grant"} => conn[c].ns \in Namespaces

\* The table is ahead of the live set, and the live set of the answers.
Persisted ==
    /\ armed \subseteq revoked
    /\ killed \subseteq revoked
    /\ daemon = "up" => killed \subseteq armed
    /\ \A c \in Conns : conn[c].pc = "arm" => conn[c].victim \in revoked

\* What is known of a handler at each step, given the membership table: only a
\* shared wall asks for membership, `ever` holds every membership of the caller,
\* only a visible search collects walls, and past the wall the two properties
\* hold, one operation at a time.
WallOK(h, table) ==
    /\ h.pc \in {"source", "member"} => h.op \in Walled
    /\ h.pc = "member" => Effective(h).kind = "shared"
    /\ h.pc \in {"walls", "stats"} => h.op = "search"
    /\ h.pc # "idle" =>
        \A n \in Namespaces : <<n, Holder[h.token]>> \in table => n \in h.ever
    /\ h.pc \in {"stats", "store"} /\ h.op = "search" =>
        \A n \in h.walls :
            n.kind \in {"global", "import"} \/ n = Own(h.token) \/ n \in h.ever
    /\ h.pc = "store" /\ h.op \in {"export", "kg_delete"} => May(h.token, "admin")
    /\ h.pc = "store" /\ h.op \in Walled /\ Effective(h).kind = "private"
        => Effective(h) = Own(h.token)
    /\ h.pc = "store" /\ h.op \in Walled \ {"ingest"}
            /\ Effective(h).kind = "shared" /\ Effective(h) \notin h.ever
        => May(h.token, "admin")

WallInv == Shape /\ \A c \in Conns : WallOK(conn[c], members)

-----------------------------------------------------------------------------

\* The handler moves to the step named and keeps its request; nothing else moves.
LEMMA Resumes ==
    ASSUME conn \in [Conns -> Handler], NEW c \in Conns, NEW step,
           step \in {"idle", "verify", "consume", "source", "walls", "stats", "member", "store", "arm"},
           Resume(c, step)
    PROVE  /\ conn' \in [Conns -> Handler]
           /\ \A d \in Conns : d # c => conn'[d] = conn[d]
           /\ conn'[c].pc = step
           /\ step = "idle" => conn'[c] = Idle
           /\ step # "idle" => conn'[c] = [conn[c] EXCEPT !.pc = step]
  <1>1. Idle \in Handler
    BY DEF Idle, Handler
  <1>2. [conn[c] EXCEPT !.pc = step] \in Handler
    BY DEF Handler
  <1>3. conn' = [conn EXCEPT ![c] = IF step = "idle" THEN Idle ELSE [conn[c] EXCEPT !.pc = step]]
    BY DEF Resume
  <1>4. conn[c] \in Handler
    OBVIOUS
  <1> QED
    BY <1>1, <1>2, <1>3, <1>4 DEF Idle, Handler

\* Where a request's namespace rule leads (resolve_ns and its three variants).
LEMMA WallRule ==
    ASSUME NEW r \in Handler, r.token \in Tokens, r.op \in Ops,
           r.op = "promote" => r.ns \in Namespaces
    PROVE  /\ Effective(r) \in Namespaces
           /\ Wall(r) \in {"allow", "ask", "deny"}
           /\ Wall(r) = "ask" => Effective(r).kind = "shared"
           /\ Wall(r) = "allow" /\ Effective(r).kind = "private" => Effective(r) = Own(r.token)
           /\ Wall(r) = "allow" /\ Effective(r).kind = "shared" /\ r.op # "ingest"
                => May(r.token, "admin")
  <1>1. Own(r.token) \in Namespaces /\ Own(r.token).kind = "private"
    BY AccessAssumption DEF Own, Namespace, Namespaces
  <1>2. Doctrine \in Namespaces /\ Doctrine.kind = "doctrine"
    BY DEF Doctrine, Namespace, Namespaces
  <1>3. Effective(r) \in Namespaces
    BY <1>1, <1>2 DEF Effective, Handler
  <1>4. \A n \in Namespaces : n.kind \in {"private", "shared", "global", "doctrine", "import"}
    BY DEF Namespaces
  <1>5. \A n \in Namespaces :
            /\ ResolveNs(r.token, n) \in {"allow", "ask", "deny"}
            /\ ResolveNs(r.token, n) = "ask" => n.kind = "shared"
            /\ ResolveNs(r.token, n) = "allow" /\ n.kind = "private" => n = Own(r.token)
            /\ ResolveNs(r.token, n) = "allow" /\ n.kind = "shared" => May(r.token, "admin")
    BY <1>1, <1>4 DEF ResolveNs
  <1>6. \A n \in Namespaces :
            /\ PromoteTarget(r.token, n) \in {"allow", "ask", "deny"}
            /\ PromoteTarget(r.token, n) = "ask" => n.kind = "shared"
            /\ PromoteTarget(r.token, n) = "allow" /\ n.kind = "private" => n = Own(r.token)
            /\ PromoteTarget(r.token, n) = "allow" /\ n.kind = "shared" => May(r.token, "admin")
    BY <1>1, <1>4 DEF PromoteTarget
  <1>7. \A n \in Namespaces :
            /\ DoctrineTarget(r.token, n) \in {"allow", "ask", "deny"}
            /\ DoctrineTarget(r.token, n) = "ask" => n.kind = "shared"
            /\ DoctrineTarget(r.token, n) = "allow" /\ n.kind = "private" => n = Own(r.token)
    BY <1>5 DEF DoctrineTarget
  <1>71. \A n \in Namespaces :
            /\ DoctrineReadTarget(r.token, n) \in {"allow", "ask", "deny"}
            /\ DoctrineReadTarget(r.token, n) = "ask" => n.kind = "shared"
            /\ DoctrineReadTarget(r.token, n) = "allow" /\ n.kind = "private" => n = Own(r.token)
            /\ DoctrineReadTarget(r.token, n) = "allow" /\ n.kind = "shared" => May(r.token, "admin")
    BY <1>2, <1>5 DEF DoctrineReadTarget
  <1>8. r.op = "promote" => Effective(r) = r.ns /\ Wall(r) = PromoteTarget(r.token, r.ns)
    BY AccessAssumption DEF Effective, Wall
  <1>9. r.op = "ingest" => Wall(r) = DoctrineTarget(r.token, Effective(r))
    BY DEF Wall
  <1>91. r.op = "versions" => Wall(r) = DoctrineReadTarget(r.token, Effective(r))
    BY DEF Wall
  <1>10. r.op \notin {"promote", "ingest", "versions"} => Wall(r) = ResolveNs(r.token, Effective(r))
    BY DEF Wall
  <1> QED
    BY <1>3, <1>5, <1>6, <1>7, <1>71, <1>8, <1>9, <1>91, <1>10

\* What lets a request through to its own round trip.
StoreOK(r) ==
    \/ r.op \in {"revoke", "grant", "expel"}
    \/ r.op \in {"export", "kg_delete"} /\ May(r.token, "admin")
    \/ r.op \in Walled /\ Wall(r) = "allow"

\* Where a handler may first suspend, and what is then known of its request.
LEMMA Stops ==
    ASSUME NEW r \in Handler, r.token \in Tokens, r.op \in Ops,
           r.op = "promote" => r.ns \in Namespaces
    PROVE  /\ AfterWall(r) \in {"idle", "member", "store"}
           /\ AfterWall(r) = "member" <=> Wall(r) = "ask"
           /\ AfterWall(r) = "store" <=> Wall(r) = "allow"
           /\ FirstStop(r) \in {"idle", "source", "walls", "member", "store"}
           /\ FirstStop(r) = "source" => r.op = "promote"
           /\ FirstStop(r) = "walls" => r.op = "search"
           /\ FirstStop(r) = "member" => r.op \in Walled /\ Wall(r) = "ask"
           /\ FirstStop(r) = "store" => StoreOK(r)
  <1>1. Wall(r) \in {"allow", "ask", "deny"}
    BY WallRule
  <1>2. /\ AfterWall(r) \in {"idle", "member", "store"}
        /\ AfterWall(r) = "member" <=> Wall(r) = "ask"
        /\ AfterWall(r) = "store" <=> Wall(r) = "allow"
    BY <1>1 DEF AfterWall
  <1>3. r.op \in {"export", "kg_delete"} /\ Gate(r.token, r.op) => May(r.token, "admin")
    BY DEF Gate
  <1> QED
    BY <1>2, <1>3 DEF FirstStop, StoreOK, Ops, Walled, Unwalled

-----------------------------------------------------------------------------

\* The same request, wherever its handler is.
Keeps(g, h) ==
    /\ g.op = h.op /\ g.token = h.token /\ g.ns = h.ns /\ g.victim = h.victim
    /\ Effective(g) = Effective(h)

\* A visible search notes walls of the palace and moves on.
Collects(c) == ListMemberships(c) \/ ListImports(c)

Noted(c, step, W) ==
    /\ conn' \in [Conns -> Handler]
    /\ \A d \in Conns : d # c => conn'[d] = conn[d]
    /\ conn'[c].pc = step /\ conn'[c].walls = W /\ conn'[c].ever = conn[c].ever
    /\ Keeps(conn'[c], conn[c])

LEMMA Entered ==
    ASSUME conn \in [Conns -> Handler], NEW c \in Conns, NEW step \in {"stats", "store"},
           NEW W \in SUBSET Namespaces, EnterWalls(c, step, W)
    PROVE  Noted(c, step, W)
  <1>1. conn' = [conn EXCEPT ![c] = [conn[c] EXCEPT !.pc = step, !.walls = W]]
    BY DEF EnterWalls
  <1>2. PICK h \in Handler : h = conn[c]
    OBVIOUS
  <1>3. PICK g : g = [h EXCEPT !.pc = step, !.walls = W]
    OBVIOUS
  <1>4. /\ g \in Handler /\ g.pc = step /\ g.walls = W /\ g.ever = h.ever
        /\ g.op = h.op /\ g.token = h.token /\ g.ns = h.ns /\ g.victim = h.victim
    BY <1>3 DEF Handler
  <1>5. Keeps(g, h)
    BY <1>4 DEF Keeps, Effective
  <1> QED
    BY <1>1, <1>2, <1>3, <1>4, <1>5 DEF Noted

LEMMA Collected ==
    ASSUME Shape, NEW c \in Conns, Collects(c)
    PROVE  /\ Active(c)
           /\ UNCHANGED <<daemon, revoked, armed, killed, members>>
           /\ \/ /\ conn[c].pc = "walls"
                 /\ Noted(c, "stats", {Own(conn[c].token), Global}
                                        \cup Memberships(Holder[conn[c].token]))
              \/ /\ conn[c].pc = "stats"
                 /\ Noted(c, "store", conn[c].walls
                        \cup {n \in Namespaces : n \in rows /\ n.kind = "import"})
  <1>1. Active(c) /\ UNCHANGED <<daemon, revoked, armed, killed, members>>
    BY DEF Collects, ListMemberships, ListImports, At, Active, tables
  <1>2. Global \in Namespaces /\ Own(conn[c].token) \in Namespaces
    BY <1>1, AccessAssumption DEF Global, Own, Namespace, Namespaces, Shape
  <1>3. Memberships(Holder[conn[c].token]) \subseteq Namespaces
    BY DEF Memberships
  <1>4. conn[c].walls \subseteq Namespaces
    BY DEF Shape, Handler
  <1>5. CASE ListMemberships(c)
    BY <1>1, <1>2, <1>3, <1>5, Entered DEF ListMemberships, At, Shape
  <1>6. CASE ListImports(c)
    BY <1>1, <1>4, <1>6, Entered DEF ListImports, At, Shape
  <1> QED
    BY <1>5, <1>6 DEF Collects

\* A grant ends its own request and makes the new member one in the others.
LEMMA Granted ==
    ASSUME Shape, NEW c \in Conns, Grant(c)
    PROVE  /\ conn' \in [Conns -> Handler]
           /\ conn[c].ns \in Namespaces
           /\ \A d \in Conns :
                \/ conn'[d] = Idle
                \/ /\ conn'[d] = conn[d]
                   /\ Active(d) => Holder[conn[d].token] # conn[c].who
                \/ /\ Active(d) /\ conn'[d].pc = conn[d].pc /\ Keeps(conn'[d], conn[d])
                   /\ conn'[d].walls = conn[d].walls
                   /\ conn'[d].ever = conn[d].ever \cup {conn[c].ns}
  <1>1. PICK n \in Namespaces : n = conn[c].ns
    BY DEF Grant, At, Shape, Active
  <1>2. Idle \in Handler
    BY DEF Idle, Handler
  <1>3. conn' = [d \in Conns |->
            IF d = c THEN Idle
            ELSE IF conn[d].pc # "idle" /\ Holder[conn[d].token] = conn[c].who
                 THEN [conn[d] EXCEPT !.ever = conn[d].ever \cup {n}]
                 ELSE conn[d]]
    BY <1>1 DEF Grant
  <1>4. ASSUME NEW h \in Handler, NEW g, g = [h EXCEPT !.ever = h.ever \cup {n}]
        PROVE  /\ g \in Handler /\ g.pc = h.pc /\ Keeps(g, h)
               /\ g.walls = h.walls /\ g.ever = h.ever \cup {n}
    <2>1. /\ g \in Handler /\ g.pc = h.pc /\ g.walls = h.walls /\ g.ever = h.ever \cup {n}
          /\ g.op = h.op /\ g.token = h.token /\ g.ns = h.ns /\ g.victim = h.victim
      BY <1>4 DEF Handler
    <2> QED
      BY <2>1 DEF Keeps, Effective
  <1>5. ASSUME NEW d \in Conns
        PROVE  /\ conn'[d] \in Handler
               /\ \/ conn'[d] = Idle
                  \/ /\ conn'[d] = conn[d]
                     /\ Active(d) => Holder[conn[d].token] # conn[c].who
                  \/ /\ Active(d) /\ conn'[d].pc = conn[d].pc /\ Keeps(conn'[d], conn[d])
                     /\ conn'[d].walls = conn[d].walls
                     /\ conn'[d].ever = conn[d].ever \cup {n}
    <2>1. conn[d] \in Handler
      BY DEF Shape
    <2>2. CASE d # c /\ conn[d].pc # "idle" /\ Holder[conn[d].token] = conn[c].who
      <3>1. conn'[d] = [conn[d] EXCEPT !.ever = conn[d].ever \cup {n}]
        BY <1>3, <2>2
      <3> QED
        BY <1>4, <2>1, <2>2, <3>1 DEF Active
    <2>3. CASE d = c \/ ~(conn[d].pc # "idle" /\ Holder[conn[d].token] = conn[c].who)
      BY <1>2, <1>3, <2>1, <2>3 DEF Active
    <2> QED
      BY <2>2, <2>3
  <1>6. conn' \in [Conns -> Handler]
    BY <1>3, <1>5
  <1> QED
    BY <1>1, <1>5, <1>6

\* Only a handler resumed by its own step, a new request, a grant or a crash
\* changes what connections hold.
Moves ==
    \/ conn' = conn
    \/ conn' = [c \in Conns |-> Idle]
    \/ \E c \in Conns, step \in {"idle", "consume", "source", "walls", "member", "store", "arm"} :
        /\ Active(c)
        /\ Resume(c, step)
    \/ \E c \in Conns : Receive(c)
    \/ \E c \in Conns : Grant(c)
    \/ \E c \in Conns : Collects(c)

LEMMA StepsMove ==
    ASSUME Shape, [Next]_vars
    PROVE  Moves
  <1>1. CASE UNCHANGED vars
    BY <1>1 DEF vars, Moves
  <1>2. CASE Boot
    BY <1>2 DEF Boot, Moves
  <1>3. CASE Crash
    BY <1>3 DEF Crash, Moves
  <1>4. CASE \E p \in Principals : Refill(p)
    BY <1>4 DEF Refill, Moves
  <1>5. ASSUME NEW c \in Conns, Admit(c)
        PROVE  Moves
    <2>1. Active(c) /\ Resume(c, FirstStop(conn[c]))
      BY <1>5 DEF Admit, At, Active
    <2>2. FirstStop(conn[c]) \in {"idle", "source", "walls", "member", "store"}
      BY <2>1, Stops DEF Shape
    <2> QED
      BY <2>1, <2>2 DEF Moves
  <1>6. ASSUME NEW c \in Conns, Source(c)
        PROVE  Moves
    <2>1. Active(c)
      BY <1>6 DEF Source, At, Active
    <2>2. AfterWall(conn[c]) \in {"idle", "member", "store"}
      BY <2>1, Stops DEF Shape
    <2> QED
      BY <1>6, <2>1, <2>2 DEF Source, Moves
  <1>7. ASSUME NEW c \in Conns, Verify(c)
        PROVE  Moves
    BY <1>7 DEF Verify, At, Active, Moves
  <1>8. ASSUME NEW c \in Conns, Limit(c)
        PROVE  Moves
    BY <1>8 DEF Limit, At, Active, Moves
  <1>9. ASSUME NEW c \in Conns, CheckMember(c)
        PROVE  Moves
    BY <1>9 DEF CheckMember, At, Active, Moves
  <1>10. ASSUME NEW c \in Conns, Serve(c) \/ Revoke(c) \/ Arm(c) \/ Expel(c)
         PROVE  Moves
    BY <1>10 DEF Serve, Revoke, Arm, Expel, At, Active, Moves
  <1>11. ASSUME NEW c \in Conns, Abort(c)
         PROVE  Moves
    BY <1>11 DEF Abort, Active, Moves
  <1>12. ASSUME NEW c \in Conns, Receive(c) \/ Grant(c) \/ ListMemberships(c) \/ ListImports(c)
         PROVE  Moves
    BY <1>12 DEF Moves, Collects
  <1> QED
    BY <1>1, <1>2, <1>3, <1>4, <1>5, <1>6, <1>7, <1>8, <1>9, <1>10, <1>11, <1>12 DEF Next

LEMMA ShapeStep ==
    ASSUME Shape, [Next]_vars
    PROVE  Shape'
  <1> USE DEF Shape, Active
  <1>1. daemon' \in {"up", "down"}
    BY DEF Next, vars, Boot, Crash, Refill, Receive, Verify, Admit, Limit, Source,
           CheckMember, ListMemberships, ListImports, Serve, Revoke, Arm, Grant, Expel, Abort
  <1>2. Idle \in Handler /\ Idle.pc = "idle"
    BY DEF Idle, Handler
  <1>3. CASE conn' = conn
    BY <1>1, <1>3
  <1>4. CASE conn' = [c \in Conns |-> Idle]
    BY <1>1, <1>2, <1>4
  <1>5. ASSUME NEW c \in Conns,
               NEW step \in {"idle", "consume", "source", "walls", "member", "store", "arm"},
               Active(c), Resume(c, step)
        PROVE  Shape'
    <2>1. /\ conn' \in [Conns -> Handler]
          /\ \A d \in Conns : d # c => conn'[d] = conn[d]
          /\ step = "idle" => conn'[c] = Idle
          /\ step # "idle" => conn'[c] = [conn[c] EXCEPT !.pc = step]
      BY <1>5, Resumes
    <2>2. step # "idle" => /\ conn'[c].token = conn[c].token
                           /\ conn'[c].op = conn[c].op
                           /\ conn'[c].ns = conn[c].ns
      BY <2>1 DEF Handler
    <2> QED
      BY <1>1, <1>2, <1>5, <2>1, <2>2
  <1>6. ASSUME NEW c \in Conns, Receive(c)
        PROVE  Shape'
    <2>1. PICK r \in Inputs :
            conn' = [conn EXCEPT ![c] =
                [pc |-> "verify", op |-> r.op, token |-> r.token, ns |-> r.ns,
                 who |-> r.who, victim |-> r.victim, walls |-> {},
                 ever |-> Memberships(Holder[r.token])]]
      BY <1>6 DEF Receive
    <2>2. /\ r.op \in Ops /\ r.token \in Tokens /\ r.ns \in Namespaces \cup {None}
          /\ r.who \in Principals \cup {None} /\ r.victim \in Tokens \cup {None}
          /\ r.op \in {"promote", "grant"} => r.ns \in Namespaces
          /\ Memberships(Holder[r.token]) \subseteq Namespaces
      BY AccessAssumption DEF Request, Memberships
    <2>3. conn' \in [Conns -> Handler]
      BY <2>1, <2>2 DEF Handler
    <2> QED
      BY <1>1, <2>1, <2>2, <2>3
  <1>7. ASSUME NEW c \in Conns, Grant(c)
        PROVE  Shape'
    BY <1>1, <1>2, <1>7, Granted DEF Keeps
  <1>8. ASSUME NEW c \in Conns, Collects(c)
        PROVE  Shape'
    BY <1>1, <1>8, Collected DEF Noted, Keeps
  <1> QED
    BY <1>3, <1>4, <1>5, <1>6, <1>7, <1>8, StepsMove DEF Moves

-----------------------------------------------------------------------------

LEMMA PersistedStep ==
    ASSUME Shape, Persisted, [Next]_vars
    PROVE  Persisted'
  <1> USE DEF Persisted
  <1>0. Idle.pc = "idle"
    BY DEF Idle
  <1>1. CASE UNCHANGED vars
    BY <1>1 DEF vars
  <1>2. CASE Boot
    BY <1>2 DEF Boot, tables
  <1>3. CASE Crash
    BY <1>0, <1>3 DEF Crash, tables
  <1>4. CASE \E p \in Principals : Refill(p)
    BY <1>4 DEF Refill, tables
  <1>5. ASSUME NEW c \in Conns, Revoke(c)
        PROVE  Persisted'
    <2>1. /\ \A d \in Conns : d # c => conn'[d] = conn[d]
          /\ conn'[c] = [conn[c] EXCEPT !.pc = "arm"]
      BY <1>5, Resumes DEF Revoke, Shape
    <2>2. conn'[c].victim = conn[c].victim
      BY <2>1 DEF Shape, Handler
    <2> QED
      BY <1>5, <2>1, <2>2 DEF Revoke
  <1>6. ASSUME NEW c \in Conns, Arm(c)
        PROVE  Persisted'
    <2>1. /\ \A d \in Conns : d # c => conn'[d] = conn[d]
          /\ conn'[c].pc = "idle"
      BY <1>6, Resumes DEF Arm, Shape
    <2>2. conn[c].victim \in revoked
      BY <1>6 DEF Arm, At
    <2> QED
      BY <1>6, <2>1, <2>2 DEF Arm, tables
  <1>8. ASSUME NEW c \in Conns, NEW step \in {"idle", "consume", "source", "walls", "member", "store"},
               Resume(c, step), UNCHANGED <<daemon, revoked, armed, killed>>
        PROVE  Persisted'
    BY <1>8, Resumes DEF Shape
  <1>9. ASSUME NEW c \in Conns, Receive(c)
        PROVE  Persisted'
    BY <1>9 DEF Receive, tables, Shape
  <1>10. ASSUME NEW c \in Conns, Admit(c)
         PROVE  Persisted'
    <2>1. FirstStop(conn[c]) \in {"idle", "source", "walls", "member", "store"}
      BY <1>10, Stops DEF Shape, Active, Admit, At
    <2> QED
      BY <1>8, <1>10, <2>1 DEF Admit, tables
  <1>11. ASSUME NEW c \in Conns, Source(c)
         PROVE  Persisted'
    <2>1. AfterWall(conn[c]) \in {"idle", "member", "store"}
      BY <1>11, Stops DEF Shape, Active, Source, At
    <2> QED
      BY <1>8, <1>11, <2>1 DEF Source, tables
  <1>12. ASSUME NEW c \in Conns, Verify(c) \/ Limit(c) \/ CheckMember(c)
         PROVE  Persisted'
    BY <1>8, <1>12 DEF Verify, Limit, CheckMember, tables
  <1>13. ASSUME NEW c \in Conns, Serve(c) \/ Expel(c) \/ Abort(c)
         PROVE  Persisted'
    BY <1>8, <1>13 DEF Serve, Expel, Abort, tables
  <1>14. ASSUME NEW c \in Conns, Grant(c)
         PROVE  Persisted'
    <2>1. UNCHANGED <<daemon, revoked, armed, killed>>
      BY <1>14 DEF Grant
    <2> QED
      BY <1>0, <1>14, <2>1, Granted DEF Keeps
  <1>15. ASSUME NEW c \in Conns, ListMemberships(c) \/ ListImports(c)
         PROVE  Persisted'
    BY <1>15, Collected DEF Noted, Keeps, Collects
  <1> QED
    BY <1>1, <1>2, <1>3, <1>4, <1>5, <1>6, <1>9, <1>10, <1>11, <1>12, <1>13, <1>14, <1>15 DEF Next

LEMMA InitRevocation == Init => Shape /\ Persisted
  BY DEF Init, Shape, Persisted, Active, Idle, Handler

\* A rejection the live set makes is in the table: no restart forgets it
\* (revoke_token_route persists before it arms).
THEOREM RejectionsSurvive == Spec => []RejectionsPersist
  <1>1. Shape /\ Persisted /\ [Next]_vars => (Shape /\ Persisted)'
    BY ShapeStep, PersistedStep
  <1>2. Persisted => RejectionsPersist
    BY DEF Persisted, RejectionsPersist
  <1> QED
    BY <1>1, <1>2, InitRevocation, PTL DEF Spec

\* A handler passes from the header check to the limiter by verify_bearer alone.
LEMMA OnlyVerify ==
    ASSUME Shape, [Next]_vars, NEW c \in Conns,
           conn[c].pc = "verify", conn'[c].pc = "consume"
    PROVE  Verify(c)
  <1>0. Idle.pc = "idle"
    BY DEF Idle
  <1>1. ASSUME NEW d \in Conns,
               NEW step \in {"idle", "verify", "consume", "source", "walls", "stats", "member", "store", "arm"},
               Resume(d, step)
        PROVE  d = c
    BY <1>1, Resumes DEF Shape
  <1>2. ~ UNCHANGED conn
    OBVIOUS
  <1>3. ~ Crash
    BY <1>0 DEF Crash
  <1>4. \A d \in Conns : ~ Receive(d)
    <2> SUFFICES ASSUME NEW d \in Conns, Receive(d)
                 PROVE  FALSE
      OBVIOUS
    <2>1. conn[d].pc = "idle"
      BY DEF Receive, At
    <2> QED
      BY <2>1 DEF Receive, Shape
  <1>5. \A d \in Conns : ~ Grant(d) /\ ~ ListMemberships(d) /\ ~ ListImports(d)
    BY <1>0, Granted, Collected DEF Noted, Collects, At
  <1>6. \A d \in Conns : ~ Admit(d) /\ ~ Source(d)
    <2> SUFFICES ASSUME NEW d \in Conns, Admit(d) \/ Source(d)
                 PROVE  FALSE
      OBVIOUS
    <2>1. Active(d) /\ conn[d].pc # "verify"
      BY DEF Admit, Source, At, Active
    <2>2. /\ FirstStop(conn[d]) \in {"idle", "source", "walls", "member", "store"}
          /\ AfterWall(conn[d]) \in {"idle", "member", "store"}
      BY <2>1, Stops DEF Shape
    <2>3. d = c
      BY <1>1, <2>2 DEF Admit, Source
    <2> QED
      BY <2>1, <2>3
  <1>7. \A d \in Conns : ~ Limit(d) /\ ~ CheckMember(d) /\ ~ Serve(d) /\ ~ Expel(d)
    BY <1>1 DEF Limit, CheckMember, Serve, Expel, At
  <1>8. \A d \in Conns : ~ Revoke(d) /\ ~ Arm(d) /\ ~ Abort(d)
    BY <1>1 DEF Revoke, Arm, Abort, At
  <1>9. ASSUME NEW d \in Conns, Verify(d)
        PROVE  Verify(c)
    BY <1>1, <1>9 DEF Verify
  <1>10. ~ Boot /\ \A p \in Principals : ~ Refill(p)
    BY <1>2 DEF Boot, Refill
  <1> QED
    BY <1>2, <1>3, <1>4, <1>5, <1>6, <1>7, <1>8, <1>9, <1>10 DEF Next, vars

\* A token whose revocation was answered 204 never passes verify_bearer again,
\* across any number of crashes, restarts and concurrent requests.
THEOREM RevokedStayDead == Spec => DeadOnArrival
  <1>1. Shape /\ Persisted /\ [Next]_vars => (Shape /\ Persisted)'
    BY ShapeStep, PersistedStep
  <1>2. ASSUME Shape, Persisted, [Next]_vars
        PROVE  [\A c \in Conns :
                    conn[c].pc = "verify" /\ conn'[c].pc = "consume"
                        => conn[c].token \notin killed]_vars
    <2> SUFFICES ASSUME NEW c \in Conns, conn[c].pc = "verify", conn'[c].pc = "consume"
                 PROVE  conn[c].token \notin killed
      BY <1>2
    <2>1. Verify(c)
      BY <1>2, OnlyVerify
    <2>2. conn[c].token \notin armed /\ daemon = "up"
      BY <1>2, <2>1, Resumes DEF Verify, At, Shape
    <2> QED
      BY <1>2, <2>2 DEF Persisted
  <1> QED
    BY <1>1, <1>2, InitRevocation, PTL DEF Spec, DeadOnArrival

-----------------------------------------------------------------------------

\* A handler that moves keeps the request it answers.
LEMMA SameRequest ==
    ASSUME NEW h \in Handler, NEW step
    PROVE  LET g == [h EXCEPT !.pc = step] IN
           g.pc = step /\ g.ever = h.ever /\ g.walls = h.walls /\ Keeps(g, h)
  <1> DEFINE g == [h EXCEPT !.pc = step]
  <1>1. /\ g.pc = step /\ g.ever = h.ever /\ g.walls = h.walls
        /\ g.op = h.op /\ g.token = h.token /\ g.ns = h.ns /\ g.victim = h.victim
    BY DEF Handler
  <1>2. Effective(g) = Effective(h)
    BY <1>1 DEF Effective
  <1> QED
    BY <1>1, <1>2 DEF Keeps

LEMMA WallStep ==
    ASSUME WallInv, [Next]_vars
    PROVE  WallInv'
  <1> USE DEF WallInv
  <1>1. Shape'
    BY ShapeStep
  <1>2. \A table : WallOK(Idle, table)
    BY DEF WallOK, Idle
  <1>3. ASSUME NEW c \in Conns, NEW step \in {"idle", "consume", "source", "walls", "arm"},
               Active(c), Resume(c, step), members' \subseteq members,
               step = "source" => conn[c].op \in Walled,
               step = "walls" => conn[c].op = "search"
        PROVE  WallInv'
    <2>1. /\ \A d \in Conns : d # c => conn'[d] = conn[d]
          /\ step = "idle" => conn'[c] = Idle
          /\ step # "idle" => conn'[c] = [conn[c] EXCEPT !.pc = step]
      BY <1>3, Resumes DEF Shape
    <2>2. step # "idle" => WallOK(conn'[c], members')
      <3> SUFFICES ASSUME step # "idle"
                   PROVE  WallOK(conn'[c], members')
        OBVIOUS
      <3>0. conn[c] \in Handler /\ conn'[c] = [conn[c] EXCEPT !.pc = step]
        BY <2>1 DEF Shape
      <3>1. conn'[c].pc = step /\ conn'[c].ever = conn[c].ever /\ Keeps(conn'[c], conn[c])
        BY <3>0, SameRequest
      <3> QED
        BY <1>3, <3>1 DEF WallOK, Active, Keeps
    <2>3. \A d \in Conns : WallOK(conn[d], members')
      BY <1>3 DEF WallOK
    <2> QED
      BY <1>1, <1>2, <2>1, <2>2, <2>3
  <1>4. ASSUME NEW c \in Conns, Active(c),
               NEW step \in {"member", "store"}, Resume(c, step), members' = members,
               step = "member" => conn[c].op \in Walled /\ Wall(conn[c]) = "ask",
               step = "store" => StoreOK(conn[c])
        PROVE  WallInv'
    <2>1. /\ \A d \in Conns : d # c => conn'[d] = conn[d]
          /\ conn'[c] = [conn[c] EXCEPT !.pc = step]
      BY <1>4, Resumes DEF Shape
    <2>2. conn'[c].pc = step /\ conn'[c].ever = conn[c].ever /\ Keeps(conn'[c], conn[c])
      BY <2>1, SameRequest DEF Shape
    <2>3. /\ Wall(conn[c]) = "ask" => Effective(conn[c]).kind = "shared"
          /\ Wall(conn[c]) = "allow" /\ Effective(conn[c]).kind = "private"
                => Effective(conn[c]) = Own(conn[c].token)
          /\ Wall(conn[c]) = "allow" /\ Effective(conn[c]).kind = "shared"
                /\ conn[c].op # "ingest" => May(conn[c].token, "admin")
      BY <1>4, WallRule DEF Shape
    <2>4. WallOK(conn'[c], members')
      BY <1>4, <2>2, <2>3 DEF WallOK, Active, Keeps, StoreOK, Walled
    <2> QED
      BY <1>1, <1>4, <2>1, <2>4
  <1>5. CASE UNCHANGED <<conn, members>>
    BY <1>1, <1>5
  <1>6. CASE Crash
    BY <1>1, <1>2, <1>6 DEF Crash
  <1>7. CASE Boot \/ \E p \in Principals : Refill(p)
    BY <1>5, <1>7 DEF Boot, Refill, tables
  <1>8. ASSUME NEW c \in Conns, Receive(c)
        PROVE  WallInv'
    <2>1. PICK r \in Inputs :
            conn' = [conn EXCEPT ![c] =
                [pc |-> "verify", op |-> r.op, token |-> r.token, ns |-> r.ns,
                 who |-> r.who, victim |-> r.victim, walls |-> {},
                 ever |-> Memberships(Holder[r.token])]]
      BY <1>8 DEF Receive
    <2>2. members' = members
      BY <1>8 DEF Receive, tables
    <2>3. WallOK(conn'[c], members)
      BY <2>1 DEF WallOK, Shape, Memberships
    <2>4. \A d \in Conns : d # c => conn'[d] = conn[d]
      BY <2>1 DEF Shape
    <2> QED
      BY <1>1, <2>2, <2>3, <2>4
  <1>9. ASSUME NEW c \in Conns, Admit(c)
        PROVE  WallInv'
    <2>1. Active(c) /\ Resume(c, FirstStop(conn[c])) /\ members' = members
      BY <1>9 DEF Admit, At, Active, tables
    <2>2. /\ FirstStop(conn[c]) \in {"idle", "source", "walls", "member", "store"}
          /\ FirstStop(conn[c]) = "source" => conn[c].op \in Walled
          /\ FirstStop(conn[c]) = "walls" => conn[c].op = "search"
          /\ FirstStop(conn[c]) = "member" => conn[c].op \in Walled /\ Wall(conn[c]) = "ask"
          /\ FirstStop(conn[c]) = "store" => StoreOK(conn[c])
      BY <2>1, Stops DEF Shape, Walled
    <2> QED
      BY <1>3, <1>4, <2>1, <2>2
  <1>10. ASSUME NEW c \in Conns, Source(c)
         PROVE  WallInv'
    <2>1. Active(c) /\ members' = members /\ conn[c].op \in Walled
      BY <1>10 DEF Source, At, Active, tables, WallOK
    <2>2. /\ AfterWall(conn[c]) \in {"idle", "member", "store"}
          /\ AfterWall(conn[c]) = "member" => Wall(conn[c]) = "ask"
          /\ AfterWall(conn[c]) = "store" => StoreOK(conn[c])
      BY <2>1, Stops DEF Shape, StoreOK
    <2> QED
      BY <1>3, <1>4, <1>10, <2>1, <2>2 DEF Source
  <1>11. ASSUME NEW c \in Conns, CheckMember(c)
         PROVE  WallInv'
    <2>1. Active(c) /\ conn[c].pc = "member" /\ members' = members
      BY <1>11 DEF CheckMember, At, Active, tables
    <2>2. CASE <<conn[c].ns, Holder[conn[c].token]>> \notin members
      BY <1>3, <1>11, <2>1, <2>2 DEF CheckMember
    <2>3. CASE <<conn[c].ns, Holder[conn[c].token]>> \in members
      <3>1. /\ \A d \in Conns : d # c => conn'[d] = conn[d]
            /\ conn'[c] = [conn[c] EXCEPT !.pc = "store"]
        BY <1>11, <2>3, Resumes DEF CheckMember, Shape
      <3>2. conn'[c].pc = "store" /\ conn'[c].ever = conn[c].ever /\ Keeps(conn'[c], conn[c])
        BY <3>1, SameRequest DEF Shape
      <3>3. Effective(conn[c]).kind = "shared" /\ conn[c].op \in Walled
        BY <2>1 DEF WallOK
      <3>4. Effective(conn[c]) = conn[c].ns /\ Effective(conn[c]) \in Namespaces
        <4>1. Effective(conn[c]) \in Namespaces
          BY <2>1, WallRule DEF Shape
        <4> QED
          BY <3>3, <4>1 DEF Effective, Own, Doctrine, Namespace
      <3>5. Effective(conn[c]) \in conn[c].ever
        BY <2>1, <2>3, <3>4 DEF WallOK, Active
      <3>6. WallOK(conn'[c], members')
        BY <2>1, <3>2, <3>3, <3>5 DEF WallOK, Keeps, Walled
      <3> QED
        BY <1>1, <2>1, <3>1, <3>6
    <2> QED
      BY <2>2, <2>3
  <1>12. ASSUME NEW c \in Conns, Grant(c)
         PROVE  WallInv'
    <2>1. members' = members \cup {<<conn[c].ns, conn[c].who>>}
      BY <1>12 DEF Grant
    <2>2. ASSUME NEW d \in Conns, conn'[d] = conn[d],
                 Active(d) => Holder[conn[d].token] # conn[c].who
          PROVE  WallOK(conn'[d], members')
      BY <2>1, <2>2 DEF WallOK, Active
    <2>3. ASSUME NEW d \in Conns, conn'[d].pc = conn[d].pc, Keeps(conn'[d], conn[d]), Active(d),
                 conn'[d].walls = conn[d].walls,
                 conn'[d].ever = conn[d].ever \cup {conn[c].ns}
          PROVE  WallOK(conn'[d], members')
      BY <2>1, <2>3 DEF WallOK, Active, Keeps
    <2> QED
      BY <1>1, <1>2, <1>12, <2>2, <2>3, Granted
  <1>13. ASSUME NEW c \in Conns, Verify(c) \/ Limit(c) \/ Abort(c) \/ Arm(c)
         PROVE  WallInv'
    BY <1>3, <1>13 DEF Verify, Limit, Abort, Arm, At, Active, tables
  <1>14. ASSUME NEW c \in Conns, Serve(c) \/ Revoke(c) \/ Expel(c)
         PROVE  WallInv'
    BY <1>3, <1>14 DEF Serve, Revoke, Expel, At, Active
  <1>15. CASE UNCHANGED vars
    BY <1>5, <1>15 DEF vars
  <1>16. ASSUME NEW c \in Conns, ListMemberships(c) \/ ListImports(c)
         PROVE  WallInv'
    <2>1. conn[c].op = "search" /\ conn[c].token \in Tokens
      BY <1>16 DEF ListMemberships, ListImports, At, WallOK, Shape, Active
    <2>2. ASSUME NEW n \in Memberships(Holder[conn[c].token])
          PROVE  n \in conn[c].ever
      BY <1>16 DEF WallOK, Memberships, ListMemberships, ListImports, At
    <2>3. PICK step \in {"stats", "store"} : \E W : Noted(c, step, W)
            /\ \A n \in W : n.kind \in {"global", "import"} \/ n = Own(conn[c].token)
                           \/ n \in conn[c].ever
      <3>1. Global.kind = "global"
        BY DEF Global, Namespace
      <3>2. conn[c].pc = "stats" =>
                \A n \in conn[c].walls : n.kind \in {"global", "import"}
                    \/ n = Own(conn[c].token) \/ n \in conn[c].ever
        BY <2>1 DEF WallOK
      <3> QED
        BY <1>16, <2>2, <3>1, <3>2, Collected DEF Collects
    <2>4. PICK W : Noted(c, step, W)
            /\ \A n \in W : n.kind \in {"global", "import"} \/ n = Own(conn[c].token)
                           \/ n \in conn[c].ever
      BY <2>3
    <2>5. members' = members
      BY <1>16 DEF ListMemberships, ListImports, tables
    <2>6. WallOK(conn'[c], members)
      BY <1>16, <2>1, <2>4 DEF WallOK, Noted, Keeps, ListMemberships, ListImports, At, Walled
    <2> QED
      BY <1>1, <2>4, <2>5, <2>6 DEF Noted
  <1> QED
    BY <1>6, <1>7, <1>8, <1>9, <1>10, <1>11, <1>12, <1>13, <1>14, <1>15, <1>16 DEF Next

LEMMA WallInvariant == Spec => []WallInv
  <1>1. Init => WallInv
    BY DEF Init, WallInv, WallOK, Shape, Active, Idle, Handler
  <1> QED
    BY <1>1, WallStep, PTL DEF Spec

\* Whatever memberships are granted and whatever interleaves, another principal's
\* private namespace is reached by an operator's export or kg_delete and by a
\* visible search of a caller that was a member of it, and by no other handler
\* (resolve_ns, promote_memory, ingest_doctrine, search_memories).
THEOREM PrivacyHolds == Spec => []PrivateStaysPrivate
  <1>1. WallInv => PrivateStaysPrivate
    <2> SUFFICES ASSUME WallInv, NEW c \in Conns, conn[c].pc = "store",
                        conn[c].op \in Walled \cup Unwalled, NEW n \in Reaches(conn[c]),
                        n.kind = "private", n # Own(conn[c].token)
                 PROVE  \/ conn[c].op \in {"export", "kg_delete"} /\ May(conn[c].token, "admin")
                        \/ conn[c].op = "search" /\ n \in conn[c].ever
      BY DEF PrivateStaysPrivate
    <2>1. WallOK(conn[c], members)
      BY DEF WallInv
    <2>2. CASE conn[c].op = "search"
      BY <2>1, <2>2 DEF WallOK, Reaches
    <2>3. CASE conn[c].op \in {"export", "kg_delete"}
      BY <2>1, <2>3 DEF WallOK
    <2>4. CASE conn[c].op \in Walled
      BY <2>1, <2>4 DEF WallOK, Reaches, Walled
    <2> QED
      BY <2>2, <2>3, <2>4 DEF Unwalled
  <1> QED
    BY <1>1, WallInvariant, PTL

\* No handler gets behind a shared wall that its caller was outside of since the
\* request arrived, unless its grant is an operator's (resolve_ns, promote_memory
\* and search_memories, against concurrent grants and revocations of membership).
THEOREM WallsHold == Spec => []ExpelledStaysOut
  <1>1. WallInv => ExpelledStaysOut
    <2> SUFFICES ASSUME WallInv, NEW c \in Conns, conn[c].pc = "store",
                        conn[c].op \in (Walled \cup Unwalled) \ {"ingest"},
                        NEW n \in Reaches(conn[c]),
                        n.kind = "shared", n \notin conn[c].ever
                 PROVE  May(conn[c].token, "admin")
      BY DEF ExpelledStaysOut
    <2>1. WallOK(conn[c], members)
      BY DEF WallInv
    <2>2. CASE conn[c].op = "search"
      <3>1. Own(conn[c].token).kind = "private"
        BY DEF Own, Namespace
      <3> QED
        BY <2>1, <2>2, <3>1 DEF WallOK, Reaches
    <2>3. CASE conn[c].op \in {"export", "kg_delete"}
      BY <2>1, <2>3 DEF WallOK
    <2>4. CASE conn[c].op \in Walled
      BY <2>1, <2>4 DEF WallOK, Reaches, Walled
    <2> QED
      BY <2>2, <2>3, <2>4 DEF Unwalled
  <1> QED
    BY <1>1, WallInvariant, PTL

-----------------------------------------------------------------------------
(* Capabilities *)

\* Past its first check a handler runs for a grant that the gate let through.
GateInv ==
    /\ Shape
    /\ \A c \in Conns :
        conn[c].pc \in {"source", "walls", "stats", "member", "store"} => Gate(conn[c].token, conn[c].op)

LEMMA GateStep ==
    ASSUME GateInv, [Next]_vars
    PROVE  GateInv'
  <1> USE DEF GateInv
  <1>1. Shape'
    BY ShapeStep
  <1>2. Idle.pc = "idle"
    BY DEF Idle
  <1>3. ASSUME NEW c \in Conns, Active(c),
               NEW step \in {"idle", "consume", "source", "walls", "member", "store", "arm"},
               Resume(c, step),
               step \in {"source", "walls", "stats", "member", "store"} => Gate(conn[c].token, conn[c].op)
        PROVE  GateInv'
    <2>1. /\ \A d \in Conns : d # c => conn'[d] = conn[d]
          /\ step = "idle" => conn'[c] = Idle
          /\ step # "idle" => conn'[c] = [conn[c] EXCEPT !.pc = step]
      BY <1>3, Resumes DEF Shape
    <2>2. step # "idle" => /\ conn'[c].pc = step /\ conn'[c].op = conn[c].op
                           /\ conn'[c].token = conn[c].token
      BY <2>1 DEF Shape, Handler
    <2>3. conn'[c].pc \in {"source", "walls", "stats", "member", "store"} => Gate(conn'[c].token, conn'[c].op)
      BY <1>2, <1>3, <2>1, <2>2
    <2>4. \A d \in Conns : d # c =>
            (conn'[d].pc \in {"source", "walls", "stats", "member", "store"} => Gate(conn'[d].token, conn'[d].op))
      BY <2>1
    <2> QED
      BY <1>1, <2>3, <2>4
  <1>4. CASE conn' = conn
    BY <1>1, <1>4
  <1>5. CASE conn' = [c \in Conns |-> Idle]
    BY <1>1, <1>2, <1>5
  <1>6. ASSUME NEW c \in Conns, Receive(c)
        PROVE  GateInv'
    <2>1. conn'[c].pc = "verify" /\ \A d \in Conns : d # c => conn'[d] = conn[d]
      BY <1>6 DEF Receive, Shape
    <2> QED
      BY <1>1, <2>1
  <1>7. ASSUME NEW c \in Conns, Grant(c) \/ ListMemberships(c) \/ ListImports(c)
        PROVE  GateInv'
    <2>1. CASE Grant(c)
      BY <1>1, <1>2, <2>1, Granted DEF Keeps
    <2>2. CASE Collects(c)
      BY <1>1, <2>2, Collected DEF Noted, Keeps
    <2> QED
      BY <1>7, <2>1, <2>2 DEF Collects
  <1>8. ASSUME NEW c \in Conns, Admit(c)
        PROVE  GateInv'
    <2>1. Active(c) /\ Resume(c, FirstStop(conn[c]))
      BY <1>8 DEF Admit, At, Active
    <2>2. FirstStop(conn[c]) \in {"idle", "source", "walls", "member", "store"}
      BY <2>1, Stops DEF Shape
    <2>3. FirstStop(conn[c]) # "idle" => Gate(conn[c].token, conn[c].op)
      BY DEF FirstStop
    <2> QED
      BY <1>3, <2>1, <2>2, <2>3
  <1>9. ASSUME NEW c \in Conns, Source(c)
        PROVE  GateInv'
    <2>1. Active(c) /\ conn[c].pc = "source"
      BY <1>9 DEF Source, At, Active
    <2>2. AfterWall(conn[c]) \in {"idle", "member", "store"}
      BY <2>1, Stops DEF Shape
    <2> QED
      BY <1>3, <1>9, <2>1, <2>2 DEF Source
  <1>10. ASSUME NEW c \in Conns, CheckMember(c)
         PROVE  GateInv'
    BY <1>3, <1>10 DEF CheckMember, At, Active
  <1>11. ASSUME NEW c \in Conns, Verify(c) \/ Limit(c) \/ Abort(c) \/ Arm(c)
         PROVE  GateInv'
    BY <1>3, <1>11 DEF Verify, Limit, Abort, Arm, At, Active
  <1>12. ASSUME NEW c \in Conns, Serve(c) \/ Revoke(c) \/ Expel(c)
         PROVE  GateInv'
    BY <1>3, <1>12 DEF Serve, Revoke, Expel, At, Active
  <1>13. CASE Boot \/ Crash \/ (\E p \in Principals : Refill(p)) \/ UNCHANGED vars
    BY <1>4, <1>5, <1>13 DEF Boot, Crash, Refill, vars
  <1> QED
    BY <1>6, <1>7, <1>8, <1>9, <1>10, <1>11, <1>12, <1>13 DEF Next

\* The read capabilities contain no other partition of the policy.
LEMMA ReadersAreRefused ==
    ASSUME NEW t, Caps[t] \subseteq {"memory:read", "knowledge:read"},
           NEW op \in Ops, op \notin {"recall", "search", "versions"}
    PROVE  ~Gate(t, op)
  <1>1. \A cap \in Caps[t] : Partition(cap)[1] = 1
    BY DEF Partition
  <1>2. /\ Partition("memory:write")[1] = 2 /\ Partition("trust:promote")[1] = 3
        /\ Partition("doctrine:write")[1] = 3 /\ Partition("admin")[1] = 4
    BY DEF Partition
  <1>3. /\ ~May(t, "memory:write") /\ ~May(t, "trust:promote")
        /\ ~May(t, "doctrine:write") /\ ~May(t, "admin")
    <2>1. \A req : May(t, req) => \E cap \in Caps[t] : Partition(req)[1] <= Partition(cap)[1]
      BY DEF May
    <2> QED
      BY <1>1, <1>2, <2>1
  <1> QED
    BY <1>3 DEF Gate, Ops, Walled, Unwalled

\* A token that only reads changes no table, through any route and interleaving
\* (require_capability in front of every handler): a table changes only in a step
\* of a request whose grant holds more than the read capabilities.
THEOREM ReadersAreHarmless == Spec => ReadersChangeNothing
  <1>1. Init => GateInv
    BY DEF Init, GateInv, Shape, Active, Idle, Handler
  <1>2. GateInv /\ [Next]_vars =>
          [tables' # tables =>
            \E c \in Conns :
              /\ conn[c].pc = "store" /\ conn'[c] # conn[c]
              /\ ~(Caps[conn[c].token] \subseteq {"memory:read", "knowledge:read"})]_vars
    <2> SUFFICES ASSUME GateInv, [Next]_vars, tables' # tables
                 PROVE  \E c \in Conns :
                          /\ conn[c].pc = "store" /\ conn'[c] # conn[c]
                          /\ ~(Caps[conn[c].token] \subseteq {"memory:read", "knowledge:read"})
      OBVIOUS
    <2>1. ~UNCHANGED vars
      BY DEF vars, tables
    <2>2. PICK c \in Conns : \/ Serve(c) /\ conn[c].op \notin {"recall", "search", "versions"}
                             \/ Revoke(c) \/ Grant(c) \/ Expel(c)
      <3>1. ASSUME NEW c \in Conns, Serve(c), conn[c].op \in {"recall", "search", "versions"}
            PROVE  FALSE
        BY <3>1 DEF Serve, tables
      <3> QED
        BY <2>1, <3>1 DEF Next, Boot, Crash, Refill, Receive, Verify, Admit, Limit, Source,
             CheckMember, ListMemberships, ListImports, Arm, Abort, tables
    <2>3. conn[c].pc = "store" /\ conn[c].op \in Ops /\ conn[c].op \notin {"recall", "search", "versions"}
      BY <2>2 DEF Serve, Revoke, Grant, Expel, At, GateInv, Shape, Active
    <2>4. conn'[c].pc \in {"idle", "arm"}
      <3>1. CASE Grant(c)
        BY <3>1 DEF Grant, Idle
      <3>2. CASE Serve(c) \/ Revoke(c) \/ Expel(c)
        BY <3>2, Resumes DEF Serve, Revoke, Expel, GateInv, Shape
      <3> QED
        BY <2>2, <3>1, <3>2
    <2>5. Gate(conn[c].token, conn[c].op)
      BY <2>3 DEF GateInv
    <2>6. ~(Caps[conn[c].token] \subseteq {"memory:read", "knowledge:read"})
      BY <2>3, <2>5, ReadersAreRefused
    <2> QED
      BY <2>3, <2>4, <2>6
  <1>3. GateInv /\ [Next]_vars => GateInv'
    BY GateStep
  <1> QED
    BY <1>1, <1>2, <1>3, PTL DEF Spec, ReadersChangeNothing

-----------------------------------------------------------------------------
(* The rate limiter *)

\* A bounded set of numbers has a greatest one.
LEMMA MaxExists ==
    ASSUME NEW n \in Nat, NEW S, \A x \in S : x \in Nat /\ x <= n, S # {}
    PROVE  Max(S) \in S
  <1> DEFINE R == {ss \in Nat \X Nat : ss[1] < ss[2]}
             T == {m \in Nat : n - m \in S}
  <1>1. IsWellFoundedOn(R, Nat)
    BY NatLessThanWellFounded, Zenon DEF OpToRel
  <1>2. T \subseteq Nat /\ T # {}
    <2>1. PICK x \in S : TRUE
      OBVIOUS
    <2>2. n - x \in Nat /\ n - (n - x) = x
      OBVIOUS
    <2> QED
      BY <2>2
  <1>3. PICK m \in T : \A y \in T : ~(<<y, m>> \in R)
    <2> HIDE DEF R, T
    <2> QED
      BY <1>1, <1>2, WFMin
  <1>4. m \in Nat /\ n - m \in S
    BY <1>3
  <1>5. ASSUME NEW y \in S PROVE n - m >= y
    <2>1. n - y \in T
      <3>1. n - y \in Nat /\ n - (n - y) = y
        OBVIOUS
      <3> QED
        BY <3>1
    <2>2. ~(n - y < m)
      BY <1>3, <1>4, <2>1
    <2> QED
      BY <1>4, <2>2
  <1>6. \E x \in S : \A y \in S : x >= y
    BY <1>4, <1>5
  <1> QED
    BY <1>6 DEF Max

\* The codimension of a grant is a number: a grant is never empty.
LEMMA WeightIsNumber ==
    ASSUME NEW t \in Tokens
    PROVE  Weight(t) \in Nat
  <1> DEFINE sum(cap) == Partition(cap)[1] + Partition(cap)[2] + Partition(cap)[3] + Partition(cap)[4]
  <1>1. Caps[t] \subseteq Capabilities /\ Caps[t] # {}
    BY AccessAssumption
  <1>2. \A cap \in Capabilities : sum(cap) \in Nat /\ sum(cap) <= 16
    BY DEF Capabilities, Partition
  <1>3. Weight(t) = Max({sum(cap) : cap \in Caps[t]})
    BY DEF Weight
  <1> HIDE DEF sum
  <1>4. PICK S : S = {sum(cap) : cap \in Caps[t]}
    OBVIOUS
  <1>5. (\A x \in S : x \in Nat /\ x <= 16) /\ S # {}
    BY <1>1, <1>2, <1>4
  <1>6. Max(S) \in S
    BY <1>5, MaxExists
  <1> QED
    BY <1>3, <1>4, <1>5, <1>6

\* What was admitted and not given back is what the bucket lacks.
Bucket == [cap : Nat, left : Nat]
Metered ==
    /\ bucket \in [Principals -> Bucket \cup {None}]
    /\ spent \in [Principals -> Int]
    /\ \A p \in Principals :
        /\ bucket[p] = None => spent[p] = 0
        /\ bucket[p] # None => spent[p] = bucket[p].cap - bucket[p].left

LEMMA MeteredStep ==
    ASSUME Shape, Metered, [Next]_vars
    PROVE  Metered'
  <1> USE DEF Metered
  <1>1. None \notin Bucket
    BY AccessAssumption DEF Bucket
  <1>2. CASE UNCHANGED <<bucket, spent>>
    BY <1>2
  <1>3. CASE Crash
    BY <1>3 DEF Crash
  <1>4. ASSUME NEW p \in Principals, Refill(p)
        PROVE  Metered'
    <2>1. bucket[p] \in Bucket /\ bucket[p].left < bucket[p].cap
      BY <1>4 DEF Refill
    <2>2. PICK b : b = [bucket[p] EXCEPT !.left = @ + 1]
      OBVIOUS
    <2>3. b \in Bucket /\ b.cap = bucket[p].cap /\ b.left = bucket[p].left + 1
      BY <2>1, <2>2 DEF Bucket
    <2>4. bucket' = [bucket EXCEPT ![p] = b] /\ spent' = [spent EXCEPT ![p] = spent[p] - 1]
      BY <1>4, <2>2 DEF Refill
    <2>5. spent[p] = bucket[p].cap - bucket[p].left
      BY <1>1, <2>1
    <2>6. bucket[p].cap \in Nat /\ bucket[p].left \in Nat
      BY <2>1 DEF Bucket
    <2>7. spent[p] - 1 = b.cap - b.left /\ spent[p] - 1 \in Int
      BY <2>3, <2>5, <2>6
    <2> QED
      BY <1>1, <2>3, <2>4, <2>7
  <1>5. ASSUME NEW c \in Conns, Admit(c)
        PROVE  Metered'
    <2>1. PICK t \in Tokens : t = conn[c].token
      BY <1>5 DEF Admit, At, Shape, Active
    <2>2. PICK p \in Principals : p = Holder[t]
      BY AccessAssumption
    <2>3. PICK s : s = Seen(t)
      OBVIOUS
    <2>4. s.left > 0 /\ bucket' = [bucket EXCEPT ![p] = [s EXCEPT !.left = @ - 1]]
            /\ spent' = [spent EXCEPT ![p] = spent[p] + 1]
      BY <1>5, <2>1, <2>2, <2>3 DEF Admit
    <2>5. s \in Bucket /\ spent[p] = s.cap - s.left /\ s.cap \in Nat /\ s.left \in Nat
      <3>1. CASE bucket[p] = None
        <4>1. PICK w \in Nat : w = Weight(t)
          BY WeightIsNumber
        <4>2. PICK n \in Nat : n = Base * w
          BY AccessAssumption
        <4>3. s = [cap |-> n, left |-> n]
          BY <2>2, <2>3, <3>1, <4>1, <4>2 DEF Seen, Full
        <4> QED
          BY <3>1, <4>3 DEF Bucket
      <3>2. CASE bucket[p] # None
        <4>1. s = bucket[p]
          BY <2>2, <2>3, <3>2 DEF Seen
        <4> QED
          BY <3>2, <4>1 DEF Bucket
      <3> QED
        BY <3>1, <3>2
    <2>6. PICK b : b = [s EXCEPT !.left = @ - 1]
      OBVIOUS
    <2>7. b \in Bucket /\ b.cap = s.cap /\ b.left = s.left - 1
      <3>1. s.left - 1 \in Nat
        BY <2>4, <2>5
      <3> QED
        BY <2>5, <2>6, <3>1 DEF Bucket
    <2>8. spent[p] + 1 = b.cap - b.left /\ spent[p] + 1 \in Int
      BY <2>5, <2>7
    <2>9. bucket' = [bucket EXCEPT ![p] = b]
      BY <2>4, <2>6
    <2> QED
      BY <1>1, <2>4, <2>7, <2>8, <2>9
  <1>6. CASE Boot \/ UNCHANGED vars
    BY <1>2, <1>6 DEF Boot, vars
  <1>7. ASSUME NEW c \in Conns,
               \/ Receive(c) \/ Verify(c) \/ Limit(c) \/ Source(c) \/ CheckMember(c) \/ Serve(c)
               \/ ListMemberships(c) \/ ListImports(c) \/ Revoke(c) \/ Arm(c) \/ Grant(c) \/ Expel(c) \/ Abort(c)
        PROVE  Metered'
    BY <1>2, <1>7 DEF Receive, Verify, Limit, Source, CheckMember, Serve, ListMemberships,
                      ListImports, Revoke, Arm, Grant, Expel, Abort
  <1> QED
    BY <1>3, <1>4, <1>5, <1>6, <1>7 DEF Next

\* The limiter is exact: consume fills a bucket on first sight only, so that a
\* principal is never admitted more often than its capacity and what time gave
\* back, with however many tokens and connections it comes.
THEOREM BucketsNeverRefillFree == Spec => []NoFreeRefill
  <1>1. Init => Shape /\ Metered
    BY DEF Init, Metered, Shape, Active, Idle, Handler
  <1>2. Shape /\ Metered /\ [Next]_vars => (Shape /\ Metered)'
    BY ShapeStep, MeteredStep
  <1>3. Metered => NoFreeRefill
    <2> SUFFICES ASSUME Metered, NEW p \in Principals, bucket[p] # None
                 PROVE  spent[p] <= bucket[p].cap
      BY DEF NoFreeRefill
    <2>1. bucket[p].cap \in Nat /\ bucket[p].left \in Nat
      BY DEF Metered, Bucket
    <2> QED
      BY <2>1 DEF Metered
  <1> QED
    BY <1>1, <1>2, <1>3, PTL DEF Spec

=============================================================================
