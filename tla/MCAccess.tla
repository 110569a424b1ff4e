------------------------------ MODULE MCAccess ------------------------------
(* Instances of Access for TLC. *)
EXTENDS Access, TLC

\* One operator, and a principal with a strong and a weak token.
MCTokens == {"admin", "strong", "weak"}
MCHolder == [t \in MCTokens |-> IF t = "admin" THEN "root" ELSE "ann"]
MCCaps == [t \in MCTokens |->
    CASE t = "admin" -> {"admin"}
      [] t = "strong" -> {"trust:promote"}
      [] t = "weak" -> {"memory:read"}]

Ask(op, t, ns) == [op |-> op, token |-> t, ns |-> ns, who |-> None, victim |-> None]
Wing == Namespace("shared", "wing")
Import == Namespace("import", None)
Roots == Namespace("private", "root")

\* Every route once in an allowed and a refused form, and the pairs whose order
\* matters: revoke against use, grant and expel against use.
MCInputs ==
    {Ask("recall", "weak", Wing), Ask("recall", "weak", Roots),
     Ask("store", "strong", None), Ask("store", "weak", None),
     Ask("delete", "strong", Wing),
     Ask("promote", "strong", Wing), Ask("promote", "strong", Import),
     Ask("promote", "strong", Global), Ask("ingest", "strong", Wing),
     Ask("ingest", "admin", None), Ask("delete", "admin", Wing),
     Ask("versions", "weak", None), Ask("versions", "strong", Roots),
     Ask("versions", "strong", None), Ask("search", "weak", None), Ask("store", "strong", Import),
     Ask("export", "admin", Roots), Ask("export", "weak", None),
     Ask("kg_delete", "admin", Namespace("private", "ann")),
     Ask("kg_delete", "admin", None),
     [Ask("revoke", "admin", None) EXCEPT !.victim = "strong"],
     [Ask("revoke", "weak", None) EXCEPT !.victim = "admin"],
     [Ask("grant", "admin", Wing) EXCEPT !.who = "ann"],
     [Ask("grant", "admin", Roots) EXCEPT !.who = "ann"],
     [Ask("expel", "admin", Wing) EXCEPT !.who = "ann"]}

Symmetry == Permutations(Conns)

=============================================================================
