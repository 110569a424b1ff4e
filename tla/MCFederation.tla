---------------------------- MODULE MCFederation ----------------------------
(* Instances of Federation, and of the mining it extends, for TLC. *)
EXTENDS Federation, TLC

\* "Url" and "url" are one text up to case; "url" is what the rules find.
MCFold(f) == IF f = "Url" THEN "url" ELSE f

Line(f, sure) == [fact |-> f, confident |-> sure]

\* A session that names a decision, and a link twice.
MCSessions == {<<"decision", "url", "url">>}

\* The two roles echo the link and repeat each other; or are sure of a pattern.
MCReplies ==
    {<<Line("Url", FALSE), Line("hunch", FALSE), Line("hunch", FALSE)>>,
     <<Line("hunch", FALSE), Line("pattern", TRUE)>>}

\* The model is set up, half set up, or not at all.
MCLlmEnvs == {{"model", "key"}, {"model"}, {}}

Scope(ns, p) == [namespace |-> ns, project |-> p]

MCLower(text) ==
    CASE text = "Edge" -> "edge" [] text \in {"Airgapped", "AIRGAPPED"} -> "airgapped" [] OTHER -> text

\* An edge instance, two airgapped ones, and one of an unknown role, and so
\* Unifying, whose only scope is shared:P.
MCEnvironments ==
    {[role |-> "Edge", scopes |-> None], [role |-> "Airgapped", scopes |-> None],
     [role |-> "AIRGAPPED", scopes |-> None],
     [role |-> "airgap", scopes |-> {Scope("shared", "P"), Unparsable}]}

\* A text the model only guesses, sent as doctrine; the link, sent to two scopes.
MCWrites ==
    {[scope |-> Scope("local", "Q"), doctrine |-> TRUE, fact |-> "hunch"],
     [scope |-> Scope("local", "P"), doctrine |-> FALSE, fact |-> "url"],
     [scope |-> Scope("shared", "P"), doctrine |-> FALSE, fact |-> "url"]}

Symmetry == Permutations(Clients)

=============================================================================
