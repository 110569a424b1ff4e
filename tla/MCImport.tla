------------------------------ MODULE MCImport ------------------------------
(* Instances of Import, and so of Knowledge, for TLC. *)
EXTENDS Import, TLC

\* Two facts whose joined keys are one string: a -> b, and x -> x, where the
\* name x and the first fact's predicate hold the separator.
MCFacts == {"a-b", "x-x"}
MCSubject(f) == IF f = "a-b" THEN "a" ELSE "x"
MCObject(f) == IF f = "a-b" THEN "b" ELSE "x"
MCKey(f) == "a:p:b:p:a:p:b"

\* Two entities of one name, one without.
MCNames == [e1 |-> "a", e2 |-> "b", e3 |-> "b", e4 |-> ""]
MCFactOf(s, o) == "a-b"

Row(s, o, ended) == [subject |-> s, object |-> o, ended |-> ended]

\* A memory; a fact that has ended, a nameless end, an orphan.
MCSource ==
    [kind |-> "mempalace",
     memories |-> <<[id |-> "m1", label |-> "diary"]>>,
     triples |-> <<Row("e1", "e2", TRUE), Row("e1", "e4", FALSE), Row("e3", "e9", FALSE)>>]
MCText(id) == "text"

\* One fact, which still stands.
OneFact == {"a-b"}
OneSource ==
    [kind |-> "mempalace", memories |-> <<>>, triples |-> <<Row("e1", "e2", FALSE)>>]

=============================================================================
