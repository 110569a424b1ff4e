------------------------------ MODULE MCSetup -------------------------------
(* Instances of Setup for TLC. *)
EXTENDS Setup

\* A bare shell, one that points at a config, one at a data directory, and a
\* service unit that names a directory, a key and a policy.
MCEnvs ==
    LET bare == [config |-> FALSE, dir |-> None, key |-> None, policy |-> FALSE] IN
    {bare, [bare EXCEPT !.config = TRUE], [bare EXCEPT !.dir = "srv"],
     [config |-> FALSE, dir |-> "srv", key |-> "vault", policy |-> TRUE]}

\* Nothing, an unknown name, more than the overlay lists, what it lists; and
\* that with a key file and with a policy of its own.
MCCommands ==
    LET plain == [principal |-> "ann", caps |-> {"admin"}, key_file |-> None, policy |-> FALSE] IN
    {plain, [plain EXCEPT !.caps = {}], [plain EXCEPT !.caps = {"bogus"}],
     [plain EXCEPT !.caps = {"admin", "memory:read"}],
     [plain EXCEPT !.key_file = "vault"], [plain EXCEPT !.policy = TRUE]}

MCConfigTexts ==
    {[ok |-> FALSE, data_dir |-> None, issuer_key |-> None],
     [ok |-> TRUE, data_dir |-> "srv", issuer_key |-> "vault"]}

\* An overlay that lists the operator, and a broken file.
MCPolicyTexts ==
    {[form |-> "overlay", grants |-> [p \in Principals |-> {"admin"}]],
     [form |-> "bad", grants |-> [p \in Principals |-> {}]]}

=============================================================================
