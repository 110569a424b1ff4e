------------------------------- MODULE Setup --------------------------------
(***************************************************************************)
(* Configuration, the issuer key and token issuance, as an operator meets    *)
(* them: `ijima serve` and `ijima token issue` are two processes, each with  *)
(* its own environment, that resolve the same config file, key file and      *)
(* policy files on their own, several times each, while the operator edits   *)
(* them.  A token is worth something only if both ended at the same key, and *)
(* it must never say more than a policy that the operator wrote.             *)
(*                                                                         *)
(* Each read of the disk is one action.  The key file's own protocol is that *)
(* of schubert's KeyStore: load, or create once.  HOME is set.               *)
(***************************************************************************)
EXTENDS Naturals, FiniteSets

CONSTANTS
    Dirs,           \* directories that may be the data directory
    Home,           \* ~/.ijima, one of them
    Vault,          \* a key path outside them, as named by a setting
    Envs,           \* the environments a process may start in
    ConfigTexts,    \* contents of an ijima.toml
    PolicyTexts,    \* contents of a policy file
    Principals,
    Caps,           \* the policy's vocabulary
    Commands,       \* the `token issue` commands that are run
    None,
    MaxFiles,       \* bound: config files there are at first
    MaxEdits,       \* bound: edits of a file and changes of an environment
    MaxIssues,      \* bound: runs of `token issue`
    MaxBoots        \* bound: runs of `serve`

Processes == {"cli", "daemon"}
Sites == Dirs \cup {"etc", "IJIMA_CONFIG"}      \* where an ijima.toml may be
PolicySites == Dirs \cup {"--policy", "IJIMA_POLICY"}
KeyPaths == Dirs \cup {Vault}                   \* <dir>/issuer.key, or elsewhere

\* The settings that the properties tell apart; an unparsable file has ok = FALSE.
IjimaToml == [ok : BOOLEAN, data_dir : Dirs \cup {None}, issuer_key : {None, Vault}]

\* Which of IJIMA_CONFIG, IJIMA_DIR, IJIMA_KEY and IJIMA_POLICY are set.
Env == [config : BOOLEAN, dir : Dirs \cup {None}, key : {None, Vault}, policy : BOOLEAN]

\* A policy with [capabilities], an overlay of principals, or neither.
Policy == [form : {"full", "overlay", "bad"}, grants : [Principals -> SUBSET Caps]]

\* What a process can see of the settings.
Settings == [env : Envs, configs : [Sites -> ConfigTexts \cup {None}]]

\* ijima token issue: --principal, --capability(ies), --key-file, --policy.
IssueArgs == [principal : Principals, caps : SUBSET (Caps \cup {"bogus"}),
              key_file : {None, Vault}, policy : BOOLEAN]

ASSUME SetupAssumption ==
    /\ Home \in Dirs /\ Vault \notin Dirs
    /\ None \notin Sites /\ None \notin Settings
    /\ Envs \subseteq Env /\ ConfigTexts \subseteq IjimaToml /\ PolicyTexts \subseteq Policy
    /\ Commands \subseteq IssueArgs

VARIABLES
    env,        \* the environment each process runs in
    configs,    \* the ijima.toml at each site, or None
    policies,   \* the policy file at each site, or None
    keys,       \* the seed in each key file, 0 when there is none
    daemon,     \* the daemon: [at, seed, dir, setup]
    cli,        \* the issuing command: [at, args, seed, setup]
    tokens,     \* observation: the tokens issued
    boots,      \* observation: what each boot that came to serve had resolved
    written,    \* observation: the policy texts the operator ever wrote, and where
    orders,     \* observation: tokens that had an admin command carried out
    used        \* how much of each bound is spent

disk == <<env, configs, policies>>
history == <<tokens, boots, written, orders>>
vars == <<disk, keys, daemon, cli, history, used>>

Off == [at |-> "off", seed |-> 0, dir |-> None, setup |-> None]
Idle == [at |-> "idle", args |-> None, seed |-> 0, setup |-> None]

Init ==
    /\ \E e \in Envs : env = [p \in Processes |-> e]
    /\ configs \in [Sites -> ConfigTexts \cup {None}]
    /\ Cardinality({s \in Sites : configs[s] # None}) <= MaxFiles
    /\ policies = [s \in PolicySites |-> None]
    /\ keys = [p \in KeyPaths |-> 0]
    /\ daemon = Off /\ cli = Idle
    /\ tokens = {} /\ boots = {} /\ written = {} /\ orders = {}
    /\ used = [edits |-> 0, issues |-> 0, boots |-> 0]

Spend(what) == used' = [used EXCEPT ![what] = @ + 1]

-----------------------------------------------------------------------------
(* Resolution *)

\* What a process sees of the settings when it reads them; kept by a process that
\* is under way to tell when they changed under it.
SetupOf(p) == [env |-> env[p], configs |-> configs]

Default == [ok |-> TRUE, data_dir |-> None, issuer_key |-> None]
Unreadable == [ok |-> FALSE, data_dir |-> None, issuer_key |-> None]

\* $IJIMA_DIR, or ~/.ijima.
DataDirImplicit(e) == IF e.dir # None THEN e.dir ELSE Home

\* The sites in order: a named file is not skipped when it is missing.
DiscoverPath(seen) ==
    LET dir == DataDirImplicit(seen.env) IN
    IF seen.env.config THEN "IJIMA_CONFIG"
    ELSE IF seen.configs[dir] # None THEN dir
    ELSE IF seen.configs["etc"] # None THEN "etc" ELSE None

Load(seen) ==
    LET site == DiscoverPath(seen) IN
    IF site = None THEN Default
    ELSE IF seen.configs[site] = None THEN Unreadable ELSE seen.configs[site]

\* load().ok(): a file that does not parse sets nothing here.
Lenient(seen) == IF Load(seen).ok THEN Load(seen) ELSE Default

\* Environment over file over default.
ResolveDataDir(seen) ==
    IF seen.env.dir # None THEN seen.env.dir
    ELSE IF Lenient(seen).data_dir # None THEN Lenient(seen).data_dir ELSE Home

\* resolve_path: IJIMA_KEY over the file's issuer_key, or neither.
ResolvePath(seen) == IF seen.env.key # None THEN seen.env.key ELSE Lenient(seen).issuer_key

DefaultKeyPath(seen) ==
    IF ResolvePath(seen) # None THEN ResolvePath(seen) ELSE ResolveDataDir(seen)

Fresh == 1 + Cardinality({p \in KeyPaths : keys[p] # 0}) + used.boots + used.issues

LoadOrRenew(path, seed) ==
    /\ seed = Fresh
    /\ keys' = [keys EXCEPT ![path] = seed]

\* The seed at the path, made up and written there if there is none.
LoadOrCreate(path, seed) ==
    /\ seed = IF keys[path] # 0 THEN keys[path] ELSE Fresh
    /\ keys' = [keys EXCEPT ![path] = seed]

Seeds == 1..(1 + Cardinality(KeyPaths) + MaxBoots + MaxIssues)

-----------------------------------------------------------------------------
(* ijima serve *)

Boot ==
    /\ daemon.at = "off" /\ used.boots < MaxBoots
    /\ Spend("boots")
    /\ daemon' = [Off EXCEPT !.at = "load", !.setup = SetupOf("daemon")]
    /\ UNCHANGED <<disk, keys, cli, history>>

ServeLoadLeniently ==
    /\ daemon.at = "load"
    /\ daemon' = [daemon EXCEPT !.at = "key"]
    /\ UNCHANGED <<disk, keys, cli, history, used>>

\* "A malformed file fails the daemon before anything opens."
ServeLoad ==
    /\ daemon.at = "load"
    /\ daemon' = IF Load(SetupOf("daemon")).ok THEN [daemon EXCEPT !.at = "key"] ELSE Off
    /\ UNCHANGED <<disk, keys, cli, history, used>>

\* default_key_path reads the file again, and lets it fail this time.
ServeKey ==
    /\ daemon.at = "key"
    /\ \E seed \in Seeds :
        /\ LoadOrCreate(DefaultKeyPath(SetupOf("daemon")), seed)
        /\ daemon' = [daemon EXCEPT !.at = "open", !.seed = seed]
    /\ UNCHANGED <<disk, cli, history, used>>

\* resolve_data_dir, once more; store, revocations and listener are Access!Boot.
ServeOpen ==
    /\ daemon.at = "open"
    /\ LET dir == ResolveDataDir(SetupOf("daemon")) IN
       /\ daemon' = [daemon EXCEPT !.at = "on", !.dir = dir]
       /\ boots' = IF daemon.setup # None
                   THEN boots \cup {[seed |-> daemon.seed, dir |-> dir, setup |-> daemon.setup]}
                   ELSE boots
    /\ UNCHANGED <<disk, keys, cli, tokens, written, orders, used>>

\* It is stopped, dies, or fails to open its store or its socket.
Stop ==
    /\ daemon.at # "off"
    /\ daemon' = Off
    /\ UNCHANGED <<disk, keys, cli, history, used>>

-----------------------------------------------------------------------------
(* ijima token issue *)

\* An unknown capability name ends the command before it has touched anything.
ValidateCapability(args) == args.caps \subseteq Caps

RunIssue(args) ==
    /\ cli.at = "idle" /\ used.issues < MaxIssues
    /\ Spend("issues")
    /\ cli' = IF ValidateCapability(args)
              THEN [at |-> "key", args |-> args, seed |-> 0, setup |-> SetupOf("cli")]
              ELSE Idle
    /\ UNCHANGED <<disk, keys, daemon, history>>

\* The key is made if need be, even when the policy then denies the grant.
IssueKey ==
    /\ cli.at = "key"
    /\ \E seed \in Seeds :
        /\ LoadOrCreate(IF cli.args.key_file # None THEN cli.args.key_file
                        ELSE DefaultKeyPath(SetupOf("cli")), seed)
        /\ cli' = [cli EXCEPT !.at = "policy", !.seed = seed]
    /\ UNCHANGED <<disk, daemon, history, used>>

\* The policy compiled into the binary lists no principals.
EmbeddedPolicy == [form |-> "full", grants |-> [p \in Principals |-> {}]]

NamedSite(args, e) ==
    IF args.policy THEN "--policy" ELSE IF e.policy THEN "IJIMA_POLICY" ELSE None

SourceFallingThrough(args, e) ==
    LET present == {s \in {NamedSite(args, e), e.dir} \ {None} : policies[s] # None} IN
    IF present = {} THEN EmbeddedPolicy
    ELSE policies[IF NamedSite(args, e) \in present THEN NamedSite(args, e) ELSE e.dir]

\* --policy, $IJIMA_POLICY, $IJIMA_DIR/policy.toml, embedded: a named file that
\* is missing is an error (None); the config file's data_dir is not consulted.
ResolvePolicySource(args, e) ==
    IF NamedSite(args, e) # None THEN policies[NamedSite(args, e)]
    ELSE IF e.dir # None /\ policies[e.dir] # None THEN policies[e.dir]
    ELSE EmbeddedPolicy

\* An overlay has principals and nothing else, and at least one of them.
IssuancePolicyFromSource(text) ==
    /\ text # None
    /\ \/ text.form = "full"
       \/ text.form = "overlay" /\ \E p \in Principals : text.grants[p] # {}

\* GrantPolicy::may_issue: each capability is one the principal is listed with.
MayIssue(text, args) == args.caps \subseteq text.grants[args.principal]

\* Signed only when the grant is not empty and the policy entitles it.
IssueGrantBearerUnderPolicy(args, text) ==
    /\ args.caps # {}
    /\ MayIssue(text, args)

Issue ==
    /\ cli.at = "policy"
    /\ LET text == ResolvePolicySource(cli.args, env["cli"])
           t == [seed |-> cli.seed, principal |-> cli.args.principal, caps |-> cli.args.caps,
                 site |-> IF NamedSite(cli.args, env["cli"]) # None
                          THEN NamedSite(cli.args, env["cli"]) ELSE env["cli"].dir,
                 setup |-> IF cli.args.key_file = None THEN cli.setup ELSE None]
       IN tokens' = IF IssuancePolicyFromSource(text)
                         /\ IssueGrantBearerUnderPolicy(cli.args, text)
                    THEN tokens \cup {t} ELSE tokens
    /\ cli' = Idle
    /\ UNCHANGED <<disk, keys, daemon, boots, written, orders, used>>

-----------------------------------------------------------------------------
(* Admin commands, and the operator *)

\* verify_bearer: the signature is by the daemon's own key.
VerifyBearer(t) == daemon.at = "on" /\ t.seed = daemon.seed

\* require(ADMIN): no other capability's partition contains admin's.
Require(t) == VerifyBearer(t) /\ "admin" \in t.caps

\* token revoke, token revocations, namespace grant, revoke and members: one
\* request with --auth; 401 and 403 change nothing and are an error.
AdminCommand(t) ==
    /\ Require(t)
    /\ orders' = orders \cup {t}
    /\ UNCHANGED <<disk, keys, daemon, cli, tokens, boots, written, used>>

\* A process that is under way has not seen one setup only.
EditConfig(site, text) ==
    /\ used.edits < MaxEdits /\ configs[site] # text
    /\ Spend("edits")
    /\ configs' = [configs EXCEPT ![site] = text]
    /\ daemon' = [daemon EXCEPT !.setup = None]
    /\ cli' = [cli EXCEPT !.setup = None]
    /\ UNCHANGED <<env, policies, keys, history>>

EditPolicy(site, text) ==
    /\ used.edits < MaxEdits /\ policies[site] # text
    /\ Spend("edits")
    /\ policies' = [policies EXCEPT ![site] = text]
    /\ written' = written \cup {[site |-> site, text |-> text]}
    /\ UNCHANGED <<env, configs, keys, daemon, cli, tokens, boots, orders>>

\* A process that runs keeps the environment it was started in.
SetEnv(p, e) ==
    /\ used.edits < MaxEdits /\ env[p] # e
    /\ IF p = "cli" THEN cli = Idle ELSE daemon = Off
    /\ Spend("edits")
    /\ env' = [env EXCEPT ![p] = e]
    /\ UNCHANGED <<configs, policies, keys, daemon, cli, history>>

Serve == Boot \/ ServeLoad \/ ServeKey \/ ServeOpen \/ Stop

Next ==
    \/ Serve
    \/ \E args \in Commands : RunIssue(args)
    \/ IssueKey
    \/ Issue
    \/ \E t \in tokens : AdminCommand(t)
    \/ \E site \in Sites, text \in ConfigTexts \cup {None} : EditConfig(site, text)
    \/ \E site \in PolicySites, text \in PolicyTexts : EditPolicy(site, text)
    \/ \E p \in Processes, e \in Envs : SetEnv(p, e)

Spec == Init /\ [][Next]_vars

-----------------------------------------------------------------------------
(* Properties *)

\* Two processes, one issuer: whatever was edited and restored in between, and
\* whoever came first to make the key, every boot under the same settings comes
\* up with the same key over the same database, and a token issued under those
\* settings (and no --key-file) is one that this daemon verifies.
OneIssuer ==
    \A b \in boots :
        /\ \A c \in boots : c.setup = b.setup => c.seed = b.seed /\ c.dir = b.dir
        /\ \A t \in tokens : t.setup = b.setup => t.seed = b.seed

\* Issuance fails closed: a token says no more than some text that the operator
\* wrote into the very policy file the command is governed by ($IJIMA_POLICY
\* when it is set and no --policy is), whatever other files say and however
\* they are missing or broken; a fresh install mints nothing, and so no admin
\* command is carried out that such a text does not cover.
MintsOnlyEntitled ==
    \A t \in tokens \cup orders :
        \E w \in written :
            w.site = t.site /\ t.caps \subseteq w.text.grants[t.principal]

\* No daemon serves over settings it could not read: when the settings stayed
\* as they were during its boot, the file they lead to exists and parses,
\* although the later steps of the boot would all have taken a broken one.
ServesWhatItRead ==
    \A b \in boots :
        LET c == b.setup.configs
            e == b.setup.env
        IN  /\ e.config => c["IJIMA_CONFIG"] # None /\ c["IJIMA_CONFIG"].ok
            /\ ~e.config => LET d == DataDirImplicit(e) IN
                            IF c[d] # None THEN c[d].ok ELSE c["etc"] # None => c["etc"].ok

=============================================================================
