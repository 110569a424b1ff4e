----------------------------- MODULE SetupProofs ----------------------------
(***************************************************************************)
(* Proofs about Setup, for any directories, environments, config and policy  *)
(* texts, commands, and any number of edits, boots and runs of `token        *)
(* issue`.  What a process holds while it is under way is tied to the disk   *)
(* only while the settings stay as they were when it began; what it leaves   *)
(* behind (a boot, a token) is tied to the key file of the settings it saw,  *)
(* which is safe because a key that was made is never replaced.              *)
(***************************************************************************)
EXTENDS Setup, TLAPS

\* The seed is the one in the key file that these settings lead to.
KeyOf(seen, seed) == seed # 0 /\ seed = keys[DefaultKeyPath(seen)]

Disk ==
    /\ env \in [Processes -> Envs]
    /\ configs \in [Sites -> ConfigTexts \cup {None}]
    /\ policies \in [PolicySites -> PolicyTexts \cup {None}]
    /\ keys \in [KeyPaths -> Nat]

\* The daemon under way: it has seen one setup only, read it without an error,
\* and holds that setup's key.
Serving ==
    /\ daemon \in [at : {"off", "load", "key", "open", "on"}, seed : {daemon.seed},
                   dir : {daemon.dir}, setup : {daemon.setup}]
    /\ daemon.at # "off" /\ daemon.setup # None => daemon.setup = SetupOf("daemon")
    /\ daemon.at \in {"key", "open"} /\ daemon.setup # None => Load(daemon.setup).ok
    /\ daemon.at = "open" /\ daemon.setup # None => KeyOf(daemon.setup, daemon.seed)

\* The command under way likewise, when it takes the key of its settings.
Issuing ==
    /\ cli \in [at : {"idle", "key", "policy"}, args : {cli.args}, seed : {cli.seed},
                setup : {cli.setup}]
    /\ cli.at # "idle" => cli.args \in IssueArgs
    /\ cli.at # "idle" /\ cli.setup # None => cli.setup = SetupOf("cli")
    /\ cli.at = "policy" /\ cli.args.key_file = None /\ cli.setup # None =>
        KeyOf(cli.setup, cli.seed)

\* What is left of the boots: each one's settings, and what they lead to.
Booted ==
    \A b \in boots :
        /\ b.setup \in Settings
        /\ Load(b.setup).ok
        /\ KeyOf(b.setup, b.seed)
        /\ b.dir = ResolveDataDir(b.setup)

\* What is left of the commands.
Minted ==
    \A t \in tokens : t.setup # None => t.setup \in Settings /\ KeyOf(t.setup, t.seed)

\* A policy file holds what the operator wrote into it.
Recorded ==
    \A s \in PolicySites : policies[s] # None => [site |-> s, text |-> policies[s]] \in written

\* A text the operator wrote covers the token.
Entitled(t) ==
    \E w \in written : w.site = t.site /\ t.caps \subseteq w.text.grants[t.principal]

\* Tokens, and the commands carried out with them, say no more than that.
Rights ==
    /\ Recorded
    /\ orders \subseteq tokens
    /\ \A t \in tokens : Entitled(t)

SetupInv == Disk /\ Serving /\ Issuing /\ Booted /\ Minted /\ Rights

-----------------------------------------------------------------------------
(* The key files *)

\* A key that was made stays what it is.
KeysKept == \A p \in KeyPaths : keys[p] # 0 => keys'[p] = keys[p]

\* Every way of resolving the settings ends at a file that parses or at the
\* defaults.
LEMMA LoadIsToml ==
    ASSUME NEW seen \in Settings
    PROVE  Load(seen) \in IjimaToml
<1>1. seen.env \in Env /\ seen.configs \in [Sites -> IjimaToml \cup {None}]
    BY SetupAssumption DEF Settings
<1>2. DataDirImplicit(seen.env) \in Dirs
    BY <1>1, SetupAssumption DEF DataDirImplicit, Env
<1>3. DiscoverPath(seen) \in Sites \cup {None}
    BY <1>2 DEF DiscoverPath, Sites
<1>4. Default \in IjimaToml /\ Unreadable \in IjimaToml
    BY DEF Default, Unreadable, IjimaToml
<1> QED BY <1>1, <1>3, <1>4 DEF Load

\* default_key_path of any settings is one of the key files.
LEMMA KeyPathExists ==
    ASSUME NEW seen \in Settings
    PROVE  DefaultKeyPath(seen) \in KeyPaths
<1>1. seen.env \in Env
    BY SetupAssumption DEF Settings
<1>2. Default \in IjimaToml
    BY DEF Default, IjimaToml
<1>3. Lenient(seen) \in IjimaToml
    BY <1>2, LoadIsToml DEF Lenient
<1>4. ResolveDataDir(seen) \in Dirs
    BY <1>1, <1>3, SetupAssumption DEF ResolveDataDir, Env, IjimaToml
<1>5. ResolvePath(seen) \in {None, Vault}
    BY <1>1, <1>3 DEF ResolvePath, Env, IjimaToml
<1> QED BY <1>4, <1>5 DEF DefaultKeyPath, KeyPaths

LEMMA SettingsSeen ==
    ASSUME Disk, NEW p \in Processes
    PROVE  SetupOf(p) \in Settings
BY DEF Disk, SetupOf, Settings

\* KeyStore::load_or_create: the file holds the seed afterwards, and no key that
\* was there is replaced.
LEMMA KeyIsMadeOnce ==
    ASSUME Disk, NEW path \in KeyPaths, NEW seed \in Seeds, LoadOrCreate(path, seed)
    PROVE  /\ seed \in Nat /\ seed # 0
           /\ keys' \in [KeyPaths -> Nat]
           /\ keys'[path] = seed
           /\ KeysKept
<1>1. seed \in Nat /\ seed # 0
    BY DEF Seeds
<1>2. keys' = [keys EXCEPT ![path] = seed] /\ (keys[path] # 0 => seed = keys[path])
    BY DEF LoadOrCreate
<1> QED BY <1>1, <1>2 DEF Disk, KeysKept

\* So what a boot or a token was tied to remains tied.
LEMMA KeyOfKept ==
    ASSUME Disk, KeysKept, NEW seen \in Settings, NEW seed, KeyOf(seen, seed)
    PROVE  seed # 0 /\ seed = keys'[DefaultKeyPath(seen)]
BY KeyPathExists DEF KeyOf, KeysKept, Disk

LEMMA BootedKept ==
    ASSUME Disk, KeysKept, Booted, UNCHANGED boots
    PROVE  Booted'
<1> SUFFICES ASSUME NEW b \in boots
             PROVE  /\ b.setup \in Settings /\ Load(b.setup).ok
                    /\ b.seed # 0 /\ b.seed = keys'[DefaultKeyPath(b.setup)]
                    /\ b.dir = ResolveDataDir(b.setup)
    BY Zenon DEF Booted, KeyOf
<1> QED BY KeyOfKept DEF Booted

LEMMA MintedKept ==
    ASSUME Disk, KeysKept, Minted, UNCHANGED tokens
    PROVE  Minted'
<1> SUFFICES ASSUME NEW t \in tokens, t.setup # None
             PROVE  /\ t.setup \in Settings
                    /\ t.seed # 0 /\ t.seed = keys'[DefaultKeyPath(t.setup)]
    BY Zenon DEF Minted, KeyOf
<1> QED BY KeyOfKept DEF Minted

-----------------------------------------------------------------------------
(* Frames *)

LEMMA ServingKept ==
    ASSUME Disk, KeysKept, Serving, UNCHANGED <<daemon, env, configs>>
    PROVE  Serving'
<1>1. SetupOf("daemon")' = SetupOf("daemon")
    BY Zenon DEF SetupOf
<1>2. daemon.at = "open" /\ daemon.setup # None =>
        daemon.seed # 0 /\ daemon.seed = keys'[DefaultKeyPath(daemon.setup)]
    BY KeyOfKept, SettingsSeen DEF Serving, Processes
<1> QED BY <1>1, <1>2 DEF Serving, KeyOf

LEMMA IssuingKept ==
    ASSUME Disk, KeysKept, Issuing, UNCHANGED <<cli, env, configs>>
    PROVE  Issuing'
<1>1. SetupOf("cli")' = SetupOf("cli")
    BY Zenon DEF SetupOf
<1>2. cli.at = "policy" /\ cli.args.key_file = None /\ cli.setup # None =>
        cli.seed # 0 /\ cli.seed = keys'[DefaultKeyPath(cli.setup)]
    BY KeyOfKept, SettingsSeen DEF Issuing, Processes
<1> QED BY <1>1, <1>2 DEF Issuing, KeyOf

LEMMA RightsKept ==
    ASSUME Rights, UNCHANGED <<policies, tokens, written, orders>>
    PROVE  Rights'
BY DEF Rights, Recorded, Entitled

LEMMA Unmade ==
    ASSUME UNCHANGED keys
    PROVE  KeysKept
BY DEF KeysKept

-----------------------------------------------------------------------------
(* ijima serve *)

LEMMA ServePreserves ==
    ASSUME SetupInv, Serve
    PROVE  SetupInv'
<1> USE DEF SetupInv
<1>0. SetupOf("daemon") \in Settings /\ SetupOf("daemon")' = SetupOf("daemon")
    BY SettingsSeen DEF Processes, SetupOf, Serve, Boot, ServeLoad, ServeKey, ServeOpen, Stop, disk
<1>1. CASE Boot
    <2>1. /\ UNCHANGED <<env, configs, policies, keys, cli, tokens, boots, written, orders>>
          /\ daemon' = [at |-> "load", seed |-> 0, dir |-> None, setup |-> SetupOf("daemon")]
        BY <1>1 DEF Boot, disk, history, Off
    <2>2. Disk' /\ KeysKept
        BY <2>1, Unmade DEF Disk
    <2>3. Serving'
        BY <1>0, <2>1 DEF Serving
    <2> QED BY <2>1, <2>2, <2>3, IssuingKept, BootedKept, MintedKept, RightsKept
<1>2. CASE ServeLoad
    <2>1. /\ UNCHANGED <<env, configs, policies, keys, cli, tokens, boots, written, orders>>
          /\ daemon.at = "load"
          /\ daemon' = IF Load(SetupOf("daemon")).ok THEN [daemon EXCEPT !.at = "key"] ELSE Off
        BY <1>2 DEF ServeLoad, disk, history
    <2>2. Disk' /\ KeysKept
        BY <2>1, Unmade DEF Disk
    <2>3. Serving'
        <3>1. CASE Load(SetupOf("daemon")).ok
            BY <1>0, <2>1, <3>1 DEF Serving
        <3>2. CASE ~Load(SetupOf("daemon")).ok
            BY <1>0, <2>1, <3>2 DEF Serving, Off
        <3> QED BY <3>1, <3>2
    <2> QED BY <2>1, <2>2, <2>3, IssuingKept, BootedKept, MintedKept, RightsKept
<1>3. CASE ServeKey
    <2>1. PICK seed \in Seeds : /\ LoadOrCreate(DefaultKeyPath(SetupOf("daemon")), seed)
                                /\ daemon' = [daemon EXCEPT !.at = "open", !.seed = seed]
        BY <1>3 DEF ServeKey
    <2>2. /\ UNCHANGED <<env, configs, policies, cli, tokens, boots, written, orders>>
          /\ daemon.at = "key"
        BY <1>3 DEF ServeKey, disk, history
    <2>3. /\ seed \in Nat /\ seed # 0
          /\ keys' \in [KeyPaths -> Nat]
          /\ keys'[DefaultKeyPath(SetupOf("daemon"))] = seed
          /\ KeysKept
        BY <1>0, <2>1, KeyPathExists, KeyIsMadeOnce
    <2>4. Disk'
        BY <2>2, <2>3 DEF Disk
    <2>5. Serving'
        BY <1>0, <2>1, <2>2, <2>3 DEF Serving, KeyOf
    <2> QED BY <2>2, <2>3, <2>4, <2>5, IssuingKept, BootedKept, MintedKept, RightsKept
<1>4. CASE ServeOpen
    <2> DEFINE dir == ResolveDataDir(SetupOf("daemon"))
               b == [seed |-> daemon.seed, dir |-> dir, setup |-> daemon.setup]
    <2>1. /\ UNCHANGED <<env, configs, policies, keys, cli, tokens, written, orders>>
          /\ daemon.at = "open"
          /\ daemon' = [daemon EXCEPT !.at = "on", !.dir = dir]
          /\ boots' = IF daemon.setup # None THEN boots \cup {b} ELSE boots
        BY <1>4 DEF ServeOpen, disk
    <2>2. Disk' /\ KeysKept
        BY <2>1, Unmade DEF Disk
    <2>3. Serving'
        BY <1>0, <2>1 DEF Serving
    <2>4. Booted'
        <3>1. CASE daemon.setup = None
            BY <2>1, <2>2, <3>1, BootedKept
        <3>2. CASE daemon.setup # None
            <4>1. /\ b.setup = SetupOf("daemon") /\ b.setup \in Settings /\ Load(b.setup).ok
                  /\ b.seed # 0 /\ b.seed = keys[DefaultKeyPath(b.setup)]
                  /\ b.dir = ResolveDataDir(b.setup)
                BY <1>0, <2>1, <3>2 DEF Serving, KeyOf
            <4> HIDE DEF b
            <4> QED BY <2>1, <3>2, <4>1 DEF Booted, KeyOf
        <3> QED BY <3>1, <3>2
    <2> QED BY <2>1, <2>2, <2>3, <2>4, IssuingKept, MintedKept, RightsKept
<1>5. CASE Stop
    <2>1. /\ UNCHANGED <<env, configs, policies, keys, cli, tokens, boots, written, orders>>
          /\ daemon' = Off
        BY <1>5 DEF Stop, disk, history
    <2>2. Disk' /\ KeysKept
        BY <2>1, Unmade DEF Disk
    <2>3. Serving'
        BY <2>1 DEF Serving, Off
    <2> QED BY <2>1, <2>2, <2>3, IssuingKept, BootedKept, MintedKept, RightsKept
<1> QED BY <1>1, <1>2, <1>3, <1>4, <1>5 DEF Serve

-----------------------------------------------------------------------------
(* ijima token issue *)

\* A token is signed only under a text that stands in the file it is governed
\* by: the embedded policy lists no one, so it signs nothing.
LEMMA SignedUnderAText ==
    ASSUME Recorded, NEW args \in IssueArgs, NEW e,
           IssuancePolicyFromSource(ResolvePolicySource(args, e)),
           IssueGrantBearerUnderPolicy(args, ResolvePolicySource(args, e)),
           e.dir \in Dirs \cup {None},
           NEW site, site = IF NamedSite(args, e) # None THEN NamedSite(args, e) ELSE e.dir
    PROVE  \E w \in written : w.site = site /\ args.caps \subseteq w.text.grants[args.principal]
<1> DEFINE text == ResolvePolicySource(args, e)
<1>1. text # None /\ args.caps # {} /\ args.caps \subseteq text.grants[args.principal]
    BY DEF IssuancePolicyFromSource, IssueGrantBearerUnderPolicy, MayIssue
<1>2. EmbeddedPolicy.grants[args.principal] = {}
    BY DEF EmbeddedPolicy, IssueArgs
<1>3. text # EmbeddedPolicy
    BY <1>1, <1>2
<1>4. NamedSite(args, e) \in {"--policy", "IJIMA_POLICY", None}
    BY DEF NamedSite
<1>5. site \in PolicySites /\ text = policies[site]
    BY <1>3, <1>4 DEF ResolvePolicySource, PolicySites
<1>6. [site |-> site, text |-> text] \in written
    BY <1>1, <1>5 DEF Recorded
<1> HIDE DEF text
<1> QED BY <1>1, <1>6

LEMMA IssuePreserves ==
    ASSUME SetupInv, (\E args \in Commands : RunIssue(args)) \/ IssueKey \/ Issue
    PROVE  SetupInv'
<1> USE DEF SetupInv
<1>0. SetupOf("cli") \in Settings /\ SetupOf("cli")' = SetupOf("cli")
    BY SettingsSeen DEF Processes, SetupOf, RunIssue, IssueKey, Issue, disk
<1>1. ASSUME NEW args \in Commands, RunIssue(args)
      PROVE  SetupInv'
    <2>1. /\ UNCHANGED <<env, configs, policies, keys, daemon, tokens, boots, written, orders>>
          /\ cli' = IF ValidateCapability(args)
                    THEN [at |-> "key", args |-> args, seed |-> 0, setup |-> SetupOf("cli")]
                    ELSE Idle
        BY <1>1 DEF RunIssue, disk, history
    <2>2. Disk' /\ KeysKept
        BY <2>1, Unmade DEF Disk
    <2>3. args \in IssueArgs
        BY SetupAssumption
    <2>4. Issuing'
        BY <1>0, <2>1, <2>3 DEF Issuing, Idle
    <2> QED BY <2>1, <2>2, <2>4, ServingKept, BootedKept, MintedKept, RightsKept
<1>2. CASE IssueKey
    <2> DEFINE path == IF cli.args.key_file # None THEN cli.args.key_file
                       ELSE DefaultKeyPath(SetupOf("cli"))
    <2>1. PICK seed \in Seeds : /\ LoadOrCreate(path, seed)
                                /\ cli' = [cli EXCEPT !.at = "policy", !.seed = seed]
        BY <1>2 DEF IssueKey
    <2>2. /\ UNCHANGED <<env, configs, policies, daemon, tokens, boots, written, orders>>
          /\ cli.at = "key"
        BY <1>2 DEF IssueKey, disk, history
    <2>3. path \in KeyPaths
        BY <1>0, <2>2, KeyPathExists DEF Issuing, IssueArgs, KeyPaths
    <2>4. /\ seed \in Nat /\ seed # 0
          /\ keys' \in [KeyPaths -> Nat]
          /\ keys'[path] = seed
          /\ KeysKept
        BY <2>1, <2>3, KeyIsMadeOnce
    <2>5. Disk'
        BY <2>2, <2>4 DEF Disk
    <2>6. Issuing'
        BY <1>0, <2>1, <2>2, <2>4 DEF Issuing, KeyOf
    <2> QED BY <2>2, <2>4, <2>5, <2>6, ServingKept, BootedKept, MintedKept, RightsKept
<1>3. CASE Issue
    <2> DEFINE e == env["cli"]
               text == ResolvePolicySource(cli.args, e)
               site == IF NamedSite(cli.args, e) # None THEN NamedSite(cli.args, e) ELSE e.dir
               t == [seed |-> cli.seed, principal |-> cli.args.principal,
                     caps |-> cli.args.caps, site |-> site,
                     setup |-> IF cli.args.key_file = None THEN cli.setup ELSE None]
               ok == IssuancePolicyFromSource(text) /\ IssueGrantBearerUnderPolicy(cli.args, text)
    <2>1. /\ UNCHANGED <<env, configs, policies, keys, daemon, boots, written, orders>>
          /\ cli.at = "policy"
          /\ cli' = Idle
          /\ tokens' = IF ok THEN tokens \cup {t} ELSE tokens
        BY <1>3 DEF Issue, disk
    <2>2. Disk' /\ KeysKept
        BY <2>1, Unmade DEF Disk
    <2>3. Issuing'
        BY <2>1 DEF Issuing, Idle
    <2>4. cli.args \in IssueArgs /\ e.dir \in Dirs \cup {None}
        BY <2>1, SetupAssumption DEF Issuing, Disk, Processes, Env
    <2>5. CASE ok
        <3>1. Entitled(t)
            <4>1. \E w \in written : /\ w.site = site
                                     /\ cli.args.caps \subseteq w.text.grants[cli.args.principal]
                BY <2>4, <2>5, SignedUnderAText DEF Rights
            <4> QED BY <4>1 DEF Entitled
        <3>2. t.setup # None => t.setup \in Settings /\ KeyOf(t.setup, t.seed)
            BY <1>0, <2>1 DEF Issuing
        <3> HIDE DEF t
        <3>3. tokens' = tokens \cup {t}
            BY <2>1, <2>5
        <3>4. Minted'
            BY <2>1, <3>2, <3>3 DEF Minted, KeyOf
        <3>5. Rights'
            BY <2>1, <3>1, <3>3 DEF Rights, Recorded, Entitled
        <3> QED BY <2>1, <2>2, <2>3, <3>4, <3>5, ServingKept, BootedKept
    <2>6. CASE ~ok
        BY <2>1, <2>2, <2>3, <2>6, ServingKept, BootedKept, MintedKept, RightsKept
    <2> QED BY <2>5, <2>6
<1> QED BY <1>1, <1>2, <1>3

-----------------------------------------------------------------------------
(* Admin commands, and the operator *)

LEMMA OperatorPreserves ==
    ASSUME SetupInv,
           \/ \E t \in tokens : AdminCommand(t)
           \/ \E site \in Sites, text \in ConfigTexts \cup {None} : EditConfig(site, text)
           \/ \E site \in PolicySites, text \in PolicyTexts : EditPolicy(site, text)
           \/ \E p \in Processes, e \in Envs : SetEnv(p, e)
    PROVE  SetupInv'
<1> USE DEF SetupInv
<1>1. ASSUME NEW t \in tokens, AdminCommand(t)
      PROVE  SetupInv'
    <2>1. /\ UNCHANGED <<env, configs, policies, keys, daemon, cli, tokens, boots, written>>
          /\ orders' = orders \cup {t}
        BY <1>1 DEF AdminCommand, disk
    <2>2. Disk' /\ KeysKept
        BY <2>1, Unmade DEF Disk
    <2>3. Rights'
        BY <2>1 DEF Rights, Recorded, Entitled
    <2> QED BY <2>1, <2>2, <2>3, ServingKept, IssuingKept, BootedKept, MintedKept
<1>2. ASSUME NEW site \in Sites, NEW text \in ConfigTexts \cup {None}, EditConfig(site, text)
      PROVE  SetupInv'
    <2>1. /\ UNCHANGED <<env, policies, keys, tokens, boots, written, orders>>
          /\ configs' = [configs EXCEPT ![site] = text]
          /\ daemon' = [daemon EXCEPT !.setup = None]
          /\ cli' = [cli EXCEPT !.setup = None]
        BY <1>2 DEF EditConfig, history
    <2>2. Disk' /\ KeysKept
        BY <2>1, Unmade DEF Disk
    <2>3. Serving'
        BY <2>1 DEF Serving
    <2>4. Issuing'
        BY <2>1 DEF Issuing
    <2> QED BY <2>1, <2>2, <2>3, <2>4, BootedKept, MintedKept, RightsKept
<1>3. ASSUME NEW site \in PolicySites, NEW text \in PolicyTexts, EditPolicy(site, text)
      PROVE  SetupInv'
    <2>1. /\ UNCHANGED <<env, configs, keys, daemon, cli, tokens, boots, orders>>
          /\ policies' = [policies EXCEPT ![site] = text]
          /\ written' = written \cup {[site |-> site, text |-> text]}
        BY <1>3 DEF EditPolicy
    <2>2. Disk' /\ KeysKept
        BY <2>1, Unmade DEF Disk
    <2>3. Recorded'
        BY <2>1 DEF Rights, Recorded, Disk
    <2>4. Rights'
        BY <2>1, <2>3 DEF Rights, Entitled
    <2> QED BY <2>1, <2>2, <2>4, ServingKept, IssuingKept, BootedKept, MintedKept
<1>4. ASSUME NEW p \in Processes, NEW e \in Envs, SetEnv(p, e)
      PROVE  SetupInv'
    <2>1. /\ UNCHANGED <<configs, policies, keys, daemon, cli, tokens, boots, written, orders>>
          /\ env' = [env EXCEPT ![p] = e]
          /\ IF p = "cli" THEN cli = Idle ELSE daemon = Off
        BY <1>4 DEF SetEnv, history
    <2>2. Disk' /\ KeysKept
        BY <2>1, Unmade DEF Disk
    <2>3. Serving'
        <3>1. CASE p = "cli"
            <4>1. SetupOf("daemon")' = SetupOf("daemon")
                BY <2>1, <3>1 DEF SetupOf, Disk, Processes
            <4> QED BY <2>1, <4>1 DEF Serving, KeyOf
        <3>2. CASE p # "cli"
            BY <2>1, <3>2 DEF Serving, Off
        <3> QED BY <3>1, <3>2
    <2>4. Issuing'
        <3>1. CASE p = "cli"
            BY <2>1, <3>1 DEF Issuing, Idle
        <3>2. CASE p # "cli"
            <4>1. SetupOf("cli")' = SetupOf("cli")
                BY <2>1, <3>2 DEF SetupOf, Disk, Processes
            <4> QED BY <2>1, <4>1 DEF Issuing, KeyOf
        <3> QED BY <3>1, <3>2
    <2> QED BY <2>1, <2>2, <2>3, <2>4, BootedKept, MintedKept, RightsKept
<1> QED BY <1>1, <1>2, <1>3, <1>4

-----------------------------------------------------------------------------
(* The theorems *)

\* The inductive invariant holds of every behaviour of the two processes.
LEMMA SetupInvariant == Spec => []SetupInv
<1>1. Init => SetupInv
    <2> SUFFICES ASSUME Init PROVE SetupInv
        OBVIOUS
    <2>1. /\ policies = [s \in PolicySites |-> None] /\ keys = [p \in KeyPaths |-> 0]
          /\ daemon = Off /\ cli = Idle
          /\ tokens = {} /\ boots = {} /\ orders = {}
        BY DEF Init
    <2>2. Disk
        BY <2>1 DEF Disk, Init
    <2>3. Serving /\ Issuing
        BY <2>1 DEF Serving, Issuing, Off, Idle
    <2>4. Booted /\ Minted /\ Rights
        BY <2>1 DEF Booted, Minted, Rights, Recorded
    <2> QED BY <2>2, <2>3, <2>4 DEF SetupInv
<1>2. SetupInv /\ [Next]_vars => SetupInv'
    <2> SUFFICES ASSUME SetupInv, [Next]_vars PROVE SetupInv'
        OBVIOUS
    <2>1. CASE Next
        BY <2>1, ServePreserves, IssuePreserves, OperatorPreserves DEF Next
    <2>2. CASE UNCHANGED vars
        <3>1. UNCHANGED <<env, configs, policies, keys, daemon, cli, tokens, boots, written, orders>>
            BY <2>2 DEF vars, disk, history
        <3>2. Disk' /\ KeysKept
            BY <3>1, Unmade DEF SetupInv, Disk
        <3> QED BY <3>1, <3>2, ServingKept, IssuingKept, BootedKept, MintedKept, RightsKept DEF SetupInv
    <2> QED BY <2>1, <2>2
<1> QED BY <1>1, <1>2, PTL DEF Spec

\* OneIssuer (default_key_path, KeyStore::load_or_create): however the operator
\* edits and restores the config files and the environments between the two
\* processes' reads, all boots under the same settings, and all tokens issued
\* under them, carry the same key, because a key file once made is never replaced
\* and both processes resolve the settings to the same file.
THEOREM IssuerIsOne == Spec => []OneIssuer
<1>1. SetupInv => OneIssuer
    <2> SUFFICES ASSUME SetupInv, NEW b \in boots
                 PROVE  /\ \A c \in boots : c.setup = b.setup => c.seed = b.seed /\ c.dir = b.dir
                        /\ \A t \in tokens : t.setup = b.setup => t.seed = b.seed
        BY DEF OneIssuer
    <2>1. /\ b.setup \in Settings /\ b.seed = keys[DefaultKeyPath(b.setup)]
          /\ b.dir = ResolveDataDir(b.setup)
        BY DEF SetupInv, Booted, KeyOf
    <2>2. ASSUME NEW c \in boots, c.setup = b.setup
          PROVE  c.seed = b.seed /\ c.dir = b.dir
        BY <2>1, <2>2 DEF SetupInv, Booted, KeyOf
    <2>3. ASSUME NEW t \in tokens, t.setup = b.setup
          PROVE  t.seed = b.seed
        <3>1. t.setup # None
            BY <2>1, <2>3, SetupAssumption
        <3> QED BY <2>1, <2>3, <3>1 DEF SetupInv, Minted, KeyOf
    <2> QED BY <2>2, <2>3
<1> QED BY <1>1, SetupInvariant, PTL

\* MintsOnlyEntitled (resolve_policy_source, issue_grant_bearer_under_policy): no
\* token, and no admin command, goes beyond a text that was written into the one
\* policy file that governs the command.
THEOREM IssuanceFailsClosed == Spec => []MintsOnlyEntitled
<1>1. SetupInv => MintsOnlyEntitled
    BY DEF SetupInv, Rights, Entitled, MintsOnlyEntitled
<1> QED BY <1>1, SetupInvariant, PTL

\* ServesWhatItRead (IjimaConfig::load in serve): a daemon whose settings stayed
\* as they were during its boot read them without an error.
THEOREM DaemonReadItsSettings == Spec => []ServesWhatItRead
<1>1. SetupInv => ServesWhatItRead
    <2> SUFFICES ASSUME SetupInv, NEW b \in boots, NEW c, NEW e, NEW d,
                        c = b.setup.configs, e = b.setup.env, d = DataDirImplicit(e)
                 PROVE  /\ e.config => c["IJIMA_CONFIG"] # None /\ c["IJIMA_CONFIG"].ok
                        /\ ~e.config => IF c[d] # None THEN c[d].ok
                                        ELSE c["etc"] # None => c["etc"].ok
        BY DEF ServesWhatItRead
    <2>1. b.setup \in Settings /\ Load(b.setup).ok
        BY DEF SetupInv, Booted
    <2>2. e \in Env
        BY <2>1, SetupAssumption DEF Settings
    <2>3. d \in Sites /\ {"IJIMA_CONFIG", "etc"} \subseteq Sites
        BY <2>2, SetupAssumption DEF DataDirImplicit, Env, Sites
    <2>4. d # None /\ "IJIMA_CONFIG" # None /\ "etc" # None
        BY <2>3, SetupAssumption
    <2>5. Unreadable.ok = FALSE
        BY DEF Unreadable
    <2> QED BY <2>1, <2>4, <2>5 DEF Load, DiscoverPath
<1> QED BY <1>1, SetupInvariant, PTL

=============================================================================
