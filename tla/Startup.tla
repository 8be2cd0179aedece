------------------------------ MODULE Startup ------------------------------
(***************************************************************************)
(* How a deployment gets its configuration: setup_wizard.py writes .env    *)
(* and config.yaml, config.py reads them when a process starts, and the    *)
(* registries of providers and of embeddings keep what they found.  A      *)
(* process may start at any point of the wizard's work, and runs on with   *)
(* what it read.                                                           *)
(*                                                                         *)
(* A variable that configures a provider has the name of the provider; its *)
(* value does not matter.  A catalog is the set of the providers that it   *)
(* has an enabled model of.                                                *)
(***************************************************************************)
EXTENDS EmbeddingRegistry, Functions

CONSTANTS
    CoreProviders,  \* the providers of discover_and_register_core, in their order
    Contributed,    \* the providers found in contrib.providers
    Template,       \* the catalog of config.yaml.example
    OwnCatalogs,    \* the catalogs an operator may write
    Answers,        \* what the wizard may be told
    FirstFiles,     \* the .env files there may be before the wizard was ever run
    Shells,         \* the environments it and the processes may be started in
    MaxSetups,      \* bound: the number of runs of the wizard
    None            \* no file, no process, no setup, no container

CoreNames == ToSet(CoreProviders)
Asked == CoreNames \ {"ollama"}
Variables == CoreNames \cup Contributed \cup {"EMBEDDING_PROVIDER", "COHERE_API_KEY"}

\* What .env holds, and what is exported.
IsFile(f) ==
    /\ DOMAIN f \subseteq Variables
    /\ \A v \in DOMAIN f :
        IF v = "EMBEDDING_PROVIDER" THEN f[v] \in ToSet(EmbeddingProviders) ELSE f[v] = "given"

Yamls == {"none", "template", "own", "broken"}

ASSUME StartupAssumption ==
    /\ "ollama" \in CoreNames
    /\ "ollama" \in Template
    /\ {"EMBEDDING_PROVIDER", "COHERE_API_KEY"} \cap (CoreNames \cup Contributed) = {}
    /\ \A f \in FirstFiles \cup Shells : IsFile(f)
    /\ Answers \subseteq [providers : SUBSET Asked, embedding : ToSet(EmbeddingProviders),
                          cohere_key : BOOLEAN]
    /\ MaxSetups \in Nat

VARIABLES
    deployment,  \* how processes are started: "dev" or "compose"
    shell,       \* the environment they are started in
    local,       \* whether sentence-transformers is installed
    example,     \* whether there is a config.yaml.example
    env_file,    \* the variables in .env, or None
    yaml,        \* config.yaml
    own,         \* the catalog in it when the operator wrote it
    wizard,      \* where a run of the wizard is, what it was told, whether it failed
    setups,      \* the number of runs so far
    setup,       \* what the last run was told if it wrote all of it and nothing else did
    container,   \* the environment the container was created with
    process      \* what the process has read, None if there is none

startVars == <<deployment, shell, local, example, env_file, yaml, own, wizard, setups, setup,
          container, process>>
machine == <<deployment, shell, local, example>>
files == <<env_file, yaml, own>>

Empty == [v \in {} |-> "given"]
FileVars == IF env_file = None THEN Empty ELSE env_file
NoRun == [pc |-> "idle", told |-> None, failed |-> FALSE]

StartInit ==
    /\ deployment \in {"dev", "compose"}
    /\ shell \in Shells
    /\ local \in BOOLEAN
    /\ example \in BOOLEAN
    /\ env_file \in FirstFiles \cup {None}
    /\ yaml \in {"none", "own"}
    /\ own \in OwnCatalogs
    /\ wizard = NoRun
    /\ setups = 0
    /\ setup = None
    /\ container = None
    /\ process = None

-----------------------------------------------------------------------------
(* The wizard.                                                             *)

\* run_wizard: the operator lets it overwrite what there is, and answers all questions.
\* (When it is told not to it ends at once, and changes nothing.)
BeginSetup ==
    /\ wizard.pc = "idle"
    /\ setups < MaxSetups
    /\ \E a \in Answers : wizard' = [pc |-> "answered", told |-> a, failed |-> FALSE]
    /\ setups' = setups + 1
    /\ UNCHANGED <<machine, files, setup, container, process>>

\* The variables for Ollama and for the embedding provider, which are set in any case,
\* and the one for the key of Cohere if it was given.
VariablesOf(a) ==
    {"ollama", "EMBEDDING_PROVIDER"}
        \cup (IF a.embedding = "cohere" /\ a.cohere_key THEN {"COHERE_API_KEY"} ELSE {})

\* Mutant: the choice is written as its number.
env_variables_numbered(a) ==
    [v \in a.providers \cup VariablesOf(a) |->
        IF v = "EMBEDDING_PROVIDER" THEN "1" ELSE "given"]

\* Mutant: what was left blank is written as well.
env_variables_of_all(a) ==
    [v \in CoreNames \cup VariablesOf(a) |->
        IF v = "EMBEDDING_PROVIDER" THEN a.embedding ELSE "given"]

\* And a variable for every provider that was named.
env_variables(a) ==
    [v \in a.providers \cup VariablesOf(a) |->
        IF v = "EMBEDDING_PROVIDER" THEN a.embedding ELSE "given"]

ASSUME NoneAssumption == \A a \in Answers : env_variables(a) # None

\* The file is opened for writing, which empties it.
OpenEnv ==
    /\ wizard.pc = "answered"
    /\ env_file' = Empty
    /\ setup' = None
    /\ wizard' = [wizard EXCEPT !.pc = "writing"]
    /\ UNCHANGED <<machine, yaml, own, setups, container, process>>

\* It cannot be opened, which is told, and the wizard goes on.
OpenEnvFails ==
    /\ wizard.pc = "answered"
    /\ wizard' = [wizard EXCEPT !.pc = "copying", !.failed = TRUE]
    /\ setup' = None
    /\ UNCHANGED <<machine, files, setups, container, process>>

WriteEnv ==
    /\ wizard.pc = "writing"
    /\ env_file' = env_variables(wizard.told)
    /\ wizard' = [wizard EXCEPT !.pc = "copying"]
    /\ UNCHANGED <<machine, yaml, own, setups, setup, container, process>>

\* The order of the lines: the providers in the order they are asked for, the rest.
LinesUpTo(file, k) ==
    Restrict(file, {CoreProviders[i] : i \in 1..k} \cap DOMAIN file)

\* Only some of the lines get to the disk.
WriteEnvFails ==
    /\ wizard.pc = "writing"
    /\ \E k \in 0..Len(CoreProviders) : env_file' = LinesUpTo(env_variables(wizard.told), k)
    /\ wizard' = [wizard EXCEPT !.pc = "copying", !.failed = TRUE]
    /\ UNCHANGED <<machine, yaml, own, setups, setup, container, process>>

\* config.yaml is copied from the example unless there is one.  "Setup Complete!"
CopyYaml ==
    /\ wizard.pc = "copying"
    /\ yaml' = IF example /\ yaml = "none" THEN "template" ELSE yaml
    /\ setup' = IF wizard.failed THEN None ELSE wizard.told
    /\ wizard' = NoRun
    /\ UNCHANGED <<machine, env_file, own, setups, container, process>>

\* The copy fails, at once or half-way, which is told; the setup is complete as well.
CopyYamlFails ==
    /\ wizard.pc = "copying"
    /\ example /\ yaml = "none"
    /\ yaml' \in {"none", "broken"}
    /\ setup' = IF wizard.failed THEN None ELSE wizard.told
    /\ wizard' = NoRun
    /\ UNCHANGED <<machine, env_file, own, setups, container, process>>

\* The wizard is interrupted, in a dialogue or before the buffer is written.
Interrupt ==
    /\ wizard.pc # "idle"
    /\ wizard' = NoRun
    /\ UNCHANGED <<machine, files, setups, setup, container, process>>

\* The operator writes a config.yaml; an error in one entry makes it broken.
EditYaml ==
    /\ yaml' \in {"own", "broken"} \ {yaml}
    /\ UNCHANGED <<machine, env_file, own, wizard, setups, setup, container, process>>

-----------------------------------------------------------------------------
(* The start of a process.                                                 *)

\* The fields of Settings that are set: the environment goes before .env.
Settings(exported) ==
    [v \in DOMAIN exported \cup DOMAIN FileVars |->
        IF v \in DOMAIN exported THEN exported[v] ELSE FileVars[v]]

\* Mutant: there is no hard-coded catalog.
ExampleOrNone == IF example THEN Template ELSE {}

\* What is taken when there is no config.yaml.
DefaultCatalog == IF example THEN Template ELSE {"ollama"}

\* One error makes the whole catalog empty.
load_yaml_config ==
    CASE yaml = "none" -> DefaultCatalog
      [] yaml = "template" -> Template
      [] yaml = "own" -> own
      [] yaml = "broken" -> {}

\* Whether the class of provider p finds its key or address; that of Ollama has a default.
ProviderFromEnv(p, exported) == p = "ollama" \/ p \in DOMAIN Settings(exported)

\* Every class is asked alone; contributed ones may fail to load.
Registered(broken, exported) ==
    {p \in CoreNames \cup (Contributed \ broken) : ProviderFromEnv(p, exported)}

\* Where the embedding classes find what they need: that of Cohere looks at the
\* environment only.
Usable(exported) ==
    {"ollama"}
        \cup (IF "openai" \in DOMAIN Settings(exported) THEN {"openai"} ELSE {})
        \cup (IF "COHERE_API_KEY" \in DOMAIN exported THEN {"cohere"} ELSE {})
        \cup (IF local THEN {"sentence-transformers"} ELSE {})

EmbeddingSetting(exported) ==
    IF "EMBEDDING_PROVIDER" \in DOMAIN Settings(exported)
    THEN Settings(exported)["EMBEDDING_PROVIDER"] ELSE "sentence-transformers"

\* The modules are imported: all is read once.
Import(exported) ==
    \E broken \in SUBSET Contributed :
        process' = [exported  |-> exported,
                    catalog   |-> load_yaml_config,
                    active    |-> Registered(broken, exported),
                    embedding |-> active_provider([EMBEDDING_PROVIDER |-> EmbeddingSetting(exported),
                                                   usable |-> Usable(exported)]),
                    yaml      |-> yaml,
                    setup     |-> setup]

\* `make dev`: .env is read, not exported.
StartDev ==
    /\ deployment = "dev"
    /\ process = None
    /\ Import(shell)
    /\ UNCHANGED <<machine, files, wizard, setups, setup, container>>

\* `docker-compose up`: .env is also the environment of the container.
ComposeUp ==
    /\ deployment = "compose"
    /\ process = None
    /\ env_file # None
    /\ container' = env_file
    /\ Import(container')
    /\ UNCHANGED <<machine, files, wizard, setups, setup>>

\* `docker-compose restart`, or start after a crash: the container is the old one.
ComposeRestart ==
    /\ deployment = "compose"
    /\ process = None
    /\ container # None
    /\ Import(container)
    /\ UNCHANGED <<machine, files, wizard, setups, setup, container>>

\* The process is stopped or crashes.
Stop ==
    /\ process # None
    /\ process' = None
    /\ UNCHANGED <<machine, files, wizard, setups, setup, container>>

StartNext ==
    \/ BeginSetup \/ OpenEnv \/ OpenEnvFails \/ WriteEnv \/ WriteEnvFails
    \/ CopyYaml \/ CopyYamlFails \/ Interrupt \/ EditYaml
    \/ StartDev \/ ComposeUp \/ ComposeRestart \/ Stop

StartSpec == StartInit /\ [][StartNext]_startVars

-----------------------------------------------------------------------------
(* Properties.                                                             *)

Running == process # None

\* Every variable has its type.
StartTypeOK ==
    /\ deployment \in {"dev", "compose"}
    /\ shell \in Shells
    /\ local \in BOOLEAN /\ example \in BOOLEAN
    /\ env_file = None \/ IsFile(env_file)
    /\ yaml \in Yamls /\ own \in OwnCatalogs
    /\ wizard.pc \in {"idle", "answered", "writing", "copying"}
    /\ wizard.told \in Answers \cup {None} /\ wizard.failed \in BOOLEAN
    /\ setups \in 0..MaxSetups
    /\ setup \in Answers \cup {None}
    /\ container = None \/ IsFile(container)
    /\ Running =>
        /\ IsFile(process.exported)
        /\ process.active \subseteq CoreNames \cup Contributed
        /\ process.embedding \in ToSet(EmbeddingProviders) \cup {NoProvider}
        /\ process.yaml \in Yamls /\ process.setup \in Answers \cup {None}

\* A process that starts on a complete setup, in an environment that sets nothing or
\* just what the setup wrote, has the providers that were named and no others, of
\* whatever was there before, and the embedding provider that was chosen if this can
\* be used: its key or package is there, and that of Cohere is in the environment.
SetupIsHonoured ==
    Running /\ process.setup # None =>
        LET s == process.setup
        IN  process.exported \in {Empty, env_variables(s)} =>
                /\ process.active = s.providers \cup {"ollama"}
                /\ \/ s.embedding = "ollama"
                   \/ s.embedding = "openai" /\ "openai" \in s.providers
                   \/ s.embedding = "sentence-transformers" /\ local
                   \/ s.embedding = "cohere" /\ "COHERE_API_KEY" \in DOMAIN process.exported
                   => process.embedding = s.embedding

\* After a setup there is a model that can be called, whatever providers were named and
\* whatever the environment is, unless the operator wrote the catalog or its copy failed.
SetupServes ==
    Running /\ process.setup # None /\ process.yaml \notin {"own", "broken"} =>
        process.catalog \cap process.active # {}

=============================================================================
